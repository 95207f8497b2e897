------------------------- MODULE PS2ReceiverProofs -------------------------
(***************************************************************************)
(* What a frame does to the bit receiver, for every byte and every history *)
(* of missed and late edges.                                               *)
(*                                                                         *)
(* Ahead says where the handler stands in an undamaged frame: first as far *)
(* ahead as it started, after its wrap no further than the bits since.     *)
(* Heals and Exact refine it for frames that end in ones and for aligned   *)
(* handlers; Counted bounds the bytes of damaged frames too.               *)
(***************************************************************************)
EXTENDS PS2Receiver, TLAPS

ClearAtStart == bitPos = 0 => buffer = {}

Wrapped == clocked >= FrameLen - startPos

Ahead ==
    ~damaged => IF Wrapped THEN bitPos <= clocked - (FrameLen - startPos)
                           ELSE bitPos = startPos + clocked

Heals == ~damaged /\ HighTail /\ Wrapped => bitPos = 0

Exact ==
    ~damaged /\ startPos = 0 =>
        IF clocked = FrameLen THEN decoded = <<byte>>
        ELSE decoded = << >> /\ buffer = {i \in byte : i < clocked - 1}

Counted == Len(decoded) * FrameLen + bitPos <= startPos + clocked

Inv == TypeOK /\ ClearAtStart /\ Ahead /\ Heals /\ Exact /\ Counted

-----------------------------------------------------------------------------
(* Whatever the data line shows, a run of the handler keeps types, an empty *)
(* buffer before the start bit, and the count of bits.                      *)
LEMMA HandleKeeps ==
    ASSUME TypeOK, ClearAtStart, Counted, clocked < FrameLen,
           NEW value, Handle(value)
    PROVE  /\ bitPos' \in 0..(FrameLen - 1) /\ buffer' \in AllBytes
           /\ clocked' \in 0..FrameLen /\ decoded' \in Seq(AllBytes)
           /\ ClearAtStart' /\ Counted'
<1>1. clocked' \in 0..FrameLen
  BY DEF Handle, TypeOK, FrameLen
<1>2. bitPos' \in 0..(FrameLen - 1) /\ ClearAtStart'
  BY DEF Handle, ReceiveEdge, DiscardStart, ShiftIn, Accumulate, TypeOK, ClearAtStart, FrameLen
<1>3. buffer' \in AllBytes
  <2>1. CASE bitPos \in 1..8
    <3>1. bitPos - 1 \in 0..7
      BY <2>1
    <3>2. buffer' \in {{}, buffer, buffer \cup {bitPos - 1}}
      BY DEF Handle, ReceiveEdge, DiscardStart, ShiftIn, Accumulate
    <3> QED BY <3>1, <3>2 DEF TypeOK, AllBytes
  <2>2. CASE bitPos \notin 1..8
    BY <2>2 DEF Handle, ReceiveEdge, DiscardStart, ShiftIn, Accumulate, TypeOK, AllBytes
  <2> QED BY <2>1, <2>2
<1>4. decoded' \in Seq(AllBytes) /\ Counted'
  <2>1. CASE Completes
    <3>1. decoded' = Append(decoded, buffer)
      BY <2>1 DEF Handle
    <3>2. decoded' \in Seq(AllBytes) /\ Len(decoded') = Len(decoded) + 1
      BY <3>1 DEF TypeOK
    <3>3. bitPos = 10 /\ bitPos' = 0
      BY <2>1 DEF Completes, Handle, ReceiveEdge, DiscardStart, ShiftIn, Accumulate, FrameLen
    <3> QED BY <3>2, <3>3 DEF Counted, Handle, TypeOK, FrameLen
  <2>2. CASE ~Completes
    <3>1. decoded' = decoded
      BY <2>2 DEF Handle
    <3>2. bitPos' <= bitPos + 1
      BY <1>2 DEF Handle, ReceiveEdge, DiscardStart, ShiftIn, Accumulate, TypeOK, FrameLen
    <3> QED BY <1>2, <3>1, <3>2 DEF Counted, Handle, TypeOK, FrameLen
  <2> QED BY <2>1, <2>2
<1> QED BY <1>1, <1>2, <1>3, <1>4

(* An edge seen in time keeps the handler no further ahead than it was, and *)
(* leaves it at the start while the frame shows nothing but ones.           *)
LEMMA EdgeKeepsPosition ==
    ASSUME Inv, Edge
    PROVE  Ahead' /\ Heals'
<1> DEFINE value == FrameBit(byte, clocked)
<1>1. clocked \in 0..10 /\ bitPos \in 0..10 /\ startPos \in 0..10
  BY DEF Inv, TypeOK, Edge, FrameLen
<1>2. clocked' = clocked + 1 /\ UNCHANGED <<byte, startPos, damaged>>
  BY DEF Edge, Handle
<1>3. \/ bitPos = 0 /\ value = 1 /\ bitPos' = 0
      \/ ~(bitPos = 0 /\ value = 1) /\ bitPos' = (bitPos + 1) % 11
  BY DEF Edge, Handle, ReceiveEdge, DiscardStart, ShiftIn, Accumulate, FrameLen
<1>4. ASSUME ~damaged PROVE Ahead'
  <2>1. CASE Wrapped
    <3>1. bitPos <= clocked - (11 - startPos) /\ bitPos' <= bitPos + 1 /\ bitPos' \in Nat
      BY <1>1, <1>3, <1>4, <2>1 DEF Inv, Ahead, FrameLen
    <3>2. Wrapped'
      BY <1>1, <1>2, <2>1 DEF Wrapped, FrameLen
    <3> QED BY <1>1, <1>2, <3>1, <3>2 DEF Ahead, FrameLen
  <2>2. CASE ~Wrapped
    <3>1. bitPos = startPos + clocked
      BY <1>4, <2>2 DEF Inv, Ahead
    <3>2. ~(bitPos = 0 /\ value = 1)
      BY <1>1, <3>1 DEF FrameBit
    <3>3. bitPos' = (startPos + clocked + 1) % 11
      BY <1>3, <3>1, <3>2
    <3>4. startPos + clocked < 11
      BY <1>1, <2>2 DEF Wrapped, FrameLen
    <3> HIDE DEF value
    <3> QED BY <1>1, <1>2, <3>3, <3>4 DEF Ahead, Wrapped, FrameLen
  <2> QED BY <2>1, <2>2
<1>5. ASSUME ~damaged, HighTail', Wrapped' PROVE bitPos' = 0
  <2>1. HighTail
    BY <1>2, <1>5 DEF HighTail
  <2>2. CASE Wrapped
    <3>1. bitPos = 0
      BY <1>5, <2>1, <2>2 DEF Inv, Heals
    <3>2. value = 1
      BY <1>1, <2>1, <2>2 DEF HighTail, Wrapped, FrameLen
    <3> QED BY <1>3, <3>1, <3>2
  <2>3. CASE ~Wrapped
    <3>1. clocked + 1 = 11 - startPos
      BY <1>1, <1>2, <1>5, <2>3 DEF Wrapped, FrameLen
    <3>2. bitPos' <= 0
      BY <1>1, <1>2, <1>4, <1>5, <3>1 DEF Ahead, FrameLen
    <3> QED BY <1>1, <1>3, <3>2
  <2> QED BY <2>2, <2>3
<1>6. damaged' = damaged
  BY <1>2
<1> QED BY <1>4, <1>5, <1>6 DEF Ahead, Heals

(* A handler that started the frame in step collects its byte.              *)
LEMMA EdgeKeepsExact ==
    ASSUME Inv, Edge
    PROVE  Exact'
<1> DEFINE value == FrameBit(byte, clocked)
<1> SUFFICES ASSUME ~damaged, startPos = 0
             PROVE  IF clocked' = 11 THEN decoded' = <<byte>>
                    ELSE decoded' = << >> /\ buffer' = {i \in byte : i < clocked}
  BY DEF Exact, Edge, Handle, FrameLen, Inv, TypeOK
<1>1. clocked \in 0..10 /\ clocked' = clocked + 1 /\ \A i \in byte : i \in 0..7
  BY DEF Inv, TypeOK, Edge, Handle, FrameLen, AllBytes
<1>2. bitPos = clocked
  BY <1>1 DEF Inv, Ahead, Wrapped, FrameLen
<1>3. decoded = << >> /\ buffer = {i \in byte : i < clocked - 1}
  BY <1>1 DEF Inv, Exact, FrameLen
<1>4. ~(bitPos = 0 /\ value = 1)
  BY <1>1, <1>2 DEF FrameBit
<1>5. buffer' = IF clocked = 10 THEN {}
                ELSE IF value = 1 /\ clocked \in 1..8 THEN buffer \cup {clocked - 1} ELSE buffer
  BY <1>2, <1>4 DEF Edge, Handle, ReceiveEdge, DiscardStart, ShiftIn, Accumulate, FrameLen
<1>6. decoded' = IF clocked = 10 THEN <<buffer>> ELSE << >>
  BY <1>2, <1>3 DEF Edge, Handle, Completes, FrameLen
<1>7. CASE clocked = 10
  <2>1. buffer \subseteq byte /\ \A i \in byte : i \in buffer
    BY <1>1, <1>3, <1>7
  <2> QED BY <1>1, <1>6, <1>7, <2>1
<1>8. CASE clocked \in 1..8
  <2>1. value = IF clocked - 1 \in byte THEN 1 ELSE 0
    BY <1>8 DEF FrameBit, Level
  <2>2. buffer' = IF clocked - 1 \in byte THEN buffer \cup {clocked - 1} ELSE buffer
    BY <1>5, <1>8, <2>1
  <2>3. \A i \in byte : i < clocked <=> (i < clocked - 1 \/ i = clocked - 1)
    BY <1>1
  <2>4. buffer' = {i \in byte : i < clocked}
    <3> HIDE DEF value
    <3> QED BY <1>1, <1>3, <2>2, <2>3
  <2> QED BY <1>1, <1>6, <1>8, <2>4
<1>9. CASE clocked = 0 \/ clocked = 9
  <2>1. buffer' = buffer
    BY <1>5, <1>9
  <2>2. \A i \in byte : i < clocked <=> i < clocked - 1
    BY <1>1, <1>9
  <2>3. buffer' = {i \in byte : i < clocked}
    BY <1>3, <2>1, <2>2
  <2> QED BY <1>1, <1>6, <1>9, <2>3
<1> QED BY <1>1, <1>7, <1>8, <1>9

-----------------------------------------------------------------------------
LEMMA InitInv == Init => Inv
BY DEF Init, Inv, TypeOK, AllBytes, ClearAtStart, Ahead, Heals, Exact, Counted, FrameLen

LEMMA StepInv == Inv /\ [Next]_receiverVars => Inv'
<1> SUFFICES ASSUME Inv, [Next]_receiverVars PROVE Inv'
  OBVIOUS
<1>1. CASE BeginFrame
  <2>1. TypeOK'
    <3>1. byte' \in AllBytes
      BY <1>1, ReceiverAssumption DEF BeginFrame
    <3>2. bitPos \in 0..10 /\ bitPos' = bitPos /\ buffer' = buffer /\ buffer \in AllBytes
      BY <1>1 DEF BeginFrame, receiver, Inv, TypeOK, FrameLen
    <3>3. clocked' \in 0..11 /\ startPos' \in 0..10
      BY <1>1, <3>2 DEF BeginFrame
    <3>4. damaged' \in BOOLEAN
      BY <1>1 DEF BeginFrame
    <3>5. decoded' \in Seq(AllBytes)
      BY <1>1 DEF BeginFrame
    <3>6. bitPos' \in 0..10 /\ buffer' \in AllBytes
      BY <3>2
    <3> QED BY <3>1, <3>3, <3>4, <3>5, <3>6 DEF TypeOK, FrameLen
  <2>2. ClearAtStart' /\ Counted'
    BY <1>1 DEF BeginFrame, receiver, Inv, TypeOK, ClearAtStart, Counted, FrameLen
  <2>3. Ahead' /\ Heals'
    BY <1>1 DEF BeginFrame, receiver, Inv, TypeOK, Ahead, Heals, Wrapped, FrameLen
  <2>4. Exact'
    <3>1. SUFFICES ASSUME startPos' = 0 PROVE decoded' = << >> /\ buffer' = {i \in byte' : i < -1}
      BY <1>1 DEF BeginFrame, Exact, FrameLen
    <3>2. buffer' = {}
      BY <1>1, <3>1 DEF BeginFrame, receiver, Inv, ClearAtStart
    <3>3. \A i \in byte' : ~(i < -1)
      BY <2>1 DEF TypeOK, AllBytes
    <3> QED BY <1>1, <3>2, <3>3 DEF BeginFrame
  <2> QED BY <2>1, <2>2, <2>3, <2>4 DEF Inv
<1>2. CASE Edge
  <2>1. TypeOK' /\ ClearAtStart' /\ Counted'
    BY <1>2, HandleKeeps DEF Inv, Edge, Handle, TypeOK
  <2> QED BY <1>2, <2>1, EdgeKeepsPosition, EdgeKeepsExact DEF Inv
<1>3. CASE LateEdge
  <2>1. PICK value \in {0, 1} : Handle(value)
    BY <1>3 DEF LateEdge
  <2>2. TypeOK' /\ ClearAtStart' /\ Counted'
    BY <1>3, <2>1, HandleKeeps DEF Inv, LateEdge, Handle, TypeOK
  <2> QED BY <1>3, <2>2 DEF LateEdge, Inv, Ahead, Heals, Exact
<1>4. CASE MissedEdge
  <2>1. TypeOK' /\ ClearAtStart' /\ Counted'
    BY <1>4 DEF Inv, MissedEdge, receiver, TypeOK, ClearAtStart, Counted, FrameLen
  <2> QED BY <1>4, <2>1 DEF MissedEdge, Inv, Ahead, Heals, Exact
<1>5. CASE UNCHANGED receiverVars
  BY <1>5 DEF receiverVars, Inv, TypeOK, ClearAtStart, Ahead, Heals, Exact, Counted,
              Wrapped, HighTail
<1> QED BY <1>1, <1>2, <1>3, <1>4, <1>5 DEF Next

LEMMA InvHolds == Spec => []Inv
BY InitInv, StepInv, PTL DEF Spec

(* Positions, buffer and counters keep their types.                         *)
THEOREM TypeCorrect == Spec => []TypeOK
<1>1. Inv => TypeOK
  BY DEF Inv
<1> QED BY <1>1, InvHolds, PTL

(* A frame that finds the handler at its start and loses no edge yields     *)
(* exactly its byte.                                                        *)
THEOREM AlignedFramesDecode == Spec => []AlignedFrame
<1>1. Inv => AlignedFrame
  BY DEF Inv, AlignedFrame, Undamaged, Exact, Ahead, Wrapped, TypeOK, FrameLen
<1> QED BY <1>1, InvHolds, PTL

(* An undamaged frame leaves the handler no further out of step.            *)
THEOREM MisalignmentBounded == Spec => []MisalignmentNeverGrows
<1>1. Inv => MisalignmentNeverGrows
  BY DEF Inv, MisalignmentNeverGrows, Undamaged, Ahead, Wrapped, TypeOK, FrameLen
<1> QED BY <1>1, InvHolds, PTL

(* An undamaged frame whose last bits are ones, as many as the handler was  *)
(* ahead, brings it back into step.                                         *)
THEOREM HighTailHeals == Spec => []HighTailRealigns
<1>1. Inv => HighTailRealigns
  BY DEF Inv, HighTailRealigns, Undamaged, Heals, Wrapped, TypeOK, FrameLen
<1> QED BY <1>1, InvHolds, PTL

(* No frame, damaged or not, runs onData() twice.                           *)
THEOREM AtMostOneByte == Spec => []OneBytePerFrame
<1>1. Inv => OneBytePerFrame
  BY DEF Inv, OneBytePerFrame, Counted, TypeOK, FrameLen
<1> QED BY <1>1, InvHolds, PTL

=============================================================================
