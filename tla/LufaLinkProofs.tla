--------------------------- MODULE LufaLinkProofs ---------------------------
(***************************************************************************)
(* Proofs about the serial protocol, for every set of packets, with losses *)
(* and nested packets as the constants allow.                              *)
(***************************************************************************)
EXTENDS LufaLink, TLAPS

Frames == [1..4 -> 0..255]

LEMMA AppendToEmpty ==
  ASSUME NEW x
  PROVE  Append(<< >>, x) = <<x>>
  OBVIOUS

(* An empty sequence is not a frame: NoPacket is not a packet.              *)
LEMMA NoPacketIsNoFrame == NoPacket \notin Frames
<1>1. DOMAIN NoPacket = {}
  BY DEF NoPacket
<1>2. \A f \in Frames : DOMAIN f = 1..4 /\ 1 \in 1..4
  BY DEF Frames
<1> QED
  BY <1>1, <1>2

LEMMA PacketsAreFrames == Packets \subseteq Frames /\ Packets \subseteq (Frames \cup {NoPacket})
  BY LinkAssumption DEF Frames

-----------------------------------------------------------------------------
(* The type invariant.                                                      *)

(* The last byte of a packet: what is parsed is what is stored.             *)
LEMMA LastByte ==
  ASSUME NEW b, pos = 4, lufa_receive(b)
  PROVE  /\ fields' = [fields EXCEPT ![4] = b] /\ parsed' = fields'
         /\ pos' = 0 /\ got' = Append(got, fields')
<1>0. pos # 0 /\ pos \notin 1..3
  OBVIOUS
<1>1. Finish(b, Stored(b), 0)
  BY <1>0, Zenon DEF lufa_receive, Await, Collect
<1>2. /\ fields' = Stored(b) /\ parsed' = Stored(b)
      /\ pos' = 0 /\ got' = Append(got, Stored(b))
  BY <1>1, Zenon DEF Finish, Stored
<1> QED
  BY <1>2, Zenon DEF Stored

LEMMA ReceiveType ==
  ASSUME TypeOK, NEW b \in 0..255, lufa_receive(b)
  PROVE  /\ pos' \in 0..4 /\ fields' \in Frames
         /\ parsed' \in Frames \cup {NoPacket} /\ got' \in Seq(Frames)
<1> USE DEF Frames, TypeOK
<1>1. CASE pos = 0
  BY <1>1 DEF lufa_receive, Await, Collect, Finish, Stored
<1>2. CASE pos \in 1..3
  <2>1. /\ fields' = [fields EXCEPT ![pos] = b] /\ pos' = pos + 1
        /\ parsed' = NoPacket /\ got' = got
    BY <1>2 DEF lufa_receive, Await, Collect, Finish, Stored
  <2>2. fields \in [1..4 -> 0..255] /\ pos \in 1..4
    BY <1>2
  <2>3. fields' \in [1..4 -> 0..255]
    BY <2>1, <2>2
  <2>4. pos' \in 0..4
    BY <1>2, <2>1
  <2>5. got' \in Seq(Frames)
    BY <2>1
  <2> QED
    BY <2>1, <2>3, <2>4, <2>5
<1>3. CASE pos = 4
  <2>1. /\ fields' = [fields EXCEPT ![4] = b] /\ parsed' = fields'
        /\ pos' = 0 /\ got' = Append(got, fields')
    BY <1>3, LastByte
  <2>2. fields' \in [1..4 -> 0..255]
    BY <2>1
  <2> QED
    BY <2>1, <2>2
<1> QED
  BY <1>1, <1>2, <1>3 DEF TypeOK

LEMMA TransferType ==
  ASSUME TypeOK, NEW b \in 0..255, NEW who, Transfer(b, who)
  PROVE  /\ pos' \in 0..4 /\ fields' \in Frames /\ clean' \in BOOLEAN
         /\ parsed' \in Frames \cup {NoPacket} /\ got' \in Seq(Frames)
<1>1. CASE lufa_receive(b) /\ clean' = (clean /\ cur = who)
  BY <1>1, ReceiveType DEF TypeOK
<1>2. CASE clean' = FALSE /\ parsed' = NoPacket /\ UNCHANGED <<pos, fields, got>>
  BY <1>2 DEF TypeOK, Frames
<1> QED
  BY <1>1, <1>2 DEF Transfer

LEMMA ByteType ==
  ASSUME NEW p \in Packets, NEW i \in 0..4
  PROVE  Byte(p, i) \in 0..255
<1>1. CASE i = 0
  BY <1>1, LinkAssumption DEF Byte
<1>2. CASE i \in 1..4
  BY <1>2, LinkAssumption DEF Byte
<1> QED
  BY <1>1, <1>2

LEMMA StepType == TypeOK /\ [Next]_vars => TypeOK'
<1> SUFFICES ASSUME TypeOK, [Next]_vars PROVE TypeOK'
  OBVIOUS
<1> USE DEF MainIdle, IsrIdle, Size
<1>1. CASE UNCHANGED vars
  BY <1>1 DEF vars, sender, receiver, ghosts, TypeOK
<1>2. CASE SendMain
  <2> << >> \in Seq(Frames)
    OBVIOUS
  <2> QED
    BY <1>2 DEF SendMain, Begin, TypeOK, Frames
<1>3. CASE SendIsr
  <2> << >> \in Seq(Frames)
    OBVIOUS
  <2> QED
    BY <1>3 DEF SendIsr, Begin, TypeOK, Frames
<1>4. CASE IsrByte
  <2>1. isr \in Packets /\ isrSent \in 0..4
    BY <1>4 DEF IsrByte, TypeOK
  <2>2. Transfer(Byte(isr, isrSent), "isr")
    BY <1>4 DEF IsrByte
  <2>3. /\ pos' \in 0..4 /\ fields' \in Frames /\ clean' \in BOOLEAN
        /\ parsed' \in Frames \cup {NoPacket} /\ got' \in Seq(Frames)
    BY <2>1, <2>2, ByteType, TransferType
  <2> QED
    BY <1>4, <2>1, <2>3 DEF IsrByte, TypeOK, Frames
<1>5. CASE MainByte
  <2>1. main \in Packets /\ mainSent \in 0..4
    BY <1>5 DEF MainByte, TypeOK
  <2>2. Transfer(Byte(main, mainSent), "main")
    BY <1>5 DEF MainByte
  <2>3. /\ pos' \in 0..4 /\ fields' \in Frames /\ clean' \in BOOLEAN
        /\ parsed' \in Frames \cup {NoPacket} /\ got' \in Seq(Frames)
    BY <2>1, <2>2, ByteType, TransferType
  <2> QED
    BY <1>5, <2>1, <2>3 DEF MainByte, TypeOK, Frames
<1>6. CASE TextByte
  <2>1. PICK b \in Text : lufa_receive(b)
    BY <1>6 DEF TextByte
  <2>2. b \in 0..255
    BY LinkAssumption
  <2>3. /\ pos' \in 0..4 /\ fields' \in Frames
        /\ parsed' \in Frames \cup {NoPacket} /\ got' \in Seq(Frames)
    BY <2>1, <2>2, ReceiveType
  <2> QED
    BY <1>6, <2>3 DEF TextByte, TypeOK, Frames, sender
<1> QED
  BY <1>1, <1>2, <1>3, <1>4, <1>5, <1>6 DEF Next

LEMMA InitType == Init => TypeOK
<1> SUFFICES ASSUME Init PROVE TypeOK
  OBVIOUS
<1>1. [i \in 1..4 |-> 0] \in Frames
  BY DEF Frames
<1>2. got \in Seq(Frames) /\ fields \in Frames
  BY <1>1 DEF Init
<1>3. main = NoPacket /\ isr = NoPacket /\ parsed = NoPacket /\ MainIdle /\ IsrIdle
  BY DEF Init, MainIdle, IsrIdle
<1>4. mainSent \in 0..Size /\ isrSent \in 0..Size /\ pos \in 0..4
  BY DEF Init, Size
<1>5. cur \in {"main", "isr"} /\ clean \in BOOLEAN /\ synced \in BOOLEAN
  BY DEF Init
<1> QED
  BY <1>2, <1>3, <1>4, <1>5 DEF TypeOK, Frames

(* Every variable of the protocol keeps its type; in particular a receiver  *)
(* never leaves the five states of its machine.                             *)
THEOREM TypeCorrect == Spec => []TypeOK
  BY InitType, StepType, PTL DEF Spec

-----------------------------------------------------------------------------
(* Alignment.  While a clean packet is under way the receiver either waits  *)
(* for a packet or is at least as far as the packet is: it can only finish  *)
(* early, and then the rest of the packet, which holds no magic byte, is    *)
(* skipped.                                                                 *)
Ahead == clean => pos = 0 \/ pos >= Sent

LEMMA AheadStep ==
  ASSUME MagicFree, NEW p \in Packets, NEW i \in 0..4, pos \in 0..4,
         pos = 0 \/ pos >= i, lufa_receive(Byte(p, i))
  PROVE  pos' = 0 \/ pos' >= i + 1
<1>1. CASE pos = 0 /\ i = 0
  BY <1>1 DEF lufa_receive, Await, Collect, Finish, Stored, Byte
<1>2. CASE pos = 0 /\ i \in 1..4
  <2>1. Byte(p, i) # Magic
    BY <1>2 DEF MagicFree, Byte
  <2> QED
    BY <1>2, <2>1 DEF lufa_receive, Await, Collect, Finish, Stored
<1>3. CASE pos \in 1..4
  BY <1>3 DEF lufa_receive, Await, Collect, Finish, Stored
<1> QED
  BY <1>1, <1>2, <1>3

LEMMA StepAhead ==
  ASSUME MagicFree, TypeOK, Ahead, [Next]_vars
  PROVE  Ahead'
<1> USE DEF Ahead, Sent, Size, MainIdle, IsrIdle
<1>1. CASE UNCHANGED vars
  BY <1>1 DEF vars, sender, receiver, ghosts
<1>2. CASE SendMain \/ SendIsr
  BY <1>2 DEF SendMain, SendIsr, Begin, TypeOK
<1>3. CASE IsrByte
  <2>1. isr \in Packets /\ isrSent \in 0..4 /\ cur = "isr" /\ pos \in 0..4
    BY <1>3 DEF IsrByte, TypeOK
  <2>2. isrSent' = isrSent + 1 /\ cur' = cur
    BY <1>3 DEF IsrByte
  <2>3. ASSUME clean' PROVE lufa_receive(Byte(isr, isrSent)) /\ clean
    BY <1>3, <2>3 DEF IsrByte, Transfer
  <2> QED
    BY <2>1, <2>2, <2>3, AheadStep
<1>4. CASE MainByte
  <2>1. main \in Packets /\ mainSent \in 0..4 /\ pos \in 0..4
    BY <1>4 DEF MainByte, TypeOK
  <2>2. mainSent' = mainSent + 1 /\ cur' = cur
    BY <1>4 DEF MainByte
  <2>3. ASSUME clean' PROVE lufa_receive(Byte(main, mainSent)) /\ clean /\ cur = "main"
    BY <1>4, <2>3 DEF MainByte, Transfer
  <2> QED
    BY <2>1, <2>2, <2>3, AheadStep
<1>5. CASE TextByte
  <2> SUFFICES ASSUME clean' PROVE pos' = 0
    OBVIOUS
  <2>1. clean /\ MainIdle /\ IsrIdle
    BY <1>5 DEF TextByte
  <2>2. pos = 0
    BY <2>1 DEF TypeOK
  <2>3. PICK b \in Text : lufa_receive(b)
    BY <1>5 DEF TextByte
  <2> QED
    BY <2>2, <2>3, LinkAssumption DEF lufa_receive, Await, Collect, Finish, Stored
<1> QED
  BY <1>1, <1>2, <1>3, <1>4, <1>5 DEF Next

(* If no payload holds the magic byte, then after any loss, nesting or text *)
(* one packet whose bytes all arrive in a row realigns the receiver.        *)
THEOREM Realignment ==
  ASSUME MagicFree
  PROVE  Spec => []Realigns
<1>1. Init => Ahead
  BY DEF Init, Ahead
<1>2. TypeOK /\ Ahead /\ [Next]_vars => Ahead'
  BY StepAhead
<1>3. TypeOK /\ Ahead => Realigns
  BY DEF TypeOK, Ahead, Realigns, Sent, Size
<1> QED
  BY <1>1, <1>2, <1>3, TypeCorrect, PTL DEF Spec

-----------------------------------------------------------------------------
(* Stray packets.  Once the receiver has parsed a packet while a clean one  *)
(* is under way, it is behind the bytes sent: the four left are too few for *)
(* a second.                                                                *)
Behind == clean => got = << >> \/ (Len(got) = 1 /\ pos < Sent)

LEMMA BehindStep ==
  ASSUME NEW b \in 0..255, NEW i \in 0..4, TypeOK, lufa_receive(b),
         got = << >> \/ (Len(got) = 1 /\ pos < i)
  PROVE  got' = << >> \/ (Len(got') = 1 /\ pos' < i + 1)
<1>1. CASE pos \in 0..3
  <2>1. got' = got /\ pos' <= pos + 1
    BY <1>1 DEF lufa_receive, Await, Collect, Finish
  <2>2. pos' \in 0..4
    BY ReceiveType
  <2> QED
    BY <1>1, <2>1, <2>2
<1>2. CASE pos = 4
  <2>1. pos' = 0 /\ got' = Append(got, fields')
    BY <1>2, LastByte
  <2>2. got = << >>
    BY <1>2
  <2>3. Len(got') = 1
    BY <2>1, <2>2, AppendToEmpty
  <2> QED
    BY <2>1, <2>3
<1> QED
  BY <1>1, <1>2 DEF TypeOK

LEMMA StepBehind ==
  ASSUME TypeOK, Ahead, Behind, [Next]_vars
  PROVE  Behind'
<1> USE DEF Behind, Sent, Size, MainIdle, IsrIdle
<1>1. CASE UNCHANGED vars
  BY <1>1 DEF vars, sender, receiver, ghosts
<1>2. CASE SendMain \/ SendIsr
  BY <1>2 DEF SendMain, SendIsr, Begin
<1>3. CASE IsrByte
  <2>1. isr \in Packets /\ isrSent \in 0..4 /\ cur = "isr"
    BY <1>3 DEF IsrByte, TypeOK
  <2>2. isrSent' = isrSent + 1 /\ cur' = cur
    BY <1>3 DEF IsrByte
  <2>3. ASSUME clean' PROVE lufa_receive(Byte(isr, isrSent)) /\ clean
    BY <1>3, <2>3 DEF IsrByte, Transfer
  <2> QED
    BY <2>1, <2>2, <2>3, BehindStep, ByteType
<1>4. CASE MainByte
  <2>1. main \in Packets /\ mainSent \in 0..4
    BY <1>4 DEF MainByte, TypeOK
  <2>2. mainSent' = mainSent + 1 /\ cur' = cur
    BY <1>4 DEF MainByte
  <2>3. ASSUME clean' PROVE lufa_receive(Byte(main, mainSent)) /\ clean /\ cur = "main"
    BY <1>4, <2>3 DEF MainByte, Transfer
  <2> QED
    BY <2>1, <2>2, <2>3, BehindStep, ByteType
<1>5. CASE TextByte
  <2> SUFFICES ASSUME clean' PROVE Behind'
    OBVIOUS
  <2>1. clean /\ MainIdle /\ IsrIdle /\ UNCHANGED <<sender, cur>>
    BY <1>5 DEF TextByte
  <2>2. PICK b \in Text : lufa_receive(b)
    BY <1>5 DEF TextByte
  <2>3. pos = 0 /\ Sent = 5
    BY <2>1 DEF TypeOK, Ahead
  <2>4. pos' = 0 /\ got' = got
    BY <2>2, <2>3, LinkAssumption DEF lufa_receive, Await, Collect, Finish, Stored
  <2> QED
    <3>1. UNCHANGED <<mainSent, isrSent, cur>>
      BY <2>1 DEF sender
    <3>2. got = << >> \/ Len(got) = 1
      BY <2>1
    <3>3. Sent' = 5
      BY <2>3, <3>1
    <3> QED
      BY <2>4, <3>2, <3>3
<1> QED
  BY <1>1, <1>2, <1>3, <1>4, <1>5 DEF Next

(* If no payload holds the magic byte, a disturbance makes the receiver     *)
(* parse at most one wrong packet out of a packet that arrives in a row.    *)
(* Debug text refutes it otherwise: it completes what the payload began.    *)
THEOREM AtMostOneStray ==
  ASSUME MagicFree
  PROVE  Spec => []OneStrayPacket
<1>1. Init => Ahead /\ Behind
  BY DEF Init, Ahead, Behind
<1>2. TypeOK /\ Ahead /\ [Next]_vars => Ahead'
  BY StepAhead
<1>3. TypeOK /\ Ahead /\ Behind /\ [Next]_vars => Behind'
  BY StepBehind
<1>4. Behind => OneStrayPacket
  <2> SUFFICES ASSUME Behind, clean PROVE Len(got) <= 1
    BY DEF OneStrayPacket
  <2>1. CASE got = << >>
    <3>1. Len(got) = 0
      BY <2>1
    <3> QED
      BY <3>1
  <2>2. CASE Len(got) = 1
    BY <2>2
  <2> QED
    BY <2>1, <2>2 DEF Behind
<1> QED
  BY <1>1, <1>2, <1>3, <1>4, TypeCorrect, PTL DEF Spec

-----------------------------------------------------------------------------
(* Exactness.  An aligned receiver is always exactly as far as the clean    *)
(* packet, and what it has stored is the payload so far.                    *)
InStep ==
    clean /\ synced =>
        IF Sent = Size
        THEN pos = 0 /\ got = <<Current>>
        ELSE pos = Sent /\ got = << >> /\ \A k \in 1..4 : k < Sent => fields[k] = Current[k]

LEMMA InStepStep ==
  ASSUME NEW p \in Packets, NEW i \in 0..4, TypeOK, pos = i, got = << >>,
         \A k \in 1..4 : k < i => fields[k] = p[k], lufa_receive(Byte(p, i))
  PROVE  IF i + 1 = Size
         THEN pos' = 0 /\ got' = <<p>>
         ELSE pos' = i + 1 /\ got' = << >> /\ \A k \in 1..4 : k < i + 1 => fields'[k] = p[k]
<1>1. CASE i = 0
  BY <1>1 DEF lufa_receive, Await, Collect, Finish, Stored, Byte, Size
<1>2. CASE i \in 1..3
  <2>1. /\ fields' = [fields EXCEPT ![i] = p[i]] /\ pos' = i + 1 /\ got' = << >>
    BY <1>2 DEF lufa_receive, Await, Collect, Finish, Stored, Byte
  <2>2. \A k \in 1..4 : k < i + 1 => fields'[k] = p[k]
    BY <1>2, <2>1 DEF TypeOK
  <2> QED
    BY <1>2, <2>1, <2>2 DEF Size
<1>3. CASE i = 4
  <2>1. /\ fields' = [fields EXCEPT ![4] = p[4]] /\ pos' = 0 /\ got' = Append(<< >>, fields')
    BY <1>3, LastByte DEF Byte
  <2>2. fields' \in Frames /\ p \in Frames
    <3>1. p \in [1..4 -> 0..255] /\ fields \in [1..4 -> 0..255] /\ p[4] \in 0..255
      BY LinkAssumption DEF TypeOK
    <3> QED
      BY <2>1, <3>1 DEF Frames
  <2>3. \A k \in 1..4 : fields'[k] = p[k]
    BY <1>3, <2>1 DEF TypeOK
  <2>4. fields' = p
    BY <2>2, <2>3 DEF Frames
  <2>5. got' = <<p>>
    BY <2>1, <2>4, AppendToEmpty
  <2> QED
    BY <1>3, <2>1, <2>5 DEF Size
<1> QED
  BY <1>1, <1>2, <1>3

LEMMA StepInStep ==
  ASSUME TypeOK, InStep, [Next]_vars
  PROVE  InStep'
<1> USE DEF InStep, Sent, Current, Size, MainIdle, IsrIdle
<1>1. CASE UNCHANGED vars
  BY <1>1 DEF vars, sender, receiver, ghosts
<1>2. CASE SendMain \/ SendIsr
  <2>1. Sent' = 0 /\ got' = << >> /\ pos' = pos /\ (synced' => pos = 0)
    BY <1>2 DEF SendMain, SendIsr, Begin
  <2>2. \A k \in 1..4 : ~(k < 0)
    OBVIOUS
  <2> QED
    BY <2>1, <2>2
<1>3. CASE IsrByte
  <2>1. isr \in Packets /\ isrSent \in 0..4 /\ cur = "isr"
    BY <1>3 DEF IsrByte, TypeOK
  <2>2. isrSent' = isrSent + 1 /\ isr' = isr /\ cur' = cur /\ synced' = synced
    BY <1>3 DEF IsrByte
  <2>3. ASSUME clean' PROVE lufa_receive(Byte(isr, isrSent)) /\ clean
    BY <1>3, <2>3 DEF IsrByte, Transfer
  <2> SUFFICES ASSUME clean', synced'
               PROVE  IF isrSent' = 5 THEN pos' = 0 /\ got' = <<isr'>>
                      ELSE pos' = isrSent' /\ got' = << >>
                           /\ \A k \in 1..4 : k < isrSent' => fields'[k] = isr'[k]
    BY <2>1, <2>2
  <2>4. pos = isrSent /\ got = << >> /\ \A k \in 1..4 : k < isrSent => fields[k] = isr[k]
    BY <2>1, <2>2, <2>3
  <2> QED
    BY <2>1, <2>2, <2>3, <2>4, InStepStep
<1>4. CASE MainByte
  <2>1. main \in Packets /\ mainSent \in 0..4
    BY <1>4 DEF MainByte, TypeOK
  <2>2. mainSent' = mainSent + 1 /\ main' = main /\ cur' = cur /\ synced' = synced
    BY <1>4 DEF MainByte
  <2>3. ASSUME clean' PROVE lufa_receive(Byte(main, mainSent)) /\ clean /\ cur = "main"
    BY <1>4, <2>3 DEF MainByte, Transfer
  <2> SUFFICES ASSUME clean', synced'
               PROVE  IF mainSent' = 5 THEN pos' = 0 /\ got' = <<main'>>
                      ELSE pos' = mainSent' /\ got' = << >>
                           /\ \A k \in 1..4 : k < mainSent' => fields'[k] = main'[k]
    BY <2>1, <2>2, <2>3
  <2>4. pos = mainSent /\ got = << >> /\ \A k \in 1..4 : k < mainSent => fields[k] = main[k]
    BY <2>1, <2>2, <2>3
  <2> QED
    BY <2>1, <2>2, <2>3, <2>4, InStepStep
<1>5. CASE TextByte
  <2> SUFFICES ASSUME clean', synced' PROVE InStep'
    OBVIOUS
  <2>1. clean /\ synced /\ MainIdle /\ IsrIdle /\ UNCHANGED <<sender, cur>>
    BY <1>5 DEF TextByte
  <2>2. PICK b \in Text : lufa_receive(b)
    BY <1>5 DEF TextByte
  <2>3. pos = 0 /\ got = <<Current>> /\ Sent = Size
    BY <2>1
  <2>4. pos' = 0 /\ got' = got
    BY <2>2, <2>3, LinkAssumption DEF lufa_receive, Await, Collect, Finish, Stored
  <2> QED
    BY <2>1, <2>3, <2>4 DEF sender
<1> QED
  BY <1>1, <1>2, <1>3, <1>4, <1>5 DEF Next

(* A receiver that is waiting when a packet begins gets exactly that packet *)
(* once all its bytes have arrived in a row, whatever its payload.          *)
THEOREM Exactness == Spec => []AlignedIsExact
<1>1. Init => InStep
  BY DEF Init, InStep
<1>2. TypeOK /\ InStep /\ [Next]_vars => InStep'
  BY StepInStep
<1>3. InStep => AlignedIsExact
  BY DEF InStep, AlignedIsExact
<1> QED
  BY <1>1, <1>2, <1>3, TypeCorrect, PTL DEF Spec

-----------------------------------------------------------------------------
(* Refinement.  Without losses and nested packets every packet stays clean  *)
(* and synced, and its last byte is the step that delivers it.              *)
Undisturbed ==
    /\ cur = "main" /\ IsrIdle
    /\ MainIdle => pos = 0
    /\ ~MainIdle => clean /\ synced

LEMMA StepUndisturbed ==
  ASSUME ~Lossy, ~Nested, TypeOK, InStep, InStep', Undisturbed, [Next]_vars
  PROVE  Undisturbed'
<1> USE DEF Undisturbed, MainIdle, IsrIdle, Size
<1>1. CASE UNCHANGED vars
  BY <1>1 DEF vars, sender, receiver, ghosts
<1>2. CASE SendMain
  BY <1>2 DEF SendMain, Begin
<1>3. CASE SendIsr \/ IsrByte
  BY <1>3 DEF SendIsr, IsrByte
<1>4. CASE MainByte
  <2>1. clean' /\ synced' /\ cur' = "main" /\ IsrIdle'
    BY <1>4 DEF MainByte, Transfer
  <2>2. mainSent' = 5 => pos' = 0
    BY <2>1 DEF InStep, Sent
  <2> QED
    BY <2>1, <2>2
<1>5. CASE TextByte
  <2>1. MainIdle /\ UNCHANGED <<sender, cur>>
    BY <1>5 DEF TextByte
  <2>2. PICK b \in Text : lufa_receive(b)
    BY <1>5 DEF TextByte
  <2>3. pos' = 0
    BY <2>1, <2>2, LinkAssumption DEF lufa_receive, Await, Collect, Finish, Stored
  <2> QED
    BY <2>1, <2>3 DEF sender
<1> QED
  BY <1>1, <1>2, <1>3, <1>4, <1>5 DEF Next

LEMMA StepChannel ==
  ASSUME ~Lossy, ~Nested, TypeOK, InStep, InStep', Undisturbed, [Next]_vars
  PROVE  [Channel!Next]_(Channel!vars)
<1> DEFINE inFlight == IF ~MainIdle THEN main ELSE NoPacket
<1> USE DEF MainIdle, IsrIdle, Size
<1>1. CASE UNCHANGED vars
  BY <1>1 DEF vars, sender, receiver, Channel!vars
<1>2. CASE SendMain
  <2>1. inFlight = NoPacket /\ inFlight' \in Packets /\ parsed' = NoPacket
    BY <1>2 DEF SendMain, Begin
  <2> QED
    BY <2>1 DEF Channel!Next, Channel!Send
<1>3. CASE SendIsr \/ IsrByte
  BY <1>3 DEF SendIsr, IsrByte, Undisturbed
<1>4. CASE MainByte
  <2>1. main \in Packets /\ mainSent \in 0..4 /\ clean /\ synced /\ cur = "main"
    BY <1>4 DEF MainByte, TypeOK, Undisturbed
  <2>2. lufa_receive(Byte(main, mainSent)) /\ mainSent' = mainSent + 1 /\ UNCHANGED <<main, isr, isrSent>>
    BY <1>4 DEF MainByte, Transfer
  <2>3. pos = mainSent
    BY <2>1 DEF InStep, Sent
  <2>4. CASE mainSent \in 0..3
    <3>1. parsed' = NoPacket
      BY <2>2, <2>3, <2>4 DEF lufa_receive, Await, Collect, Finish, Stored
    <3>2. inFlight' = inFlight
      BY <2>2, <2>4
    <3> QED
      BY <3>1, <3>2 DEF Channel!Next, Channel!Idle
  <2>5. CASE mainSent = 4
    <3>1. parsed' = fields' /\ got' = Append(got, fields') /\ got = << >>
      BY <2>1, <2>2, <2>3, <2>5, LastByte DEF InStep, Sent, Size
    <3>2. got' = <<main'>>
      <4>1. cur' = "main" /\ clean' /\ synced'
        BY <1>4, <2>1 DEF MainByte, Transfer
      <4>2. mainSent' = Size
        BY <2>2, <2>5
      <4> QED
        BY <4>1, <4>2 DEF InStep, Sent, Current
    <3>3. <<fields'>> = <<main'>>
      BY <3>1, <3>2, AppendToEmpty
    <3>4. parsed' = main
      BY <2>2, <3>1, <3>3
    <3>5. inFlight = main /\ inFlight' = NoPacket /\ main # NoPacket
      BY <2>1, <2>2, <2>5, NoPacketIsNoFrame, PacketsAreFrames
    <3> QED
      BY <3>4, <3>5 DEF Channel!Next, Channel!Deliver
  <2> QED
    BY <2>1, <2>4, <2>5
<1>5. CASE TextByte
  <2>1. MainIdle /\ UNCHANGED sender /\ pos = 0
    BY <1>5 DEF TextByte, Undisturbed
  <2>2. PICK b \in Text : lufa_receive(b)
    BY <1>5 DEF TextByte
  <2>3. parsed' = NoPacket /\ inFlight' = inFlight
    BY <2>1, <2>2 DEF lufa_receive, Await, Collect, Finish, Stored, sender
  <2> QED
    BY <2>3 DEF Channel!Next, Channel!Idle
<1> QED
  BY <1>1, <1>2, <1>3, <1>4, <1>5 DEF Next

(* A link that loses nothing and is not interrupted delivers every packet   *)
(* once, unchanged and in order, whatever text is printed in between.       *)
THEOREM LinkImplementsChannel ==
  ASSUME ~Lossy, ~Nested
  PROVE  Spec => ImplementsChannel
<1>1. Init => InStep /\ Undisturbed
  BY DEF Init, InStep, Undisturbed, MainIdle, IsrIdle, Size
<1>2. Init => Channel!Init
  BY DEF Init, Channel!Init, MainIdle, Size
<1>3. TypeOK /\ InStep /\ [Next]_vars => InStep'
  BY StepInStep
<1>4. TypeOK /\ InStep /\ InStep' /\ Undisturbed /\ [Next]_vars => Undisturbed'
  BY StepUndisturbed
<1>5. TypeOK /\ InStep /\ InStep' /\ Undisturbed /\ [Next]_vars => [Channel!Next]_(Channel!vars)
  BY StepChannel
<1> QED
  BY <1>1, <1>2, <1>3, <1>4, <1>5, TypeCorrect, PTL DEF Spec, ImplementsChannel, Channel!Spec

=============================================================================
