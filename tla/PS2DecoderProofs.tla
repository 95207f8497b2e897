-------------------------- MODULE PS2DecoderProofs --------------------------
(***************************************************************************)
(* Proofs about the scan-code decoder, for every set of byte values on the *)
(* wire and byte streams of any length.                                    *)
(***************************************************************************)
EXTENDS PS2Decoder, TLAPS

(* The strengthening: none of its parts is preserved without the others.    *)
IInv == TypeOK /\ MessageInFlight /\ NoFlowError


LEMMA NoCallIsCall == NoCall \in Calls /\ NoCall \notin {Error(ErrorFlow), Error(ErrorFunction)}
  BY DEF NoCall, Callback, Calls, Error, ErrorFlow, ErrorFunction

(* Whatever a step delivers, installed or not, is a well-formed call, and   *)
(* it is a flow error only if a flow error was to be delivered.             *)
LEMMA DeliverIsSafe ==
  ASSUME NEW c \in Calls, c \notin {Error(ErrorFlow), Error(ErrorFunction)}, Deliver(c)
  PROVE  call' \in Calls /\ NoFlowError'
  BY NoCallIsCall DEF Deliver, NoFlowError, Error

LEMMA QuietIsSafe ==
  ASSUME Quiet
  PROVE  call' \in Calls /\ NoFlowError'
  BY NoCallIsCall DEF Quiet, NoFlowError, Error

(* The wheel scaling stays inside the int8_t of the pitch-bend callback.    *)
LEMMA WheelRange ==
  ASSUME NEW b \in WheelCodes
  PROVE  WheelPitch(b) \in -64..64
  BY DEF WheelCodes, WheelPitch

LEMMA ExtraRange ==
  ASSUME TypeOK
  PROVE  Extra \in 0..15
  BY DEF TypeOK, Extra, Bit

LEMMA AdvanceStep ==
  ASSUME prodPos \in 0..255, AdvanceMessage
  PROVE  /\ prodPos' \in 0..255
         /\ prodPos = 0 => prodPos' = 1
         /\ prodPos = 1 => prodPos' = 2
  BY DEF AdvanceMessage

LEMMA InitIInv == Init => IInv
<1> SUFFICES ASSUME Init PROVE IInv
  OBVIOUS
<1>1. TypeOK
  <2>1. call \in Calls
    BY NoCallIsCall DEF Init
  <2>2. /\ shift \in BOOLEAN /\ ctrl \in BOOLEAN /\ alt \in BOOLEAN /\ capsLock \in BOOLEAN
        /\ extend \in BOOLEAN /\ release \in BOOLEAN /\ ackByteOk \in BOOLEAN
    BY Zenon DEF Init
  <2>3. prodFn \in {0, ButtonFn, NoteFn} /\ prodPos \in 0..255 /\ prodKey \in 0..255 /\ installed \in 0..7
    BY DEF Init
  <2> QED
    BY <2>1, <2>2, <2>3 DEF TypeOK
<1>2. MessageInFlight
  BY DEF Init, MessageInFlight
<1>3. NoFlowError
  BY NoCallIsCall DEF Init, NoFlowError
<1> QED
  BY <1>1, <1>2, <1>3 DEF IInv

LEMMA StepIInv == IInv /\ [Next]_vars => IInv'
<1> SUFFICES ASSUME TypeOK, MessageInFlight, NoFlowError, [Next]_vars
             PROVE  IInv'
  BY DEF IInv
<1> USE DEF MessageInFlight
<1>1. CASE UNCHANGED vars
  BY <1>1 DEF vars, TypeOK, NoFlowError, IInv
<1>2. CASE InstallNext
  BY <1>2, QuietIsSafe DEF InstallNext, TypeOK, IInv, flags, prod
<1>3. ASSUME NEW b \in Wire, ButtonByte(b)
      PROVE  IInv'
  <2> b \in 0..255
    BY WireAssumption
  <2> USE <1>3 DEF ButtonByte
  <2>1. call' \in Calls /\ NoFlowError'
    <3>1. CASE prodPos = 0 /\ b = BreakPrefix
      BY <3>1, QuietIsSafe
    <3>2. CASE prodPos = 0 /\ b \in WheelCodes /\ b # BreakPrefix
      <4>1. Deliver(Callback("PitchBend", WheelPitch(b), FALSE, 0))
        BY <3>2
      <4>2. Callback("PitchBend", WheelPitch(b), FALSE, 0) \in Calls
        <5>1. WheelPitch(b) \in -64..255
          BY <3>2, WheelRange
        <5> QED
          BY <5>1 DEF Callback, Calls, CallbackKinds, Slot
      <4> QED
        BY <4>1, <4>2, DeliverIsSafe DEF Callback, Error
    <3>3. CASE prodPos = 0 /\ b \notin WheelCodes /\ b # BreakPrefix
      <4>1. Deliver(Callback("FuncPress", b, FALSE, Extra))
        BY <3>3
      <4>2. Callback("FuncPress", b, FALSE, Extra) \in Calls
        BY ExtraRange DEF Callback, Calls, CallbackKinds, Slot
      <4> QED
        BY <4>1, <4>2, DeliverIsSafe DEF Callback, Error
    <3>4. CASE prodPos # 0
      <4>1. Callback("FuncRelease", b, FALSE, 0) \in Calls
        BY DEF Callback, Calls, CallbackKinds, Slot
      <4>2. Callback("FuncRelease", b, FALSE, 0) \notin {Error(ErrorFlow), Error(ErrorFunction)}
        BY DEF Callback, Error
      <4>3. Quiet \/ Deliver(Callback("FuncRelease", b, FALSE, 0))
        BY <3>4
      <4> QED
        BY <4>1, <4>2, <4>3, DeliverIsSafe, QuietIsSafe
    <3> QED
      BY <3>1, <3>2, <3>3, <3>4
  <2>2. prodFn' \in {0, ButtonFn} /\ release' \in BOOLEAN
    BY DEF TypeOK
  <2>3. prodPos \in {0, 1}
    BY DEF ButtonFn
  <2>4. prodPos' \in 0..255
    BY AdvanceStep DEF TypeOK
  <2>5. MessageInFlight'
    <3>1. prodFn' # 0 => prodPos = 0 /\ release'
      BY <2>3
    <3> QED
      BY <3>1, AdvanceStep DEF TypeOK
  <2> QED
    BY <2>1, <2>2, <2>4, <2>5 DEF IInv, TypeOK, flags
<1>4. ASSUME NEW b \in Wire, NoteByte(b)
      PROVE  IInv'
  <2> b \in 0..255
    BY WireAssumption
  <2> USE <1>4 DEF NoteByte
  <2>0. prodFn = NoteFn /\ prodPos \in {0, 1}
    BY DEF TypeOK
  <2>1. call' \in Calls /\ NoFlowError'
    <3>1. CASE prodPos = 0
      BY <2>0, <3>1, QuietIsSafe
    <3>2. CASE prodPos = 1 /\ release
      <4>1. Deliver(Callback("MidiRelease", b, FALSE, 0))
        BY <2>0, <3>2
      <4>2. Callback("MidiRelease", b, FALSE, 0) \in Calls
        BY DEF Callback, Calls, CallbackKinds, Slot
      <4> QED
        BY <4>1, <4>2, DeliverIsSafe DEF Callback, Error
    <3>3. CASE prodPos = 1 /\ ~release
      <4>1. Deliver(Callback("MidiPress", prodKey, FALSE, b))
        <5>1. prodPos # 0 /\ ~(prodPos # 1)
          BY <3>3
        <5> QED
          BY <2>0, <3>3, <5>1, Zenon
      <4>2. Callback("MidiPress", prodKey, FALSE, b) \in Calls
        BY DEF TypeOK, Callback, Calls, CallbackKinds, Slot
      <4> QED
        BY <4>1, <4>2, DeliverIsSafe DEF Callback, Error
    <3> QED
      BY <2>0, <3>1, <3>2, <3>3
  <2>2. prodFn' \in {0, NoteFn} /\ release' \in BOOLEAN /\ prodKey' \in 0..255
    BY <2>0 DEF TypeOK
  <2>3. prodPos' \in 0..255
    BY AdvanceStep DEF TypeOK
  <2>4. MessageInFlight'
    <3>1. prodFn' # 0 => prodPos = 0
      BY <2>0
    <3>2. NoteFn # ButtonFn
      BY DEF NoteFn, ButtonFn
    <3> QED
      BY <2>2, <3>1, <3>2, AdvanceStep DEF TypeOK
  <2> QED
    BY <2>1, <2>2, <2>3, <2>4 DEF IInv, TypeOK, flags
<1>5. ASSUME NEW b \in Wire, ControlByte(b)
      PROVE  IInv'
  <2>1. call' \in Calls /\ NoFlowError'
    <3>1. Error(ErrorSelfTest) \in Calls /\ Error(ErrorSelfTest) \notin {Error(ErrorFlow), Error(ErrorFunction)}
      BY DEF Error, Callback, Calls, ErrorSelfTest, ErrorFlow, ErrorFunction
    <3> QED
      BY <1>5, <3>1, DeliverIsSafe, QuietIsSafe DEF ControlByte
  <2> QED
    BY <1>5, <2>1 DEF ControlByte, IInv, TypeOK, flags, prod
<1>6. ASSUME NEW b \in Wire, ModifierByte(b)
      PROVE  IInv'
  BY <1>6, QuietIsSafe DEF ModifierByte, IInv, TypeOK, prod
<1>7. ASSUME NEW b \in Wire, StartMessage(b)
      PROVE  IInv'
  <2>1. call' \in Calls /\ NoFlowError'
    BY <1>7, QuietIsSafe DEF StartMessage
  <2>2. prodFn' \in {ButtonFn, NoteFn} /\ prodPos' = 0 /\ ~release' /\ release' \in BOOLEAN
    BY <1>7 DEF StartMessage
  <2>3. MessageInFlight'
    BY <2>2
  <2> QED
    BY <1>7, <2>1, <2>2, <2>3 DEF StartMessage, IInv, TypeOK, flags
<1>8. ASSUME NEW b \in Wire, KeyByte(b)
      PROVE  IInv'
  <2> b \in 0..255
    BY WireAssumption
  <2>1. call' \in Calls /\ NoFlowError'
    <3> DEFINE up == Callback("KeyRelease", b, extend, 0)
               down == Callback("KeyPress", b, extend, Extra)
    <3>1. up \in Calls /\ down \in Calls
      BY ExtraRange DEF TypeOK, Callback, Calls, CallbackKinds, Slot
    <3>2. {up, down} \cap {Error(ErrorFlow), Error(ErrorFunction)} = {}
      BY DEF Callback, Error
    <3>3. Deliver(up) \/ Deliver(down)
      BY <1>8 DEF KeyByte
    <3> QED
      BY <3>1, <3>2, <3>3, DeliverIsSafe
  <2> QED
    BY <1>8, <2>1 DEF KeyByte, IInv, TypeOK, flags, prod
<1> QED
  BY <1>1, <1>2, <1>3, <1>4, <1>5, <1>6, <1>7, <1>8 DEF Next, Receive

(* The decoder's state always has its type: the pitch handed to the         *)
(* callback fits an int8_t, and no function code but 31 and 51 is ever      *)
(* remembered.                                                              *)
THEOREM TypeCorrect == Spec => []TypeOK
<1>1. IInv => TypeOK
  BY DEF IInv
<1> QED
  BY <1>1, InitIInv, StepIInv, PTL DEF Spec

(* The decoder never falls out of step with the messages.                   *)
THEOREM MessagesStayInStep == Spec => []MessageInFlight
<1>1. IInv => MessageInFlight
  BY DEF IInv
<1> QED
  BY <1>1, InitIInv, StepIInv, PTL DEF Spec

(* The 'X' and 'F' branches of the interrupt handler are dead code.         *)
THEOREM FlowErrorsUnreachable == Spec => []NoFlowError
<1>1. IInv => NoFlowError
  BY DEF IInv
<1> QED
  BY <1>1, InitIInv, StepIInv, PTL DEF Spec

=============================================================================
