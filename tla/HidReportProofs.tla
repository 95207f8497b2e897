-------------------------- MODULE HidReportProofs --------------------------
(***************************************************************************)
(* Types, and PolledChordsReal for any keys and any number of packets.     *)
(*                                                                         *)
(* The property is not inductive: what is polled was put together from the *)
(* two variables, so the invariant says of them that between two packets   *)
(* they are a combination the sketch asked for, and that in the middle of  *)
(* one they will be, once its modifiers are set.                           *)
(***************************************************************************)
EXTENDS HidReport, TLAPS

ReportReal == parsing = << >> => CreateHIDReport \in chords
HalfReal == parsing # << >> => [mods |-> parsing[1], key |-> keyCode] \in chords

Inv == TypeOK /\ ReportReal /\ HalfReal /\ PolledChordsReal

LEMMA InitInv == Init => Inv
<1> SUFFICES ASSUME Init PROVE Inv
  OBVIOUS
<1>1. NoKeys \in Reports /\ keyCode \in Keys \cup {0} /\ modifiers \in Mods
  BY HidAssumption DEF Init, NoKeys, Reports
<1>2. packets \in 0..MaxPackets
  BY HidAssumption DEF Init
<1>3. idleOver \in BOOLEAN /\ crossed \in BOOLEAN
  BY DEF Init
<1>4. TypeOK
  BY <1>1, <1>2, <1>3 DEF Init, TypeOK
<1>5. ReportReal /\ HalfReal /\ PolledChordsReal
  BY DEF Init, ReportReal, HalfReal, PolledChordsReal, CreateHIDReport, NoKeys
<1> QED BY <1>4, <1>5 DEF Inv

LEMMA ReportType ==
    ASSUME TypeOK
    PROVE  CreateHIDReport \in Reports
BY DEF TypeOK, CreateHIDReport, Reports

LEMMA StepInv == Inv /\ [Next]_vars => Inv'
<1> SUFFICES ASSUME Inv, [Next]_vars PROVE Inv'
  OBVIOUS
<1> USE DEF globals, usb, CreateHIDReport
<1>0. CreateHIDReport \in Reports
  BY ReportType DEF Inv
<1>1. ASSUME NEW p \in Packets, ParseKey(p) PROVE Inv'
  <2>1. packets' \in 0..MaxPackets
    BY <1>1, HidAssumption DEF ParseKey, Inv, TypeOK
  <2>2. CASE p.cmd = "leds"
    BY <1>1, <2>1, <2>2 DEF ParseKey, Inv, TypeOK, ReportReal, HalfReal, PolledChordsReal
  <2>3. CASE p.cmd # "leds"
    <3>1. keyCode' \in Keys \cup {0} /\ p.data2 \in Mods
      BY <1>1, <2>3 DEF ParseKey, SetKey, Packets
    <3>2. parsing' = <<p.data2>> /\ UNCHANGED <<modifiers, usb, idleOn>>
      BY <1>1, <2>3 DEF ParseKey
    <3>3. chords' = chords \cup {[mods |-> p.data2, key |-> keyCode']}
      BY <1>1, <2>3 DEF ParseKey
    <3>4. TypeOK'
      BY <2>1, <3>1, <3>2, <3>3 DEF Inv, TypeOK, Reports
    <3>5. ReportReal' /\ HalfReal' /\ PolledChordsReal'
      BY <3>2, <3>3 DEF Inv, ReportReal, HalfReal, PolledChordsReal
    <3> QED BY <3>4, <3>5 DEF Inv
  <2> QED BY <2>2, <2>3
<1>2. CASE ParseModifiers
  <2>1. PICK m \in Mods : parsing = <<m>>
    BY <1>2 DEF ParseModifiers, Inv, TypeOK
  <2>2. TypeOK'
    BY <1>2, <2>1 DEF ParseModifiers, Inv, TypeOK
  <2> QED BY <1>2, <2>1, <2>2
          DEF ParseModifiers, Inv, ReportReal, HalfReal, PolledChordsReal
<1>3. CASE USBTask
  <2>1. TypeOK'
    BY <1>0, <1>3 DEF USBTask, Send, Inv, TypeOK
  <2>2. PolledChordsReal'
    BY <1>3 DEF USBTask, Send, Inv, ReportReal, PolledChordsReal
  <2> QED BY <1>3, <2>1, <2>2 DEF USBTask, Send, Inv, ReportReal, HalfReal
<1>4. CASE StartOfFrame
  BY <1>4 DEF StartOfFrame, Inv, TypeOK, ReportReal, HalfReal, PolledChordsReal
<1>5. CASE HostPolls
  <2>1. PICK r \in Reports : bank = <<r>>
    BY <1>5 DEF HostPolls, Inv, TypeOK
  <2>2. TypeOK'
    BY <1>5, <2>1 DEF HostPolls, Inv, TypeOK
  <2> QED BY <1>5, <2>2 DEF HostPolls, Inv, ReportReal, HalfReal, PolledChordsReal
<1>6. CASE GetReport
  <2>1. TypeOK'
    BY <1>0, <1>6 DEF GetReport, Inv, TypeOK
  <2> QED BY <1>6, <2>1 DEF GetReport, Inv, ReportReal, HalfReal, PolledChordsReal
<1>7. CASE UNCHANGED vars
  BY <1>7 DEF vars, Inv, TypeOK, ReportReal, HalfReal, PolledChordsReal
<1> QED BY <1>1, <1>2, <1>3, <1>4, <1>5, <1>6, <1>7 DEF Next

LEMMA InvHolds == Spec => []Inv
BY InitInv, StepInv, PTL DEF Spec

(* The variables of the report and of LUFA keep their types.                *)
THEOREM TypeCorrect == Spec => []TypeOK
<1>1. Inv => TypeOK
  BY DEF Inv
<1> QED BY <1>1, InvHolds, PTL

(* The host never polls the key of one packet with the modifiers of another.*)
THEOREM PolledChordsAreReal == Spec => []PolledChordsReal
<1>1. Inv => PolledChordsReal
  BY DEF Inv
<1> QED BY <1>1, InvHolds, PTL

=============================================================================
