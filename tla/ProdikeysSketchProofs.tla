----------------------- MODULE ProdikeysSketchProofs -----------------------
(***************************************************************************)
(* Proofs about the sketch's MIDI settings, for every limit the assumption *)
(* admits and every sequence of calls.                                     *)
(***************************************************************************)
EXTENDS ProdikeysSketch, TLAPS

(* A setting that starts in its range stays in it over one octave key, and  *)
(* no more than one setting moves, by no more than an octave.               *)
OneMove ==
    /\ channel' # channel => transpose' = transpose /\ patch' = patch
    /\ patch' # patch => transpose' = transpose
    /\ transpose' - transpose \in -OctaveStep..OctaveStep

LEMMA TuneUpStep ==
  ASSUME NEW mod, SettingsInRange, TuneUp(mod)
  PROVE  SettingsInRange' /\ OneMove
<1> USE SketchAssumption DEF SettingsInRange, TuneUp, OneMove, ShiftOnly, AltOnly, CtrlOnly
<1>1. CASE mod = ShiftOnly
  BY <1>1
<1>2. CASE mod = AltOnly
  BY <1>2
<1>3. CASE mod = CtrlOnly
  BY <1>3
<1>4. CASE mod \notin {ShiftOnly, AltOnly, CtrlOnly}
  BY <1>4
<1> QED
  BY <1>1, <1>2, <1>3, <1>4

LEMMA TuneDownStep ==
  ASSUME NEW mod, SettingsInRange, TuneDown(mod)
  PROVE  SettingsInRange' /\ OneMove
<1> USE SketchAssumption DEF SettingsInRange, TuneDown, OneMove, ShiftOnly, AltOnly, CtrlOnly
<1>1. CASE mod = ShiftOnly
  BY <1>1
<1>2. CASE mod = AltOnly
  BY <1>2
<1>3. CASE mod = CtrlOnly
  BY <1>3
<1>4. CASE mod \notin {ShiftOnly, AltOnly, CtrlOnly}
  BY <1>4
<1> QED
  BY <1>1, <1>2, <1>3, <1>4

LEMMA Unmoved ==
  ASSUME SettingsInRange, UNCHANGED settings
  PROVE  SettingsInRange' /\ OneMove
  BY SketchAssumption DEF SettingsInRange, settings, OneMove

LEMMA RetuneStep ==
  ASSUME NEW code, NEW ext, NEW mod, SettingsInRange, Retune(code, ext, mod)
  PROVE  SettingsInRange' /\ OneMove
<1>1. TuneUp(mod) \/ TuneDown(mod) \/ UNCHANGED settings
  BY DEF Retune
<1> QED
  BY <1>1, TuneUpStep, TuneDownStep, Unmoved

LEMMA ReactStep ==
  ASSUME NEW c, NEW extra, SettingsInRange, React(c, extra)
  PROVE  SettingsInRange' /\ OneMove
<1>1. \/ Retune(c.code, c.ext, c.arg) \/ Retune(c.code, c.ext, 0)
      \/ UNCHANGED settings
  BY DEF React, onKeyPress, onKeyRelease, onProdikeysKeyPress, onProdikeysMidiPress,
         onProdikeysMidiRelease, onProdikeysPitchBend, onNothing
<1> QED
  BY <1>1, RetuneStep, Unmoved

-----------------------------------------------------------------------------
(* The status byte of a packet, whichever callback sent it.                 *)
WellFormed(p) == p.intf = Midi => \E s \in Statuses : p.cmd \in s..(s + MaxChannel)

LEMMA MidiPacketWellFormed ==
  ASSUME SettingsInRange, NEW s \in Statuses, NEW d1, NEW d2
  PROVE  WellFormed(MidiPacket(s, d1, d2))
<1>1. MidiPacket(s, d1, d2).cmd = s + channel
  BY DEF MidiPacket, Packet
<1>2. s \in Int /\ channel \in 0..MaxChannel /\ MaxChannel \in Int
  BY SketchAssumption DEF SettingsInRange, Statuses, NoteOff, NoteOn, ProgramChange, PitchWheel
<1> QED
  BY <1>1, <1>2 DEF WellFormed

LEMMA OtherPacketWellFormed ==
  ASSUME NEW i \in {Internal, Keyboard}, NEW cmd, NEW d1, NEW d2
  PROVE  WellFormed(Packet(i, cmd, d1, d2))
  BY DEF WellFormed, Packet, Internal, Keyboard, Midi

(* A keyboard packet, after the program change if there is one.             *)
LEMMA KeyPacketsWellFormed ==
  ASSUME SettingsInRange, NEW code, NEW ext, NEW mod, NEW cmd, NEW d1, NEW d2,
         sent' = AfterPatch(code, ext, mod, Packet(Keyboard, cmd, d1, d2))
  PROVE  StatusWellFormed'
<1> DEFINE pc == Packet(Midi, ProgramChange + channel, patch', 0)
           key == Packet(Keyboard, cmd, d1, d2)
<1>1. WellFormed(pc)
  <2>1. pc = MidiPacket(ProgramChange, patch', 0) /\ ProgramChange \in Statuses
    BY DEF MidiPacket, Statuses
  <2> QED
    BY <2>1, MidiPacketWellFormed
<1>2. WellFormed(key)
  BY OtherPacketWellFormed
<1>3. sent' = <<pc, key>> \/ sent' = <<key>>
  BY DEF AfterPatch
<1> HIDE DEF pc, key
<1>4. CASE sent' = <<pc, key>>
  <2>1. \A i \in DOMAIN sent' : i = 1 \/ i = 2
    BY <1>4
  <2>2. sent'[1] = pc /\ sent'[2] = key
    BY <1>4
  <2> QED
    BY <1>1, <1>2, <2>1, <2>2 DEF StatusWellFormed, WellFormed
<1>5. CASE sent' = <<key>>
  BY <1>2, <1>5 DEF StatusWellFormed, WellFormed
<1> QED
  BY <1>3, <1>4, <1>5

LEMMA ReactWellFormed ==
  ASSUME NEW c, NEW extra, SettingsInRange, React(c, extra)
  PROVE  StatusWellFormed'
<1>1. CASE onKeyPress(c)
  BY <1>1, KeyPacketsWellFormed DEF onKeyPress
<1>2. CASE onKeyRelease(c, extra)
  BY <1>2, KeyPacketsWellFormed DEF onKeyRelease
<1>3. CASE onProdikeysKeyPress(c)
  <2>1. sent' = << >> \/ sent' = <<Packet(Internal, Ping, c.code, c.arg)>>
    BY <1>3 DEF onProdikeysKeyPress
  <2>2. WellFormed(Packet(Internal, Ping, c.code, c.arg))
    BY OtherPacketWellFormed
  <2> QED
    BY <2>1, <2>2 DEF StatusWellFormed, WellFormed
<1>4. CASE \E d1, d2 : \E s \in Statuses : sent' = <<MidiPacket(s, d1, d2)>>
  BY <1>4, MidiPacketWellFormed DEF StatusWellFormed, WellFormed
<1>5. CASE onNothing(c)
  BY <1>5 DEF onNothing, StatusWellFormed
<1>6. onProdikeysMidiPress(c) => \E d1, d2 : \E s \in Statuses : sent' = <<MidiPacket(s, d1, d2)>>
  BY DEF onProdikeysMidiPress, Statuses
<1>7. onProdikeysMidiRelease(c) => \E d1, d2 : \E s \in Statuses : sent' = <<MidiPacket(s, d1, d2)>>
  BY DEF onProdikeysMidiRelease, Statuses
<1>8. onProdikeysPitchBend(c) => \E d1, d2 : \E s \in Statuses : sent' = <<MidiPacket(s, d1, d2)>>
  BY DEF onProdikeysPitchBend, Statuses
<1> QED
  BY <1>1, <1>2, <1>3, <1>4, <1>5, <1>6, <1>7, <1>8 DEF React

-----------------------------------------------------------------------------
IInv == SettingsInRange /\ StatusWellFormed

LEMMA InitIInv == Init => IInv
  BY SketchAssumption DEF Init, IInv, SettingsInRange, StatusWellFormed

LEMMA StepIInv == IInv /\ [Next]_sketchVars => IInv'
<1> SUFFICES ASSUME IInv, [Next]_sketchVars PROVE IInv'
  OBVIOUS
<1>1. CASE Next
  BY <1>1, ReactStep, ReactWellFormed DEF Next, IInv
<1>2. CASE UNCHANGED sketchVars
  BY <1>2 DEF sketchVars, IInv, SettingsInRange, StatusWellFormed
<1> QED
  BY <1>1, <1>2

(* The settings stay in range, for every sequence of callbacks.             *)
THEOREM SettingsSafe == Spec => []SettingsInRange
<1>1. IInv => SettingsInRange
  BY DEF IInv
<1> QED
  BY <1>1, InitIInv, StepIInv, PTL DEF Spec

(* No MIDI status byte is ever corrupted by the channel number.             *)
THEOREM StatusSafe == Spec => []StatusWellFormed
<1>1. IInv => StatusWellFormed
  BY DEF IInv
<1> QED
  BY <1>1, InitIInv, StepIInv, PTL DEF Spec

(* No callback moves two settings at once or the transposition by more than *)
(* an octave.                                                               *)
THEOREM OneSettingMoves == Spec => OneSettingAtATime
<1>1. IInv /\ [Next]_sketchVars => [OneMove]_settings
  BY ReactStep DEF IInv, Next, sketchVars, settings
<1>2. IInv /\ [Next]_sketchVars => IInv'
  BY StepIInv
<1> QED
  BY <1>1, <1>2, InitIInv, PTL DEF Spec, OneSettingAtATime, OneMove

-----------------------------------------------------------------------------
(* The pitch the decoder hands to the callback.                             *)
WheelInputs == \A c \in Inputs : c.cb = "PitchBend" => c.code \in -64..64

LegalBend(p) ==
    p.intf = Midi /\ p.cmd \in PitchWheel..(PitchWheel + MaxChannel) =>
        \/ p.data1 \in 0..127 /\ p.data2 \in 0..127
        \/ <<p.data1, p.data2>> = Wrapped

LEMMA BendBytes ==
  ASSUME NEW pitch \in -64..64
  PROVE  /\ BendValue(pitch) % 128 = 127
         /\ IF pitch = -64 THEN (BendValue(pitch) \div 128) % 256 = 255
                           ELSE (BendValue(pitch) \div 128) % 256 = 63 + pitch
<1>1. CASE pitch = -64
  <2>1. BendValue(pitch) = 65535
    <3>1. \A x \in Int : x % 65536 = (x + 65536) % 65536
      OBVIOUS
    <3>2. 8191 + pitch * 128 \in Int /\ 8191 + pitch * 128 + 65536 = 65535
      BY <1>1
    <3>3. BendValue(pitch) = 65535 % 65536
      BY <3>1, <3>2 DEF BendValue
    <3> QED
      BY <3>3
  <2> QED
    BY <1>1, <2>1
<1>2. CASE pitch # -64
  <2>1. BendValue(pitch) = (63 + pitch) * 128 + 127 /\ 63 + pitch \in 0..127
    BY <1>2 DEF BendValue
  <2>2. ASSUME NEW k \in 0..127, NEW v \in Nat, v = k * 128 + 127
        PROVE  v % 128 = 127 /\ v \div 128 = k
    BY <2>2
  <2>3. BendValue(pitch) % 128 = 127 /\ BendValue(pitch) \div 128 = 63 + pitch
    <3> DEFINE k == 63 + pitch
               v == BendValue(pitch)
    <3>1. k \in 0..127 /\ v = k * 128 + 127
      BY <2>1
    <3>2. v \in Nat
      BY <3>1
    <3> HIDE DEF k, v
    <3>3. v % 128 = 127 /\ v \div 128 = k
      BY <2>2, <3>1, <3>2
    <3> QED
      BY <3>3 DEF k, v
  <2> QED
    BY <1>2, <2>1, <2>3
<1> QED
  BY <1>1, <1>2

(* Every packet but that of the pitch wheel has another status byte.        *)
LEMMA OtherStatusIsNoBend ==
  ASSUME SettingsInRange, NEW s \in {NoteOff, NoteOn, ProgramChange}, NEW d1, NEW d2
  PROVE  LegalBend(MidiPacket(s, d1, d2))
<1>1. s + channel < PitchWheel
  BY SketchAssumption DEF SettingsInRange, NoteOff, NoteOn, ProgramChange, PitchWheel
<1>2. MidiPacket(s, d1, d2).cmd \notin PitchWheel..(PitchWheel + MaxChannel)
  BY <1>1, SketchAssumption DEF MidiPacket, Packet, PitchWheel
<1> QED
  BY <1>2 DEF LegalBend

LEMMA OtherPacketIsNoBend ==
  ASSUME NEW i \in {Internal, Keyboard}, NEW cmd, NEW d1, NEW d2
  PROVE  LegalBend(Packet(i, cmd, d1, d2))
  BY DEF LegalBend, Packet, Internal, Keyboard, Midi

LEMMA KeyPacketsAreNoBend ==
  ASSUME SettingsInRange, NEW code, NEW ext, NEW mod, NEW cmd, NEW d1, NEW d2,
         sent' = AfterPatch(code, ext, mod, Packet(Keyboard, cmd, d1, d2))
  PROVE  BendLegal'
<1> DEFINE pc == Packet(Midi, ProgramChange + channel, patch', 0)
           key == Packet(Keyboard, cmd, d1, d2)
<1>1. LegalBend(pc)
  <2>1. pc = MidiPacket(ProgramChange, patch', 0)
    BY DEF MidiPacket
  <2> QED
    BY <2>1, OtherStatusIsNoBend
<1>2. LegalBend(key)
  BY OtherPacketIsNoBend
<1>3. sent' = <<pc, key>> \/ sent' = <<key>>
  BY DEF AfterPatch
<1> HIDE DEF pc, key
<1>4. CASE sent' = <<pc, key>>
  <2>1. \A i \in DOMAIN sent' : i = 1 \/ i = 2
    BY <1>4
  <2>2. sent'[1] = pc /\ sent'[2] = key
    BY <1>4
  <2> QED
    BY <1>1, <1>2, <2>1, <2>2 DEF BendLegal, LegalBend
<1>5. CASE sent' = <<key>>
  BY <1>2, <1>5 DEF BendLegal, LegalBend
<1> QED
  BY <1>3, <1>4, <1>5

LEMMA ReactBendLegal ==
  ASSUME WheelInputs, NEW c \in Inputs, NEW extra, SettingsInRange, React(c, extra)
  PROVE  BendLegal'
<1>1. CASE onKeyPress(c)
  BY <1>1, KeyPacketsAreNoBend DEF onKeyPress
<1>2. CASE onKeyRelease(c, extra)
  BY <1>2, KeyPacketsAreNoBend DEF onKeyRelease
<1>3. CASE onProdikeysKeyPress(c)
  <2>1. sent' = << >> \/ sent' = <<Packet(Internal, Ping, c.code, c.arg)>>
    BY <1>3 DEF onProdikeysKeyPress
  <2> DEFINE ping == Packet(Internal, Ping, c.code, c.arg)
  <2>2. LegalBend(ping)
    BY OtherPacketIsNoBend
  <2> HIDE DEF ping
  <2>3. CASE sent' = << >>
    BY <2>3 DEF BendLegal
  <2>4. CASE sent' = <<ping>>
    BY <2>2, <2>4 DEF BendLegal, LegalBend
  <2> QED
    BY <2>1, <2>3, <2>4 DEF ping
<1>4. CASE onProdikeysMidiPress(c) \/ onProdikeysMidiRelease(c)
  <2>1. PICK d1, d2 : \E s \in {NoteOff, NoteOn} : sent' = <<MidiPacket(s, d1, d2)>>
    BY <1>4 DEF onProdikeysMidiPress, onProdikeysMidiRelease
  <2>2. PICK s \in {NoteOff, NoteOn} : sent' = <<MidiPacket(s, d1, d2)>>
    BY <2>1
  <2> DEFINE note == MidiPacket(s, d1, d2)
  <2>3. LegalBend(note)
    BY OtherStatusIsNoBend
  <2>4. sent' = <<note>>
    BY <2>2
  <2> HIDE DEF note
  <2> QED
    BY <2>3, <2>4 DEF BendLegal, LegalBend
<1>5. CASE onProdikeysPitchBend(c)
  <2> DEFINE v == BendValue(c.code)
             p == MidiPacket(PitchWheel, v % 128, (v \div 128) % 256)
  <2>1. sent' = <<p>> /\ c.code \in -64..64
    BY <1>5 DEF onProdikeysPitchBend, WheelInputs
  <2>2. p.data1 = v % 128 /\ p.data2 = (v \div 128) % 256
    BY DEF MidiPacket, Packet
  <2>3. CASE c.code = -64
    <3>1. p.data1 = 127 /\ p.data2 = 255
      BY <2>1, <2>2, <2>3, BendBytes
    <3> HIDE DEF p
    <3> QED
      BY <2>1, <3>1 DEF BendLegal, Wrapped
  <2>4. CASE c.code # -64
    <3>1. p.data1 = 127 /\ p.data2 = 63 + c.code /\ 63 + c.code \in 0..127
      BY <2>1, <2>2, <2>4, BendBytes
    <3> HIDE DEF p
    <3> QED
      BY <2>1, <3>1 DEF BendLegal
  <2> QED
    BY <2>3, <2>4
<1>6. CASE onNothing(c)
  BY <1>6 DEF onNothing, BendLegal
<1> QED
  BY <1>1, <1>2, <1>3, <1>4, <1>5, <1>6 DEF React

(* The bend has seven-bit data bytes for every wheel position but the       *)
(* lowest, and no other message is mistaken for a bend.                     *)
THEOREM BendsAreLegal ==
  ASSUME WheelInputs
  PROVE  Spec => []BendLegal
<1>1. Init => BendLegal
  BY DEF Init, BendLegal
<1>2. IInv /\ BendLegal /\ [Next]_sketchVars => BendLegal'
  <2> SUFFICES ASSUME IInv, BendLegal, [Next]_sketchVars PROVE BendLegal'
    OBVIOUS
  <2>1. CASE Next
    BY <2>1, ReactBendLegal DEF Next, IInv
  <2>2. CASE UNCHANGED sketchVars
    BY <2>2 DEF sketchVars, BendLegal
  <2> QED
    BY <2>1, <2>2
<1> QED
  BY <1>1, <1>2, InitIInv, StepIInv, PTL DEF Spec

=============================================================================
