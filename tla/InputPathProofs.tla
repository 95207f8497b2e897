--------------------------- MODULE InputPathProofs ---------------------------
(***************************************************************************)
(* Proofs about the keyboard talking to the decoder (ScanStream), then     *)
(* about the whole path to the host (InputPath), for every set of keys,    *)
(* notes and buttons, every range of the settings and streams of any       *)
(* length.                                                                 *)
(*                                                                         *)
(* Between two events the decoder reads no message, or it waits for the    *)
(* second byte of a function button that is none: a typing key with the    *)
(* button prefix's code was pressed while an E0 was left over.  From these *)
(* two, the flags and the bytes still to come fix what happens until the   *)
(* end of the event.                                                       *)
(*                                                                         *)
(* What the host believes once the line is empty is decided by the last    *)
(* packet of a kind that waits in it.  The invariant of the path backs     *)
(* that belief, not the present one, by a key that is down.                *)
(***************************************************************************)
EXTENDS InputPath, SequenceTheorems, TLAPS

(* What the decoder is doing.                                               *)
Open == prodFn = 0
Reading(fn, i) == prodFn = fn /\ prodPos = i

-----------------------------------------------------------------------------
(* The inductive invariant.                                                 *)

(* The strengthened invariant of the decoder by itself.                     *)
DecoderOK == D!TypeOK /\ D!MessageInFlight /\ D!NoFlowError /\ installed = 7

KeyboardOK ==
    /\ held \subseteq Keys \cup Modifiers /\ notes \subseteq Notes /\ buttons \subseteq Buttons
    /\ clean \in BOOLEAN /\ derailed \in BOOLEAN /\ breaks \in 0..2
    /\ tx \in Seq(WireBytes) /\ heard \in Seq(D!Calls)
    /\ Len(heard) + Len(tx) <= Len(event.bytes)

(* The event in the terms of its bytes.                                     *)
EventOK ==
    LET c == event.key.code
        v == event.val
    IN
    \/ /\ event.kind = "Make" /\ event.key \in held
       /\ event.bytes = IF event.key.ext THEN <<D!ExtendPrefix, c>> ELSE <<c>>
    \/ /\ event.kind = "Break" /\ event.key \in Keys \cup Modifiers
       /\ event.bytes = IF event.key.ext THEN <<D!ExtendPrefix, D!BreakPrefix, c>>
                                         ELSE <<D!BreakPrefix, c>>
    \/ event.kind = "NoteOn" /\ v \in Notes /\ event.bytes = <<D!ExtendPrefix, D!NoteFn, v, Velocity>>
    \/ event.kind = "NoteOff" /\ v \in Notes /\ event.bytes = <<D!ExtendPrefix, D!NoteFn, D!BreakPrefix, v>>
    \/ event.kind = "FuncDown" /\ v \in Buttons /\ event.bytes = <<D!ExtendPrefix, D!ButtonFn, v>>
    \/ event.kind = "FuncUp" /\ v \in Buttons /\ event.bytes = <<D!ExtendPrefix, D!ButtonFn, D!BreakPrefix, v>>
    \/ event.kind = "Wheel" /\ v \in Wheel /\ event.bytes = <<D!ExtendPrefix, D!ButtonFn, v>>
    \/ event.kind = "Reply" /\ v \in {D!Ack, D!SelfTestOk, D!Resend} /\ event.bytes = <<v>>

(* Between events: no message, or a typing key taken for the button prefix. *)
Waiting == Reading(D!ButtonFn, 0) /\ extend /\ ~release /\ derailed
AtRest  == Open \/ Waiting

(* Where the event is and what the decoder has made of it so far.           *)
Begun == tx = event.bytes /\ tx # << >> /\ heard = << >> /\ AtRest /\ (clean => Clean)

Undecided == MidiAt(heard) = {} /\ (clean => heard = << >>)

Prefixed ==
    /\ event.bytes # << >> /\ event.bytes[1] = D!ExtendPrefix
    /\ tx = Tail(event.bytes) /\ tx # << >>
    /\ Open /\ extend /\ (clean => ~release)

KeyRising ==
    /\ event.kind = "Break" /\ tx = <<event.key.code>> /\ release
    /\ \/ Open /\ ~extend
       \/ Reading(D!ButtonFn, 1) /\ derailed /\ ~clean /\ breaks # 2

InMessage ==
    LET v == event.val IN
    \/ event.kind = "NoteOn" /\ tx = <<v, Velocity>> /\ Reading(D!NoteFn, 0) /\ ~release
    \/ event.kind = "NoteOn" /\ tx = <<Velocity>> /\ Reading(D!NoteFn, 1) /\ ~release /\ prodKey = v
    \/ event.kind = "NoteOff" /\ tx = <<D!BreakPrefix, v>> /\ Reading(D!NoteFn, 0)
    \/ event.kind = "NoteOff" /\ tx = <<v>> /\ Reading(D!NoteFn, 1) /\ release
    \/ event.kind \in {"FuncDown", "Wheel"} /\ tx = <<v>> /\ Reading(D!ButtonFn, 0)
    \/ event.kind = "FuncUp" /\ tx = <<D!BreakPrefix, v>> /\ Reading(D!ButtonFn, 0)
    \/ event.kind = "FuncUp" /\ tx = <<v>> /\ Reading(D!ButtonFn, 1) /\ release

Ended ==
    /\ tx = << >> /\ AtRest
    /\ IF event.kind \in {"NoteOn", "NoteOff"}
       THEN \E i \in DOMAIN heard : MidiAt(heard) = {i} /\ <<heard[i]>> = Expected(event)
       ELSE MidiAt(heard) = {}
    /\ clean => heard = Expected(event)

Underway == (Prefixed \/ KeyRising \/ InMessage) /\ Undecided
StageOK  == Begun \/ Underway \/ Ended

(* One release of a typing key ends a waiting message, two clear the flags. *)
BreaksOK ==
    /\ breaks # 0 => event.kind = "Reply" \/ (event.kind = "Break" /\ event.key \in Keys)
    /\ event.kind = "Break" /\ tx # << >> /\ breaks = 2 => Open
    /\ event.kind # "Break" \/ tx = << >> => (breaks # 0 => Open) /\ (breaks = 2 => Clean)

(* A modifier flag is backed by a held key, or by one whose release is      *)
(* still on the wire.                                                       *)
Releasing(codes) == event.kind = "Break" /\ tx # << >> /\ event.key.code \in codes
Backed(codes)    == Holding(codes) \/ Releasing(codes)
FlagsOK ==
    ~derailed =>
        /\ shift => Backed(D!ShiftCodes)
        /\ alt => Backed({D!AltCode})
        /\ ctrl => Backed({D!CtrlCode})

IInv == DecoderOK /\ KeyboardOK /\ EventOK /\ StageOK /\ BreaksOK /\ FlagsOK

-----------------------------------------------------------------------------
(* Sequences of a few bytes.                                                *)

LEMMA Tuples ==
  ASSUME NEW a, NEW b, NEW c, NEW d
  PROVE  /\ Head(<<a>>) = a /\ Tail(<<a>>) = << >> /\ <<a>> # << >>
         /\ Head(<<a, b>>) = a /\ Tail(<<a, b>>) = <<b>> /\ <<a, b>> # << >>
         /\ Head(<<a, b, c>>) = a /\ Tail(<<a, b, c>>) = <<b, c>> /\ <<a, b, c>> # << >>
         /\ Head(<<a, b, c, d>>) = a /\ Tail(<<a, b, c, d>>) = <<b, c, d>> /\ <<a, b, c, d>> # << >>
<1>1. Head(<<a>>) = a /\ Tail(<<a>>) = << >> /\ <<a>> # << >>
  OBVIOUS
<1>2. Head(<<a, b>>) = a /\ Tail(<<a, b>>) = <<b>> /\ <<a, b>> # << >>
  OBVIOUS
<1>3. Head(<<a, b, c>>) = a /\ Tail(<<a, b, c>>) = <<b, c>> /\ <<a, b, c>> # << >>
  OBVIOUS
<1>4. Head(<<a, b, c, d>>) = a /\ Tail(<<a, b, c, d>>) = <<b, c, d>> /\ <<a, b, c, d>> # << >>
  <2>1. Head(<<a, b, c, d>>) = a
    OBVIOUS
  <2>2. Tail(<<a, b, c, d>>) = <<b, c, d>>
    OBVIOUS
  <2>3. <<a, b, c, d>> # << >>
    OBVIOUS
  <2> QED
    BY <2>1, <2>2, <2>3
<1> QED
  BY <1>1, <1>2, <1>3, <1>4, Zenon

LEMMA MessageTuples ==
  ASSUME NEW a, NEW b, NEW c, NEW d
  PROVE  /\ Head(<<a, b, c>>) = a /\ Tail(<<a, b, c>>) # << >> /\ <<a, b, c>>[1] = a
         /\ Head(<<a, b, c, d>>) = a /\ Tail(<<a, b, c, d>>) # << >> /\ <<a, b, c, d>>[1] = a
<1>1. <<a, b, c>>[1] = a /\ <<a, b, c, d>>[1] = a
  OBVIOUS
<1>2. <<b, c>> # << >> /\ <<b, c, d>> # << >>
  BY Tuples
<1> QED
  BY <1>1, <1>2, Tuples

(* One element in front of a sequence, and the tuples it makes.             *)
LEMMA Cons ==
  ASSUME NEW T, NEW a \in T, NEW s \in Seq(T), NEW t \in Seq(T),
         Len(t) = Len(s) + 1, t[1] = a, \A i \in 1..Len(s) : t[i + 1] = s[i]
  PROVE  <<a>> \o s = t
<1> DEFINE l == <<a>> \o s
<1>1. <<a>> \in Seq(T) /\ Len(<<a>>) = 1 /\ <<a>>[1] = a /\ Len(s) \in Nat
  OBVIOUS
<1>2. /\ l \in Seq(T) /\ Len(l) = Len(t)
      /\ \A i \in 1..Len(s) + 1 : l[i] = IF i <= 1 THEN <<a>>[i] ELSE s[i - 1]
  BY <1>1, ConcatProperties
<1> HIDE DEF l
<1>3. ASSUME NEW i \in 1..Len(l) PROVE l[i] = t[i]
  <2>1. CASE i = 1
    BY <1>1, <1>2, <2>1
  <2>2. CASE i # 1
    <3>1. i - 1 \in 1..Len(s) /\ i - 1 + 1 = i
      BY <1>1, <1>2, <2>2
    <3>2. t[i - 1 + 1] = s[i - 1]
      BY <3>1
    <3> QED
      BY <1>1, <1>2, <2>2, <3>1, <3>2
  <2> QED
    BY <2>1, <2>2
<1> QED
  BY <1>2, <1>3, SeqEqual DEF l

(* The bytes of the events.                                                 *)
LEMMA KeyEventBytes ==
  ASSUME NEW k \in Keys \cup Modifiers, NEW kind, kind = "Make" \/ kind = "Break"
  PROVE  /\ KeyEvent(kind, k).kind = kind /\ KeyEvent(kind, k).key = k
         /\ KeyEvent(kind, k).bytes \in Seq(WireBytes) /\ KeyEvent(kind, k).bytes # << >>
         /\ kind = "Make" =>
              KeyEvent(kind, k).bytes = IF k.ext THEN <<D!ExtendPrefix, k.code>> ELSE <<k.code>>
         /\ kind = "Break" =>
              KeyEvent(kind, k).bytes = IF k.ext THEN <<D!ExtendPrefix, D!BreakPrefix, k.code>>
                                                 ELSE <<D!BreakPrefix, k.code>>
<1> DEFINE c == k.code
           e == KeyEvent(kind, k)
<1>1. c \in WireBytes /\ D!ExtendPrefix \in WireBytes /\ D!BreakPrefix \in WireBytes
  BY StreamAssumption DEF WireBytes, D!ExtendPrefix, D!BreakPrefix
<1>2. e.kind = kind /\ e.key = k
  BY DEF KeyEvent
<1>3. /\ << >> \o <<c>> = <<c>> /\ << >> \o <<D!BreakPrefix, c>> = <<D!BreakPrefix, c>>
      /\ <<D!ExtendPrefix>> \o <<c>> = <<D!ExtendPrefix, c>>
      /\ <<D!ExtendPrefix>> \o <<D!BreakPrefix, c>> = <<D!ExtendPrefix, D!BreakPrefix, c>>
  <2>1. << >> \o <<c>> = <<c>> /\ << >> \o <<D!BreakPrefix, c>> = <<D!BreakPrefix, c>>
    OBVIOUS
  <2>2. <<D!ExtendPrefix>> \o <<c>> = <<D!ExtendPrefix, c>>
    <3> DEFINE s == <<c>>
               t == <<D!ExtendPrefix, c>>
    <3>1. s \in Seq(WireBytes) /\ t \in Seq(WireBytes) /\ Len(t) = Len(s) + 1 /\ t[1] = D!ExtendPrefix
      BY <1>1
    <3>2. \A i \in 1..Len(s) : t[i + 1] = s[i]
      OBVIOUS
    <3> HIDE DEF s, t
    <3>3. <<D!ExtendPrefix>> \o s = t
      BY <1>1, <3>1, <3>2, Cons
    <3> QED
      BY <3>3 DEF s, t
  <2>3. <<D!ExtendPrefix>> \o <<D!BreakPrefix, c>> = <<D!ExtendPrefix, D!BreakPrefix, c>>
    <3> DEFINE s == <<D!BreakPrefix, c>>
               t == <<D!ExtendPrefix, D!BreakPrefix, c>>
    <3>1. s \in Seq(WireBytes) /\ t \in Seq(WireBytes) /\ Len(t) = Len(s) + 1 /\ t[1] = D!ExtendPrefix
      BY <1>1
    <3>2. \A i \in 1..Len(s) : t[i + 1] = s[i]
      OBVIOUS
    <3> HIDE DEF s, t
    <3>3. <<D!ExtendPrefix>> \o s = t
      BY <1>1, <3>1, <3>2, Cons
    <3> QED
      BY <3>3 DEF s, t
  <2> QED
    BY <2>1, <2>2, <2>3
<1>4. <<c>> # << >> /\ <<D!BreakPrefix, c>> # << >> /\ <<D!ExtendPrefix, c>> # << >>
      /\ <<D!ExtendPrefix, D!BreakPrefix, c>> # << >>
  BY Tuples
<1>5. <<c>> \in Seq(WireBytes) /\ <<D!BreakPrefix, c>> \in Seq(WireBytes)
      /\ <<D!ExtendPrefix, c>> \in Seq(WireBytes)
      /\ <<D!ExtendPrefix, D!BreakPrefix, c>> \in Seq(WireBytes)
  BY <1>1
<1>6. CASE kind = "Make"
  <2>1. e.bytes = Prefix(k) \o <<c>>
    BY <1>6 DEF KeyEvent
  <2>2. e.bytes = IF k.ext THEN <<D!ExtendPrefix, c>> ELSE <<c>>
    BY <1>3, <2>1, Zenon DEF Prefix
  <2>3. e.bytes \in Seq(WireBytes) /\ e.bytes # << >>
    <3>1. CASE k.ext
      BY <1>4, <1>5, <2>2, <3>1
    <3>2. CASE ~k.ext
      BY <1>4, <1>5, <2>2, <3>2
    <3> QED
      BY <3>1, <3>2
  <2> QED
    BY <1>2, <1>6, <2>2, <2>3
<1>7. CASE kind = "Break"
  <2>1. e.bytes = Prefix(k) \o <<D!BreakPrefix, c>>
    BY <1>7 DEF KeyEvent
  <2>2. e.bytes = IF k.ext THEN <<D!ExtendPrefix, D!BreakPrefix, c>> ELSE <<D!BreakPrefix, c>>
    BY <1>3, <2>1, Zenon DEF Prefix
  <2>3. e.bytes \in Seq(WireBytes) /\ e.bytes # << >>
    <3>1. CASE k.ext
      BY <1>4, <1>5, <2>2, <3>1
    <3>2. CASE ~k.ext
      BY <1>4, <1>5, <2>2, <3>2
    <3> QED
      BY <3>1, <3>2
  <2> QED
    BY <1>2, <1>7, <2>2, <2>3
<1> QED
  BY <1>6, <1>7

(* A message is its bytes after an E0.                                      *)
LEMMA MessageBytes ==
  ASSUME NEW kind, NEW val, NEW s \in Seq(WireBytes), NEW t \in Seq(WireBytes),
         Len(t) = Len(s) + 1, t[1] = D!ExtendPrefix, \A i \in 1..Len(s) : t[i + 1] = s[i]
  PROVE  LET e == MessageEvent(kind, val, s)
         IN  e.kind = kind /\ e.val = val /\ e.bytes = t /\ t # << >>
<1>1. D!ExtendPrefix \in WireBytes /\ Len(s) \in Nat
  BY DEF WireBytes, D!ExtendPrefix
<1>2. <<D!ExtendPrefix>> \o s = t
  BY <1>1, Cons
<1>3. t # << >>
  BY <1>1
<1> QED
  BY <1>2, <1>3 DEF MessageEvent

-----------------------------------------------------------------------------
(* One byte: what the decoder does with it outside and inside a message.    *)

SameFlags == UNCHANGED <<shift, ctrl, alt, capsLock>>
Silent    == call' = D!NoCall

USE DEF D!BreakPrefix, D!ExtendPrefix, D!Ack, D!SelfTestOk, D!SelfTestBad, D!Resend,
        D!ShiftCodes, D!AltCode, D!CtrlCode, D!CapsCode, D!ButtonFn, D!NoteFn, WireBytes,
        D!Callback, D!Error

(* Every callback is installed, so every call is made.                      *)
LEMMA Delivered ==
  ASSUME NEW kind \in D!CallbackKinds, NEW code, NEW ext, NEW arg, installed = 7,
         D!Deliver(D!Callback(kind, code, ext, arg))
  PROVE  call' = D!Callback(kind, code, ext, arg)
<1>1. D!Slot[kind] <= 7
  BY DEF D!Slot, D!CallbackKinds
<1>2. D!Callback(kind, code, ext, arg).cb = kind
  BY DEF D!Callback
<1> QED
  BY <1>1, <1>2 DEF D!Deliver

LEMMA ControlBytes ==
  ASSUME NEW b, Open, D!Receive(b),
         b \in {D!BreakPrefix, D!ExtendPrefix, D!Ack, D!SelfTestOk, D!Resend}
  PROVE  D!ControlByte(b) /\ b \notin D!SelfTestBad
  BY DEF Open, D!Receive, D!ButtonByte, D!NoteByte, D!ModifierByte, D!StartMessage, D!KeyByte,
         D!KeyCodes

LEMMA ExtendReceived ==
  ASSUME Open, D!Receive(D!ExtendPrefix)
  PROVE  Open' /\ extend' /\ release' = release /\ Silent /\ SameFlags /\ installed' = installed
<1>1. D!ControlByte(D!ExtendPrefix) /\ D!ExtendPrefix \notin D!SelfTestBad
  BY ControlBytes
<1> QED
  BY <1>1 DEF Open, Silent, SameFlags, D!ControlByte, D!Quiet, D!flags, D!prod

LEMMA BreakReceived ==
  ASSUME Open, D!Receive(D!BreakPrefix)
  PROVE  Open' /\ ~extend' /\ release' /\ Silent /\ SameFlags /\ installed' = installed
<1>1. D!ControlByte(D!BreakPrefix) /\ D!BreakPrefix \notin D!SelfTestBad
  BY ControlBytes
<1> QED
  BY <1>1 DEF Open, Silent, SameFlags, D!ControlByte, D!Quiet, D!flags, D!prod

LEMMA AnswerReceived ==
  ASSUME Open, NEW b \in {D!Ack, D!SelfTestOk, D!Resend}, D!Receive(b)
  PROVE  /\ Open' /\ extend' = extend /\ release' = release /\ Silent /\ SameFlags
         /\ installed' = installed
<1>1. D!ControlByte(b) /\ b \notin D!SelfTestBad
  BY ControlBytes
<1> QED
  BY <1>1 DEF Open, Silent, SameFlags, D!ControlByte, D!Quiet, D!flags, D!prod

LEMMA ModifierReceived ==
  ASSUME Open, NEW b \in ModifierCodes, D!Receive(b)
  PROVE  /\ Open' /\ extend' = extend /\ ~release' /\ Silent /\ installed' = installed
         /\ shift' = IF b \in D!ShiftCodes THEN ~release ELSE shift
         /\ alt' = IF b = D!AltCode THEN ~release ELSE alt
         /\ ctrl' = IF b = D!CtrlCode THEN ~release ELSE ctrl
<1>1. D!ModifierByte(b)
  BY DEF ModifierCodes, Open, D!Receive, D!ButtonByte, D!NoteByte, D!ControlByte,
         D!StartMessage, D!KeyByte, D!KeyCodes
<1> QED
  BY <1>1 DEF ModifierCodes, Open, Silent, D!ModifierByte, D!Quiet, D!prod

LEMMA KeyReceived ==
  ASSUME Open, NEW b \in D!KeyCodes, ~(extend /\ b \in {D!ButtonFn, D!NoteFn}), D!Receive(b),
         installed = 7
  PROVE  /\ Open' /\ extend' = extend /\ ~release' /\ SameFlags /\ installed' = installed
         /\ call' = IF release THEN D!Callback("KeyRelease", b, extend, 0)
                               ELSE D!Callback("KeyPress", b, extend, D!Extra)
<1>1. D!KeyByte(b)
  BY DEF Open, D!Receive, D!ButtonByte, D!NoteByte, D!ControlByte, D!ModifierByte,
         D!StartMessage, D!KeyCodes
<1>2. "KeyPress" \in D!CallbackKinds /\ "KeyRelease" \in D!CallbackKinds
  BY DEF D!CallbackKinds, D!Slot
<1>3. call' = IF release THEN D!Callback("KeyRelease", b, extend, 0)
                         ELSE D!Callback("KeyPress", b, extend, D!Extra)
  <2>1. CASE release
    BY <1>1, <1>2, <2>1, Delivered DEF D!KeyByte
  <2>2. CASE ~release
    BY <1>1, <1>2, <2>2, Delivered DEF D!KeyByte
  <2> QED
    BY <2>1, <2>2
<1> QED
  BY <1>1, <1>3 DEF Open, SameFlags, D!KeyByte, D!flags, D!prod

LEMMA MessageBegun ==
  ASSUME Open, extend, NEW b, b \in {D!ButtonFn, D!NoteFn}, D!Receive(b)
  PROVE  /\ Reading(b, 0)' /\ ~release' /\ Silent /\ SameFlags /\ installed' = installed
         /\ extend' = extend
<1> DEFINE Extended == extend
<1>1. Extended
  OBVIOUS
<1> HIDE DEF Extended
<1>2. D!StartMessage(b) \/ D!KeyByte(b)
  BY ONLY Open, b \in {D!ButtonFn, D!NoteFn}, D!Receive(b)
  DEF Open, D!Receive, D!ButtonByte, D!NoteByte, D!ControlByte, D!ModifierByte,
      D!BreakPrefix, D!ExtendPrefix, D!Ack, D!SelfTestOk, D!SelfTestBad, D!Resend,
      D!ShiftCodes, D!AltCode, D!CtrlCode, D!CapsCode, D!ButtonFn, D!NoteFn
<1>3. D!KeyByte(b) => ~Extended
  BY ONLY b \in {D!ButtonFn, D!NoteFn} DEF D!KeyByte, Extended
<1>4. D!StartMessage(b)
  BY <1>1, <1>2, <1>3
<1> QED
  BY ONLY <1>4 DEF Reading, Silent, SameFlags, D!StartMessage, D!Quiet, D!flags

LEMMA BreakInMessage ==
  ASSUME NEW fn, fn \in {D!ButtonFn, D!NoteFn}, Reading(fn, 0), D!Receive(D!BreakPrefix)
  PROVE  /\ Reading(fn, 1)' /\ release' /\ Silent /\ SameFlags /\ installed' = installed
         /\ extend' = extend
<1>1. D!ButtonByte(D!BreakPrefix) \/ D!NoteByte(D!BreakPrefix)
  BY DEF Reading, D!Receive, D!ControlByte, D!ModifierByte, D!StartMessage, D!KeyByte
<1>2. CASE fn = D!ButtonFn
  BY <1>1, <1>2 DEF Reading, Silent, SameFlags, D!ButtonByte, D!NoteByte, D!AdvanceMessage, D!Quiet, D!flags
<1>3. CASE fn = D!NoteFn
  BY <1>1, <1>3 DEF Reading, Silent, SameFlags, D!ButtonByte, D!NoteByte, D!AdvanceMessage, D!Quiet, D!flags
<1> QED
  BY <1>2, <1>3

LEMMA ButtonPressed ==
  ASSUME Reading(D!ButtonFn, 0), NEW b, b # D!BreakPrefix, D!Receive(b), installed = 7
  PROVE  /\ Open' /\ extend' = extend /\ release' = release /\ SameFlags /\ installed' = installed
         /\ call' = IF b \in D!WheelCodes THEN D!Callback("PitchBend", D!WheelPitch(b), FALSE, 0)
                                          ELSE D!Callback("FuncPress", b, FALSE, D!Extra)
<1>1. D!ButtonByte(b)
  BY DEF Reading, D!Receive, D!NoteByte, D!ControlByte, D!ModifierByte, D!StartMessage, D!KeyByte
<1>2. "PitchBend" \in D!CallbackKinds /\ "FuncPress" \in D!CallbackKinds
  BY DEF D!CallbackKinds, D!Slot
<1>3. CASE b \in D!WheelCodes
  <2>1. D!Deliver(D!Callback("PitchBend", D!WheelPitch(b), FALSE, 0))
    BY <1>1, <1>3 DEF D!ButtonByte, Reading
  <2> QED
    BY <1>1, <1>2, <1>3, <2>1, Delivered DEF Reading, Open, SameFlags, D!ButtonByte, D!flags
<1>4. CASE b \notin D!WheelCodes
  <2>1. D!Deliver(D!Callback("FuncPress", b, FALSE, D!Extra))
    BY <1>1, <1>4 DEF D!ButtonByte, Reading
  <2> QED
    BY <1>1, <1>2, <1>4, <2>1, Delivered DEF Reading, Open, SameFlags, D!ButtonByte, D!flags
<1> QED
  BY <1>3, <1>4

LEMMA ButtonReleased ==
  ASSUME Reading(D!ButtonFn, 1), release, NEW b, D!Receive(b), installed = 7
  PROVE  /\ Open' /\ extend' = extend /\ release' = release /\ SameFlags /\ installed' = installed
         /\ call' = D!Callback("FuncRelease", b, FALSE, 0)
<1>1. D!ButtonByte(b)
  BY DEF Reading, D!Receive, D!NoteByte, D!ControlByte, D!ModifierByte, D!StartMessage, D!KeyByte
<1>2. "FuncRelease" \in D!CallbackKinds
  BY DEF D!CallbackKinds, D!Slot
<1>3. D!Deliver(D!Callback("FuncRelease", b, FALSE, 0))
  BY <1>1 DEF D!ButtonByte, Reading
<1> QED
  BY <1>1, <1>2, <1>3, Delivered DEF Reading, Open, SameFlags, D!ButtonByte, D!flags

LEMMA NoteNumber ==
  ASSUME Reading(D!NoteFn, 0), NEW b, b # D!BreakPrefix, D!Receive(b)
  PROVE  /\ Reading(D!NoteFn, 1)' /\ prodKey' = b /\ release' = release
         /\ Silent /\ SameFlags /\ installed' = installed
<1>1. D!NoteByte(b)
  BY DEF Reading, D!Receive, D!ButtonByte, D!ControlByte, D!ModifierByte, D!StartMessage, D!KeyByte
<1> QED
  BY <1>1 DEF Reading, Silent, SameFlags, D!NoteByte, D!AdvanceMessage, D!Quiet, D!flags

LEMMA NoteEnd ==
  ASSUME Reading(D!NoteFn, 1), NEW b, D!Receive(b), installed = 7
  PROVE  /\ Open' /\ extend' = extend /\ release' = release /\ SameFlags /\ installed' = installed
         /\ call' = IF release THEN D!Callback("MidiRelease", b, FALSE, 0)
                               ELSE D!Callback("MidiPress", prodKey, FALSE, b)
<1>1. D!NoteByte(b)
  BY DEF Reading, D!Receive, D!ButtonByte, D!ControlByte, D!ModifierByte, D!StartMessage, D!KeyByte
<1>2. "MidiRelease" \in D!CallbackKinds /\ "MidiPress" \in D!CallbackKinds
  BY DEF D!CallbackKinds, D!Slot
<1>3. /\ ~(prodFn = D!NoteFn /\ prodPos = 0) /\ ~(prodFn # D!NoteFn) /\ ~(prodPos # 1)
  BY DEF Reading
<1>4. prodFn' = 0 /\ release' = release
  BY <1>1, <1>3 DEF D!NoteByte
<1>5. CASE release
  <2>1. D!Deliver(D!Callback("MidiRelease", b, FALSE, 0))
    BY <1>1, <1>3, <1>5, Zenon DEF D!NoteByte
  <2> QED
    BY <1>1, <1>2, <1>4, <1>5, <2>1, Delivered DEF Open, SameFlags, D!NoteByte, D!flags
<1>6. CASE ~release
  <2>1. D!Deliver(D!Callback("MidiPress", prodKey, FALSE, b))
    BY <1>1, <1>3, <1>6, Zenon DEF D!NoteByte
  <2> QED
    BY <1>1, <1>2, <1>4, <1>6, <2>1, Delivered DEF Open, SameFlags, D!NoteByte, D!flags
<1> QED
  BY <1>5, <1>6

-----------------------------------------------------------------------------
(* Sequences: the callbacks heard and the bytes still to come.               *)

LEMMA MidiAppend ==
  ASSUME NEW s \in Seq(D!Calls), NEW c \in D!Calls
  PROVE  /\ c.cb \notin {"MidiPress", "MidiRelease"} => MidiAt(Append(s, c)) = MidiAt(s)
         /\ c.cb \in {"MidiPress", "MidiRelease"} /\ MidiAt(s) = {} => MidiAt(Append(s, c)) = {Len(s) + 1}
         /\ Append(s, c)[Len(s) + 1] = c /\ Len(s) + 1 \in DOMAIN Append(s, c)
<1>1. /\ DOMAIN s = 1..Len(s) /\ DOMAIN Append(s, c) = 1..(Len(s) + 1) /\ Len(s) \in Nat
      /\ Append(s, c)[Len(s) + 1] = c
      /\ \A i \in 1..Len(s) : Append(s, c)[i] = s[i]
  OBVIOUS
<1> QED
  BY <1>1 DEF MidiAt

LEMMA ByteOnWire ==
  ASSUME tx \in Seq(WireBytes), tx # << >>
  PROVE  /\ Head(tx) \in WireBytes /\ Tail(tx) \in Seq(WireBytes)
         /\ Len(tx) \in Nat /\ Len(Tail(tx)) = Len(tx) - 1
<1>1. \A T : \A s \in Seq(T) : s # << >> =>
        Head(s) \in T /\ Tail(s) \in Seq(T) /\ Len(s) \in Nat /\ Len(Tail(s)) = Len(s) - 1
  BY HeadTailProperties
<1> QED
  BY ONLY <1>1, tx \in Seq(WireBytes), tx # << >>

-----------------------------------------------------------------------------
(* The invariant of the decoder by itself is preserved by every byte.       *)

P == INSTANCE PS2DecoderProofs WITH Wire <- WireBytes

(* D and P are two instances of one module: their definitions are equal.    *)
LEMMA SameDecoder ==
  ASSUME NEW b
  PROVE  /\ D!Receive(b) => P!Receive(b)
         /\ D!TypeOK <=> P!TypeOK
         /\ D!MessageInFlight <=> P!MessageInFlight
         /\ D!NoFlowError <=> P!NoFlowError
         /\ D!TypeOK' <=> P!TypeOK'
         /\ D!MessageInFlight' <=> P!MessageInFlight'
         /\ D!NoFlowError' <=> P!NoFlowError'
<1> USE DEF P!BreakPrefix, P!ExtendPrefix, P!Ack, P!SelfTestOk, P!SelfTestBad, P!Resend,
        P!ShiftCodes, P!AltCode, P!CtrlCode, P!CapsCode, P!ButtonFn, P!NoteFn, P!Callback, P!Error
<1>1. D!Slot = P!Slot /\ D!NoCall = P!NoCall /\ D!WheelCodes = P!WheelCodes /\ D!Extra = P!Extra
  BY DEF D!Slot, P!Slot, D!NoCall, P!NoCall, D!WheelCodes, P!WheelCodes, D!Extra, P!Extra, D!Bit, P!Bit
<1>2. \A c : D!Deliver(c) => P!Deliver(c)
  BY <1>1 DEF D!Deliver, P!Deliver
<1>3. (D!Quiet <=> P!Quiet) /\ (D!AdvanceMessage <=> P!AdvanceMessage)
  BY <1>1 DEF D!Quiet, P!Quiet, D!AdvanceMessage, P!AdvanceMessage
<1>4. D!ButtonByte(b) => P!ButtonByte(b)
  BY <1>1, <1>2, <1>3 DEF D!ButtonByte, P!ButtonByte, D!flags, P!flags, D!WheelPitch, P!WheelPitch
<1>5. D!NoteByte(b) => P!NoteByte(b)
  BY <1>1, <1>2, <1>3, Zenon DEF D!NoteByte, P!NoteByte, D!flags, P!flags, D!ErrorFlow, P!ErrorFlow, D!ErrorFunction, P!ErrorFunction
<1>6. D!ControlByte(b) => P!ControlByte(b)
  BY <1>1, <1>2, <1>3 DEF D!ControlByte, P!ControlByte, D!flags, P!flags, D!prod, P!prod, D!ErrorSelfTest, P!ErrorSelfTest
<1>7. D!ModifierByte(b) => P!ModifierByte(b)
  BY <1>1, <1>2, <1>3, Zenon DEF D!ModifierByte, P!ModifierByte, D!prod, P!prod
<1>8. D!StartMessage(b) => P!StartMessage(b)
  BY <1>1, <1>2, <1>3, Zenon DEF D!StartMessage, P!StartMessage, D!flags, P!flags
<1>9. D!KeyByte(b) => P!KeyByte(b)
  BY <1>1, <1>2, <1>3, Zenon DEF D!KeyByte, P!KeyByte, D!flags, P!flags, D!prod, P!prod, D!KeyCodes, P!KeyCodes
<1>10. D!Calls = P!Calls
  BY <1>1 DEF D!Calls, P!Calls, D!CallbackKinds, P!CallbackKinds
<1> QED
  BY <1>4, <1>5, <1>6, <1>7, <1>8, <1>9, <1>10, Zenon DEF D!Receive, P!Receive, D!TypeOK, P!TypeOK, D!MessageInFlight, P!MessageInFlight, D!NoFlowError, P!NoFlowError, D!ErrorFlow, P!ErrorFlow, D!ErrorFunction, P!ErrorFunction

LEMMA ReceiveKeepsDecoder ==
  ASSUME DecoderOK, NEW b \in WireBytes, D!Receive(b)
  PROVE  DecoderOK'
<1>1. P!IInv
  BY SameDecoder DEF DecoderOK, P!IInv
<1>2. P!Next
  BY SameDecoder DEF P!Next
<1>3. P!WireAssumption
  BY DEF P!WireAssumption
<1>4. P!IInv'
  BY <1>1, <1>2, <1>3, P!StepIInv
<1>5. (D!TypeOK /\ D!MessageInFlight /\ D!NoFlowError)'
  BY <1>4, SameDecoder DEF P!IInv
<1>6. installed' = installed
  BY DEF D!Receive, D!ButtonByte, D!NoteByte, D!ControlByte, D!ModifierByte, D!StartMessage, D!KeyByte
<1> QED
  BY <1>5, <1>6 DEF DecoderOK

-----------------------------------------------------------------------------
(* What every byte does to the record of the run.                           *)

LEMMA ByteFrame ==
  ASSUME IInv, DecodeByte
  PROVE  /\ tx # << >> /\ D!Receive(Head(tx)) /\ tx' = Tail(tx) /\ installed = 7
         /\ UNCHANGED <<held, event, clean, breaks>>
         /\ derailed => derailed'
         /\ event.kind \in {"Make", "Break"} /\ Open /\ ~Open' => derailed'
         /\ Silent => heard' = heard
         /\ ~Silent => heard' = Append(heard, call')
         /\ heard \in Seq(D!Calls) /\ call' \in D!Calls
         /\ DecoderOK' /\ KeyboardOK' /\ EventOK'
<1>1. /\ tx # << >> /\ D!Receive(Head(tx)) /\ tx' = Tail(tx)
      /\ UNCHANGED <<held, notes, buttons, event, clean, breaks>>
      /\ heard' = IF call' = D!NoCall THEN heard ELSE Append(heard, call')
      /\ derailed' = (derailed \/ (event.kind \in {"Make", "Break"} /\ prodFn = 0 /\ prodFn' # 0))
  BY Zenon DEF DecodeByte
<1>2. KeyboardOK /\ EventOK /\ DecoderOK
  BY DEF IInv
<1>3. /\ Head(tx) \in WireBytes /\ Tail(tx) \in Seq(WireBytes)
      /\ Len(tx) \in Nat /\ Len(Tail(tx)) = Len(tx) - 1
  BY <1>1, <1>2, ByteOnWire DEF KeyboardOK
<1>4. DecoderOK'
  BY <1>1, <1>2, <1>3, ReceiveKeepsDecoder
<1>5. call' \in D!Calls
  BY <1>4 DEF DecoderOK, D!TypeOK
<1>6. EventOK'
  BY <1>1, <1>2 DEF EventOK
<1>7. heard \in Seq(D!Calls) /\ Len(heard) \in Nat /\ Len(heard) + Len(tx) <= Len(event.bytes)
  BY <1>2 DEF KeyboardOK
<1>8. heard' \in Seq(D!Calls) /\ Len(heard') \in Nat /\ Len(heard') <= Len(heard) + 1
  BY <1>1, <1>5, <1>7
<1>9. Len(event.bytes) \in Int
  BY <1>6, <1>1 DEF EventOK
<1>10. derailed' \in BOOLEAN
  BY <1>1, <1>2 DEF KeyboardOK
<1>11. Len(heard') + Len(tx') <= Len(event'.bytes)
  BY <1>1, <1>3, <1>7, <1>8, <1>9
<1>12. KeyboardOK'
  BY <1>1, <1>2, <1>3, <1>8, <1>10, <1>11 DEF KeyboardOK
<1> QED
  BY <1>1, <1>2, <1>4, <1>5, <1>6, <1>7, <1>12 DEF DecoderOK, Open, Silent

(* As long as no MIDI callback is made, nothing is decided.                 *)
LEMMA StillUndecided ==
  ASSUME IInv, DecodeByte, Undecided, call'.cb \notin {"MidiPress", "MidiRelease"}, clean => Silent
  PROVE  Undecided'
<1>1. CASE Silent
  BY <1>1, ByteFrame DEF Undecided, MidiAt
<1>2. CASE ~Silent
  <2>1. heard' = Append(heard, call') /\ heard \in Seq(D!Calls) /\ call' \in D!Calls /\ clean' = clean
    BY <1>2, ByteFrame
  <2>2. MidiAt(Append(heard, call')) = {}
    BY <2>1, MidiAppend DEF Undecided
  <2>3. MidiAt(heard)' = {}
    BY <2>1, <2>2
  <2> QED
    BY <1>2, <2>1, <2>3 DEF Undecided
<1> QED
  BY <1>1, <1>2

LEMMA SilentIsNoMidi ==
  ASSUME Silent
  PROVE  call'.cb \notin {"MidiPress", "MidiRelease"}
  BY DEF Silent, D!NoCall

(* What the scan codes assumed of the keyboard say of the current event.    *)
LEMMA EventCodes ==
  ASSUME IInv
  PROVE  /\ event.kind \in {"Make", "Break"} /\ event.key \in Keys =>
                /\ event.key.code \in D!KeyCodes /\ event.key.code # D!NoteFn
                /\ event.key.code \notin ModifierCodes /\ event.key.code # D!BreakPrefix
                /\ ~(event.key.ext /\ event.key.code = D!ButtonFn)
         /\ event.kind \in {"Make", "Break"} /\ event.key \notin Keys =>
                event.key.code \in ModifierCodes /\ event.key.code # D!BreakPrefix
         /\ event.kind \in {"NoteOn", "NoteOff"} => event.val # D!BreakPrefix
         /\ event.kind \in {"FuncDown", "FuncUp"} => event.val # D!BreakPrefix /\ event.val \notin D!WheelCodes
         /\ event.kind = "Wheel" => event.val # D!BreakPrefix /\ event.val \in D!WheelCodes
         /\ event.kind = "Reply" => event.val \in {D!Ack, D!SelfTestOk, D!Resend}
         /\ event.kind \in {"Make", "Break"} => event.key.ext \in BOOLEAN
<1>1. EventOK /\ (event.kind = "Make" => event.key \in Keys \cup Modifiers)
  BY DEF IInv, KeyboardOK, EventOK
<1>2. event.kind \in {"Make", "Break"} => event.key \in Keys \cup Modifiers
  BY <1>1 DEF EventOK
<1>3. \A k \in Keys : /\ k.code \in D!KeyCodes /\ k.code # D!NoteFn
                      /\ k.code \notin ModifierCodes /\ k.code # D!BreakPrefix
                      /\ ~(k.ext /\ k.code = D!ButtonFn)
  <2>1. \A c \in D!KeyCodes : c \notin ModifierCodes /\ c # D!BreakPrefix
    BY DEF D!KeyCodes, ModifierCodes
  <2>2. \A c \in D!KeyCodes \ {D!NoteFn} : c \in D!KeyCodes /\ c # D!NoteFn
    OBVIOUS
  <2>3. \A k \in Keys : ~(k.ext /\ k.code = D!ButtonFn)
    BY StreamAssumption, Zenon
  <2>4. \A k \in Keys : k.code \in D!KeyCodes \ {D!NoteFn}
    BY ScanCodeAssumption, Zenon
  <2> TAKE k \in Keys
  <2>5. k.code \in D!KeyCodes \ {D!NoteFn}
    BY <2>4, Zenon
  <2>6. k.code \in D!KeyCodes /\ k.code # D!NoteFn
    BY <2>2, <2>5, Zenon
  <2>7. k.code \notin ModifierCodes /\ k.code # D!BreakPrefix
    BY <2>1, <2>6, Zenon
  <2> QED
    BY <2>3, <2>6, <2>7, Zenon
<1>4. \A k \in Modifiers : k.code \in ModifierCodes /\ k.code # D!BreakPrefix
  <2>1. \A c \in ModifierCodes : c # D!BreakPrefix
    BY DEF ModifierCodes
  <2>2. \A k \in Modifiers : k.code \in ModifierCodes
    BY ScanCodeAssumption, Zenon
  <2> QED
    BY <2>1, <2>2
<1>5. /\ \A v \in Notes : v # D!BreakPrefix
      /\ \A v \in Buttons : v # D!BreakPrefix /\ v \notin D!WheelCodes
      /\ \A v \in Wheel : v # D!BreakPrefix /\ v \in D!WheelCodes
  BY StreamAssumption DEF D!WheelCodes
<1>6. \A k \in Keys \cup Modifiers : k.ext \in BOOLEAN
  BY StreamAssumption
<1>7. /\ event.kind \in {"NoteOn", "NoteOff"} => event.val \in Notes
      /\ event.kind \in {"FuncDown", "FuncUp"} => event.val \in Buttons
      /\ event.kind = "Wheel" => event.val \in Wheel
      /\ event.kind = "Reply" => event.val \in {D!Ack, D!SelfTestOk, D!Resend}
  BY <1>1 DEF EventOK
<1> QED
  BY ONLY <1>2, <1>3, <1>4, <1>5, <1>6, <1>7

(* The flags stay backed when a byte leaves them alone and no release of a  *)
(* modifier ends with it.                                                   *)
LEMMA FlagsKept ==
  ASSUME IInv, DecodeByte, SameFlags,
         event.kind = "Break" => tx' # << >> \/ derailed' \/ event.key.code \notin ModifierCodes
  PROVE  FlagsOK'
<1> SUFFICES ASSUME ~derailed'
             PROVE  /\ shift' => Backed(D!ShiftCodes)'
                    /\ alt' => Backed({D!AltCode})'
                    /\ ctrl' => Backed({D!CtrlCode})'
  BY DEF FlagsOK
<1>1. ~derailed /\ tx # << >> /\ event' = event /\ held' = held
  BY ByteFrame
<1>2. \A codes : codes \subseteq ModifierCodes /\ Backed(codes) => Backed(codes)'
  BY <1>1 DEF Backed, Holding, Releasing
<1>3. D!ShiftCodes \subseteq ModifierCodes /\ {D!AltCode} \subseteq ModifierCodes /\ {D!CtrlCode} \subseteq ModifierCodes
  BY DEF ModifierCodes
<1> QED
  BY <1>1, <1>2, <1>3, Zenon DEF IInv, FlagsOK, SameFlags

(* The code of a modifier sets its flag at a press and clears it at the     *)
(* release.                                                                 *)
LEMMA FlagsAtModifier ==
  ASSUME IInv, DecodeByte, event.kind = "Make" \/ (event.kind = "Break" /\ release),
         shift' = IF event.key.code \in D!ShiftCodes THEN ~release ELSE shift,
         alt' = IF event.key.code = D!AltCode THEN ~release ELSE alt,
         ctrl' = IF event.key.code = D!CtrlCode THEN ~release ELSE ctrl
  PROVE  FlagsOK'
<1> SUFFICES ASSUME ~derailed'
             PROVE  /\ shift' => Backed(D!ShiftCodes)'
                    /\ alt' => Backed({D!AltCode})'
                    /\ ctrl' => Backed({D!CtrlCode})'
  BY DEF FlagsOK
<1>1. ~derailed /\ event' = event /\ held' = held
  BY ByteFrame
<1>2. \A codes : event.key.code \notin codes /\ Backed(codes) => Backed(codes)'
  BY <1>1 DEF Backed, Holding, Releasing
<1>3. \A codes : event.kind = "Make" /\ event.key.code \in codes => Backed(codes)'
  <2>1. event.kind = "Make" => event.key \in held
    BY DEF IInv, EventOK
  <2> QED
    BY <1>1, <2>1 DEF Backed, Holding
<1>4. /\ shift => Backed(D!ShiftCodes)
      /\ alt => Backed({D!AltCode})
      /\ ctrl => Backed({D!CtrlCode})
  BY <1>1 DEF IInv, FlagsOK
<1>5. shift' => Backed(D!ShiftCodes)'
  BY <1>2, <1>3, <1>4, Zenon
<1>6. alt' => Backed({D!AltCode})'
  BY <1>2, <1>3, <1>4, Zenon
<1>7. ctrl' => Backed({D!CtrlCode})'
  BY <1>2, <1>3, <1>4, Zenon
<1> QED
  BY <1>5, <1>6, <1>7

(* E0 at the start of an event.                                             *)
LEMMA PrefixByte ==
  ASSUME IInv, DecodeByte, Begun, Head(tx) = D!ExtendPrefix, event.bytes[1] = D!ExtendPrefix,
         tx' # << >>, event.kind # "Reply"
  PROVE  StageOK' /\ BreaksOK' /\ FlagsOK'
<1>1. /\ D!Receive(D!ExtendPrefix) /\ tx' = Tail(event.bytes) /\ event' = event
      /\ installed = 7 /\ clean' = clean /\ breaks' = breaks
  BY ByteFrame DEF Begun
<1>2. Undecided
  BY DEF Begun, Undecided, MidiAt
<1>3. /\ Open' /\ SameFlags /\ extend' /\ (clean => release' = release /\ Silent)
      /\ call'.cb \notin {"MidiPress", "MidiRelease"}
  <2>1. CASE Open
    BY <1>1, <2>1, ExtendReceived, SilentIsNoMidi
  <2>2. CASE Waiting
    <3>1. ~clean /\ D!ExtendPrefix # D!BreakPrefix /\ Reading(D!ButtonFn, 0)
      BY <2>2 DEF Begun, Clean, Waiting, Reading
    <3>2. /\ Open' /\ SameFlags /\ extend' = extend
          /\ call' = IF D!ExtendPrefix \in D!WheelCodes
                     THEN D!Callback("PitchBend", D!WheelPitch(D!ExtendPrefix), FALSE, 0)
                     ELSE D!Callback("FuncPress", D!ExtendPrefix, FALSE, D!Extra)
      BY <1>1, <3>1, ButtonPressed
    <3>3. extend'
      BY <2>2, <3>2, Zenon DEF Waiting
    <3>4. call'.cb \in {"PitchBend", "FuncPress"}
      BY <3>2
    <3> QED
      BY <3>1, <3>2, <3>3, <3>4
  <2> QED
    BY <2>1, <2>2 DEF Begun, AtRest
<1>4. Undecided'
  BY <1>2, <1>3, StillUndecided
<1>5. clean => ~release'
  BY <1>3 DEF Begun, Clean
<1>6. StageOK'
  BY <1>1, <1>3, <1>4, <1>5 DEF StageOK, Underway, Prefixed
<1>7. BreaksOK'
  BY <1>1, <1>3 DEF IInv, BreaksOK
<1> QED
  BY <1>3, <1>6, <1>7, FlagsKept

(* The events other than presses and releases of a piano key end the way    *)
(* they were undecided: without a MIDI callback.                            *)
LEMMA EndsUndecided ==
  ASSUME IInv, DecodeByte, Undecided, tx' = << >>, AtRest',
         event.kind \notin {"NoteOn", "NoteOff"},
         call'.cb \notin {"MidiPress", "MidiRelease"}, clean => heard' = Expected(event)'
  PROVE  StageOK'
<1>1. event' = event /\ clean' = clean
  BY ByteFrame
<1>2. MidiAt(heard)' = {}
  <2>1. CASE Silent
    BY <2>1, ByteFrame DEF Undecided, MidiAt
  <2>2. CASE ~Silent
    <3>1. heard' = Append(heard, call') /\ heard \in Seq(D!Calls) /\ call' \in D!Calls
      BY <2>2, ByteFrame
    <3>2. MidiAt(Append(heard, call')) = {}
      BY <3>1, MidiAppend DEF Undecided
    <3> QED
      BY <3>1, <3>2
  <2> QED
    BY <2>1, <2>2
<1> QED
  BY <1>1, <1>2, Zenon DEF StageOK, Ended

(* A message byte taken from a waiting decoder: a stray callback of a       *)
(* function button or of the wheel, and no message is awaited any more.     *)
LEMMA WaitingByte ==
  ASSUME IInv, DecodeByte, Waiting, Head(tx) # D!BreakPrefix
  PROVE  /\ Open' /\ SameFlags /\ extend' = extend /\ release' = release
         /\ call'.cb \notin {"MidiPress", "MidiRelease"}
<1>1. D!Receive(Head(tx)) /\ installed = 7 /\ Reading(D!ButtonFn, 0)
  BY ByteFrame DEF Waiting
<1>2. /\ Open' /\ SameFlags /\ extend' = extend /\ release' = release
      /\ call' = IF Head(tx) \in D!WheelCodes
                 THEN D!Callback("PitchBend", D!WheelPitch(Head(tx)), FALSE, 0)
                 ELSE D!Callback("FuncPress", Head(tx), FALSE, D!Extra)
  BY <1>1, ButtonPressed
<1>3. call'.cb \in {"PitchBend", "FuncPress"}
  BY <1>2
<1> QED
  BY <1>2, <1>3

(* The code of a key that goes down.                                        *)
LEMMA MakeByte ==
  ASSUME IInv, DecodeByte, event.kind = "Make", tx = <<event.key.code>>, AtRest, Undecided,
         clean => Open /\ ~release /\ extend = event.key.ext
  PROVE  StageOK' /\ BreaksOK' /\ FlagsOK'
<1> DEFINE c == event.key.code
<1>1. /\ D!Receive(c) /\ Head(tx) = c /\ tx' = << >> /\ event' = event /\ installed = 7
      /\ clean' = clean /\ breaks' = breaks /\ held' = held
  BY ByteFrame, Tuples
<1>2. breaks' = 0
  BY <1>1 DEF IInv, BreaksOK
<1>3. BreaksOK'
  BY <1>1, <1>2 DEF BreaksOK
<1>4. CASE Waiting
  <2>1. c # D!BreakPrefix
    BY EventCodes
  <2>2. Open' /\ SameFlags /\ call'.cb \notin {"MidiPress", "MidiRelease"}
    BY <1>1, <1>4, <2>1, WaitingByte
  <2>3. ~clean
    BY <1>4 DEF Waiting, Reading, Open
  <2>4. StageOK'
    BY <1>1, <2>2, <2>3, EndsUndecided DEF AtRest
  <2> QED
    BY <1>3, <2>2, <2>4, FlagsKept
<1>5. CASE Open /\ event.key \notin Keys
  <2>1. c \in ModifierCodes
    BY <1>5, EventCodes
  <2>2. /\ Open' /\ Silent
        /\ shift' = IF c \in D!ShiftCodes THEN ~release ELSE shift
        /\ alt' = IF c = D!AltCode THEN ~release ELSE alt
        /\ ctrl' = IF c = D!CtrlCode THEN ~release ELSE ctrl
    BY <1>1, <1>5, <2>1, ModifierReceived
  <2>3. clean => heard' = Expected(event)'
    <3>1. Expected(event)' = << >>
      BY <1>1, <1>5 DEF Expected
    <3> QED
      BY <2>2, <3>1, ByteFrame DEF Undecided
  <2>4. StageOK'
    BY <1>1, <2>2, <2>3, EndsUndecided, SilentIsNoMidi DEF AtRest
  <2>5. FlagsOK'
    <3>1. event.kind = "Make" \/ (event.kind = "Break" /\ release)
      OBVIOUS
    <3> QED
      BY <2>2, <3>1, FlagsAtModifier, Zenon
  <2> QED
    BY <1>3, <2>4, <2>5
<1>6. CASE Open /\ event.key \in Keys /\ ~(extend /\ c = D!ButtonFn)
  <2>1. /\ c \in D!KeyCodes /\ ~(extend /\ c \in {D!ButtonFn, D!NoteFn}) /\ c \notin ModifierCodes
    BY <1>6, EventCodes
  <2>2. /\ Open' /\ SameFlags
        /\ call' = IF release THEN D!Callback("KeyRelease", c, extend, 0)
                              ELSE D!Callback("KeyPress", c, extend, D!Extra)
    BY <1>1, <1>6, <2>1, KeyReceived
  <2>3. call'.cb \in {"KeyRelease", "KeyPress"}
    BY <2>2
  <2>4. clean => heard' = Expected(event)'
    <3>1. D!Extra' = D!Extra
      BY <2>2 DEF SameFlags, D!Extra
    <3>2. Expected(event)' = <<D!Callback("KeyPress", c, event.key.ext, D!Extra)>>
      BY <1>1, <1>6, <3>1 DEF Expected
    <3>3. SUFFICES ASSUME clean PROVE heard' = Expected(event)'
      OBVIOUS
    <3>4. call' = D!Callback("KeyPress", c, event.key.ext, D!Extra)
      BY <2>2, <3>3
    <3>5. heard = << >> /\ ~Silent /\ heard' = Append(heard, call')
      BY <2>3, <3>3, ByteFrame DEF Undecided, Silent, D!NoCall
    <3> QED
      BY <3>2, <3>4, <3>5
  <2>5. StageOK'
    BY <1>1, <2>2, <2>3, <2>4, EndsUndecided DEF AtRest
  <2> QED
    BY <1>3, <2>2, <2>5, FlagsKept
<1>7. CASE Open /\ event.key \in Keys /\ extend /\ c = D!ButtonFn
  <2>1. /\ Reading(D!ButtonFn, 0)' /\ ~release' /\ Silent /\ SameFlags /\ extend' = extend
    BY <1>1, <1>7, MessageBegun
  <2>2. derailed' /\ extend'
    <3>1. ~Open'
      BY <2>1 DEF Reading, Open
    <3> QED
      BY <1>7, <2>1, <3>1, ByteFrame, Zenon
  <2>3. ~clean
    BY <1>7, EventCodes
  <2>4. StageOK'
    BY <1>1, <2>1, <2>2, <2>3, EndsUndecided, SilentIsNoMidi DEF AtRest, Waiting
  <2> QED
    BY <1>3, <2>1, <2>4, FlagsKept
<1> QED
  BY <1>4, <1>5, <1>6, <1>7 DEF AtRest

(* F0 before the code of a key.                                             *)
LEMMA BreakPrefixByte ==
  ASSUME IInv, DecodeByte, event.kind = "Break", tx = <<D!BreakPrefix, event.key.code>>,
         AtRest, Undecided, clean => Open
  PROVE  StageOK' /\ BreaksOK' /\ FlagsOK'
<1>1. /\ D!Receive(D!BreakPrefix) /\ Head(tx) = D!BreakPrefix /\ tx' = <<event'.key.code>> /\ event' = event
      /\ tx' # << >> /\ tx # << >> /\ clean' = clean /\ breaks' = breaks /\ (derailed => derailed')
  <2>1. /\ Head(tx) = D!BreakPrefix /\ Tail(tx) = <<event.key.code>>
        /\ <<event.key.code>> # << >>
    BY Tuples
  <2> QED
    BY <2>1, ByteFrame
<1>2. CASE Open
  <2>1. Open' /\ ~extend' /\ release' /\ Silent /\ SameFlags
    BY <1>1, <1>2, BreakReceived
  <2>2. Undecided'
    BY <2>1, StillUndecided, SilentIsNoMidi
  <2>3. KeyRising'
    BY <1>1, <2>1 DEF KeyRising
  <2>4. BreaksOK'
    BY <1>1, <2>1 DEF IInv, BreaksOK
  <2> QED
    BY <1>1, <2>1, <2>2, <2>3, <2>4, FlagsKept DEF StageOK, Underway
<1>3. CASE Waiting
  <2>0. Reading(D!ButtonFn, 0) /\ ~Open
    BY <1>3 DEF Waiting, Reading, Open
  <2>1. Reading(D!ButtonFn, 1)' /\ release' /\ Silent /\ SameFlags
    BY <1>1, <2>0, BreakInMessage
  <2>2. Undecided'
    BY <2>1, StillUndecided, SilentIsNoMidi
  <2>3. derailed' /\ ~clean' /\ breaks' # 2
    BY <1>1, <1>3, <2>0, Zenon DEF Waiting, IInv, BreaksOK
  <2>4. KeyRising'
    BY <1>1, <2>1, <2>3 DEF KeyRising
  <2>5. BreaksOK'
    BY <1>1, <2>3 DEF IInv, BreaksOK
  <2> QED
    BY <1>1, <2>1, <2>2, <2>4, <2>5, FlagsKept DEF StageOK, Underway
<1> QED
  BY <1>2, <1>3 DEF AtRest

(* The code of a key that goes up.                                          *)
LEMMA KeyUpByte ==
  ASSUME IInv, DecodeByte, KeyRising, Undecided
  PROVE  StageOK' /\ BreaksOK' /\ FlagsOK'
<1> DEFINE c == event.key.code
<1>1. /\ D!Receive(c) /\ Head(tx) = c /\ tx' = << >> /\ event' = event /\ installed = 7
      /\ clean' = clean /\ breaks' = breaks /\ held' = held /\ (derailed => derailed')
      /\ event.kind = "Break"
  BY ByteFrame, Tuples DEF KeyRising
<1>2. CASE ~Open
  <2>1. Reading(D!ButtonFn, 1) /\ release /\ derailed /\ ~clean /\ breaks # 2
    BY <1>2 DEF KeyRising
  <2>2. Open' /\ SameFlags /\ call' = D!Callback("FuncRelease", c, FALSE, 0)
    BY <1>1, <2>1, ButtonReleased
  <2>3. call'.cb = "FuncRelease"
    BY <2>2
  <2>4. StageOK'
    BY <1>1, <2>1, <2>2, <2>3, EndsUndecided DEF AtRest
  <2>5. BreaksOK'
    BY <1>1, <2>1, <2>2 DEF IInv, BreaksOK
  <2> QED
    BY <1>1, <2>1, <2>2, <2>4, <2>5, FlagsKept
<1>3. CASE Open /\ event.key \notin Keys
  <2>0. release
    BY DEF KeyRising
  <2>1. c \in ModifierCodes
    BY <1>1, <1>3, EventCodes
  <2>2. /\ Open' /\ Silent
        /\ shift' = IF c \in D!ShiftCodes THEN ~release ELSE shift
        /\ alt' = IF c = D!AltCode THEN ~release ELSE alt
        /\ ctrl' = IF c = D!CtrlCode THEN ~release ELSE ctrl
    BY <1>1, <1>3, <2>1, ModifierReceived
  <2>3. clean => heard' = Expected(event)'
    <3>1. Expected(event)' = << >>
      BY <1>1, <1>3 DEF Expected
    <3> QED
      BY <2>2, <3>1, ByteFrame DEF Undecided
  <2>4. StageOK'
    BY <1>1, <2>2, <2>3, EndsUndecided, SilentIsNoMidi DEF AtRest
  <2>5. FlagsOK'
    BY <1>1, <2>0, <2>2, FlagsAtModifier, Zenon
  <2>6. BreaksOK'
    BY <1>1, <1>3, <2>2 DEF IInv, BreaksOK
  <2> QED
    BY <2>4, <2>5, <2>6
<1>4. CASE Open /\ event.key \in Keys
  <2>0. release /\ ~extend
    BY <1>4 DEF KeyRising, Open, Reading
  <2>1. c \in D!KeyCodes /\ c \notin ModifierCodes
    BY <1>1, <1>4, EventCodes
  <2>2. /\ Open' /\ SameFlags /\ extend' = extend /\ ~release'
        /\ call' = IF release THEN D!Callback("KeyRelease", c, extend, 0)
                              ELSE D!Callback("KeyPress", c, extend, D!Extra)
    BY <1>1, <1>4, <2>0, <2>1, KeyReceived
  <2>3. call'.cb \in {"KeyRelease", "KeyPress"}
    BY <2>2
  <2>4. clean => heard' = Expected(event)'
    <3>1. extend = FALSE
      BY <2>0 DEF IInv, DecoderOK, D!TypeOK
    <3>2. Expected(event)' = <<D!Callback("KeyRelease", c, FALSE, 0)>>
      BY <1>1, <1>4 DEF Expected
    <3>3. SUFFICES ASSUME clean PROVE heard' = Expected(event)'
      OBVIOUS
    <3>4. call' = D!Callback("KeyRelease", c, FALSE, 0)
      BY <2>0, <2>2, <3>1
    <3>5. heard = << >> /\ ~Silent /\ heard' = Append(heard, call')
      BY <2>3, <3>3, ByteFrame DEF Undecided, Silent, D!NoCall
    <3> QED
      BY <3>2, <3>4, <3>5
  <2>5. StageOK'
    BY <1>1, <2>2, <2>3, <2>4, EndsUndecided DEF AtRest
  <2>6. ~extend'
    BY <2>0, <2>2, Zenon
  <2>7. BreaksOK'
    BY <1>1, <2>2, <2>6 DEF IInv, BreaksOK, Clean, Open
  <2> QED
    BY <2>1, <2>2, <2>5, <2>7, FlagsKept
<1> QED
  BY <1>2, <1>3, <1>4

(* The events that are not keys: no release of a key is being counted, and  *)
(* no modifier can change.                                                  *)
LEMMA MessageFrame ==
  ASSUME IInv, DecodeByte, event.kind \notin {"Make", "Break", "Reply"}, SameFlags
  PROVE  BreaksOK' /\ FlagsOK'
<1>1. breaks = 0
  BY DEF IInv, BreaksOK
<1>2. breaks' = 0 /\ event' = event
  BY <1>1, ByteFrame
<1>3. BreaksOK'
  BY <1>2 DEF BreaksOK
<1> QED
  BY <1>3, FlagsKept

(* A press or release of a piano key ends with its callback.                *)
LEMMA EndsWithMidi ==
  ASSUME IInv, DecodeByte, Undecided, tx' = << >>, Open',
         event.kind \in {"NoteOn", "NoteOff"},
         call'.cb \in {"MidiPress", "MidiRelease"}, Expected(event)' = <<call'>>
  PROVE  StageOK'
<1>1. /\ event' = event /\ clean' = clean
      /\ heard' = Append(heard, call') /\ heard \in Seq(D!Calls) /\ call' \in D!Calls
  <2>1. ~Silent
    BY DEF Silent, D!NoCall
  <2> QED
    BY <2>1, ByteFrame
<1> DEFINE i == Len(heard) + 1
<1>2. MidiAt(Append(heard, call')) = {i} /\ Append(heard, call')[i] = call' /\ i \in DOMAIN Append(heard, call')
  BY <1>1, MidiAppend DEF Undecided
<1> HIDE DEF i
<1>3. i \in DOMAIN heard' /\ MidiAt(heard)' = {i} /\ <<heard'[i]>> = Expected(event)'
  BY <1>1, <1>2
<1>4. clean => heard' = <<call'>>
  BY <1>1 DEF Undecided
<1> QED
  BY <1>1, <1>3, <1>4 DEF StageOK, Ended, AtRest

(* One of a button or of the wheel ends with another one.                   *)
LEMMA EndsWithCall ==
  ASSUME IInv, DecodeByte, Undecided, tx' = << >>, Open',
         event.kind \notin {"NoteOn", "NoteOff"},
         call'.cb \in {"FuncPress", "FuncRelease", "PitchBend"}, Expected(event)' = <<call'>>
  PROVE  StageOK'
<1>1. heard' = Append(heard, call')
  <2>1. ~Silent
    BY DEF Silent, D!NoCall
  <2> QED
    BY <2>1, ByteFrame
<1>2. clean => heard' = Expected(event)'
  BY <1>1 DEF Undecided
<1> QED
  BY <1>2, EndsUndecided DEF AtRest

(* The second byte of a message names its function.                         *)
LEMMA FunctionByte ==
  ASSUME IInv, DecodeByte, Prefixed, Undecided, event.kind \notin {"Make", "Break", "Reply"}
  PROVE  StageOK' /\ BreaksOK' /\ FlagsOK'
<1> DEFINE v == event.val
<1>1. /\ EventOK /\ tx = Tail(event.bytes) /\ tx' = Tail(tx) /\ event' = event /\ v' = v
      /\ Open /\ extend /\ D!Receive(Head(tx))
  BY ByteFrame DEF IInv, Prefixed
<1>2. ASSUME NEW fn, fn \in {D!ButtonFn, D!NoteFn}, Head(tx) = fn
      PROVE  Reading(fn, 0)' /\ ~release' /\ Silent /\ SameFlags
  BY <1>1, <1>2, MessageBegun
<1>3. InMessage' /\ Silent /\ SameFlags => StageOK' /\ BreaksOK' /\ FlagsOK'
  BY StillUndecided, SilentIsNoMidi, MessageFrame DEF StageOK, Underway
<1>4. CASE event.kind = "NoteOn"
  <2>1. event.bytes = <<D!ExtendPrefix, D!NoteFn, v, Velocity>>
    BY <1>1, <1>4 DEF EventOK
  <2>2. Head(tx) = D!NoteFn /\ tx' = <<v, Velocity>>
    BY <1>1, <2>1, Tuples
  <2>3. Reading(D!NoteFn, 0)' /\ ~release' /\ Silent /\ SameFlags
    BY <1>2, <2>2
  <2>4. InMessage'
    BY <1>1, <1>4, <2>2, <2>3 DEF InMessage
  <2> QED
    BY <1>3, <2>3, <2>4
<1>5. CASE event.kind = "NoteOff"
  <2>1. event.bytes = <<D!ExtendPrefix, D!NoteFn, D!BreakPrefix, v>>
    BY <1>1, <1>5 DEF EventOK
  <2>2. Head(tx) = D!NoteFn /\ tx' = <<D!BreakPrefix, v>>
    BY <1>1, <2>1, Tuples
  <2>3. Reading(D!NoteFn, 0)' /\ ~release' /\ Silent /\ SameFlags
    BY <1>2, <2>2
  <2>4. InMessage'
    BY <1>1, <1>5, <2>2, <2>3 DEF InMessage
  <2> QED
    BY <1>3, <2>3, <2>4
<1>6. CASE event.kind \in {"FuncDown", "Wheel"}
  <2>1. event.bytes = <<D!ExtendPrefix, D!ButtonFn, v>>
    BY <1>1, <1>6 DEF EventOK
  <2>2. Head(tx) = D!ButtonFn /\ tx' = <<v>>
    BY <1>1, <2>1, Tuples
  <2>3. Reading(D!ButtonFn, 0)' /\ ~release' /\ Silent /\ SameFlags
    BY <1>2, <2>2
  <2>4. InMessage'
    BY <1>1, <1>6, <2>2, <2>3 DEF InMessage
  <2> QED
    BY <1>3, <2>3, <2>4
<1>7. CASE event.kind = "FuncUp"
  <2>1. event.bytes = <<D!ExtendPrefix, D!ButtonFn, D!BreakPrefix, v>>
    BY <1>1, <1>7 DEF EventOK
  <2>2. Head(tx) = D!ButtonFn /\ tx' = <<D!BreakPrefix, v>>
    BY <1>1, <2>1, Tuples
  <2>3. Reading(D!ButtonFn, 0)' /\ ~release' /\ Silent /\ SameFlags
    BY <1>2, <2>2
  <2>4. InMessage'
    BY <1>1, <1>7, <2>2, <2>3 DEF InMessage
  <2> QED
    BY <1>3, <2>3, <2>4
<1> QED
  BY <1>1, <1>4, <1>5, <1>6, <1>7 DEF EventOK

(* The bytes after it.                                                      *)
LEMMA MessageByte ==
  ASSUME IInv, DecodeByte, InMessage, Undecided
  PROVE  StageOK' /\ BreaksOK' /\ FlagsOK'
<1> DEFINE v == event.val
           b == Head(tx)
<1>1. /\ D!Receive(b) /\ tx' = Tail(tx) /\ event' = event /\ v' = v /\ installed = 7
      /\ event.kind \in {"NoteOn", "NoteOff", "FuncDown", "FuncUp", "Wheel"}
  BY ByteFrame DEF InMessage
<1>2. SameFlags => BreaksOK' /\ FlagsOK'
  BY <1>1, MessageFrame
<1>3. CASE event.kind = "NoteOn" /\ tx = <<v, Velocity>> /\ Reading(D!NoteFn, 0) /\ ~release
  <2>1. b = v /\ tx' = <<Velocity>> /\ v # D!BreakPrefix
    BY <1>1, <1>3, Tuples, EventCodes
  <2>2. /\ Reading(D!NoteFn, 1)' /\ prodKey' = v /\ release' = release /\ Silent /\ SameFlags
    BY <1>1, <1>3, <2>1, NoteNumber
  <2>3. InMessage'
    BY <1>1, <1>3, <2>1, <2>2 DEF InMessage
  <2> QED
    BY <1>2, <2>2, <2>3, StillUndecided, SilentIsNoMidi DEF StageOK, Underway
<1>4. CASE event.kind = "NoteOn" /\ tx = <<Velocity>> /\ Reading(D!NoteFn, 1) /\ ~release /\ prodKey = v
  <2>1. b = Velocity /\ tx' = << >>
    BY <1>1, <1>4, Tuples
  <2>2. Open' /\ SameFlags /\ call' = D!Callback("MidiPress", v, FALSE, Velocity)
    BY <1>1, <1>4, <2>1, NoteEnd
  <2>3. Expected(event)' = <<call'>>
    BY <1>1, <1>4, <2>2 DEF Expected
  <2>4. call'.cb = "MidiPress"
    BY <2>2
  <2> QED
    BY <1>2, <1>4, <2>1, <2>2, <2>3, <2>4, EndsWithMidi
<1>5. CASE event.kind = "NoteOff" /\ tx = <<D!BreakPrefix, v>> /\ Reading(D!NoteFn, 0)
  <2>1. b = D!BreakPrefix /\ tx' = <<v>>
    BY <1>1, <1>5, Tuples
  <2>2. /\ Reading(D!NoteFn, 1)' /\ release' /\ Silent /\ SameFlags
    BY <1>1, <1>5, <2>1, BreakInMessage
  <2>3. InMessage'
    BY <1>1, <1>5, <2>1, <2>2 DEF InMessage
  <2> QED
    BY <1>2, <2>2, <2>3, StillUndecided, SilentIsNoMidi DEF StageOK, Underway
<1>6. CASE event.kind = "NoteOff" /\ tx = <<v>> /\ Reading(D!NoteFn, 1) /\ release
  <2>1. b = v /\ tx' = << >>
    BY <1>1, <1>6, Tuples
  <2>2. Open' /\ SameFlags /\ call' = D!Callback("MidiRelease", v, FALSE, 0)
    BY <1>1, <1>6, <2>1, NoteEnd
  <2>3. Expected(event)' = <<call'>>
    BY <1>1, <1>6, <2>2 DEF Expected
  <2>4. call'.cb = "MidiRelease"
    BY <2>2
  <2> QED
    BY <1>2, <1>6, <2>1, <2>2, <2>3, <2>4, EndsWithMidi
<1>7. CASE event.kind \in {"FuncDown", "Wheel"} /\ tx = <<v>> /\ Reading(D!ButtonFn, 0)
  <2>1. b = v /\ tx' = << >> /\ v # D!BreakPrefix /\ (v \in D!WheelCodes <=> event.kind = "Wheel")
    BY <1>1, <1>7, Tuples, EventCodes
  <2>2. /\ Open' /\ SameFlags
        /\ call' = IF v \in D!WheelCodes THEN D!Callback("PitchBend", D!WheelPitch(v), FALSE, 0)
                                          ELSE D!Callback("FuncPress", v, FALSE, D!Extra)
    BY <1>1, <1>7, <2>1, ButtonPressed
  <2>3. Expected(event)' = <<call'>>
    <3>1. D!Extra' = D!Extra
      BY <2>2 DEF SameFlags, D!Extra
    <3> QED
      BY <1>1, <1>7, <2>1, <2>2, <3>1 DEF Expected
  <2>4. call'.cb \in {"PitchBend", "FuncPress"}
    BY <2>2
  <2>5. StageOK'
    BY <1>7, <2>1, <2>2, <2>3, <2>4, EndsWithCall
  <2> QED
    BY <1>2, <2>2, <2>5
<1>8. CASE event.kind = "FuncUp" /\ tx = <<D!BreakPrefix, v>> /\ Reading(D!ButtonFn, 0)
  <2>1. b = D!BreakPrefix /\ tx' = <<v>>
    BY <1>1, <1>8, Tuples
  <2>2. /\ Reading(D!ButtonFn, 1)' /\ release' /\ Silent /\ SameFlags
    BY <1>1, <1>8, <2>1, BreakInMessage
  <2>3. InMessage'
    BY <1>1, <1>8, <2>1, <2>2 DEF InMessage
  <2> QED
    BY <1>2, <2>2, <2>3, StillUndecided, SilentIsNoMidi DEF StageOK, Underway
<1>9. CASE event.kind = "FuncUp" /\ tx = <<v>> /\ Reading(D!ButtonFn, 1) /\ release
  <2>1. b = v /\ tx' = << >>
    BY <1>1, <1>9, Tuples
  <2>2. Open' /\ SameFlags /\ call' = D!Callback("FuncRelease", v, FALSE, 0)
    BY <1>1, <1>9, <2>1, ButtonReleased
  <2>3. Expected(event)' = <<call'>>
    BY <1>1, <1>9, <2>2 DEF Expected
  <2>4. call'.cb = "FuncRelease"
    BY <2>2
  <2>5. StageOK'
    BY <1>9, <2>1, <2>2, <2>3, <2>4, EndsWithCall
  <2> QED
    BY <1>2, <2>2, <2>5
<1> QED
  BY <1>3, <1>4, <1>5, <1>6, <1>7, <1>8, <1>9 DEF InMessage

(* A reply between events.                                                  *)
LEMMA ReplyByte ==
  ASSUME IInv, DecodeByte, Begun, event.kind = "Reply"
  PROVE  StageOK' /\ BreaksOK' /\ FlagsOK'
<1> DEFINE v == event.val
<1>1. event.bytes = <<v>> /\ v \in {D!Ack, D!SelfTestOk, D!Resend} /\ Undecided
  BY DEF IInv, EventOK, Begun, Undecided, MidiAt
<1>2. /\ D!Receive(v) /\ Head(tx) = v /\ tx' = << >> /\ event' = event /\ clean' = clean
      /\ breaks' = breaks
  BY <1>1, ByteFrame, Tuples DEF Begun
<1>3. Expected(event)' = << >>
  BY <1>2 DEF Expected
<1>4. CASE Open
  <2>1. Open' /\ extend' = extend /\ release' = release /\ Silent /\ SameFlags
    BY <1>1, <1>2, <1>4, AnswerReceived
  <2>2. StageOK'
    BY <1>1, <1>2, <1>3, <2>1, EndsUndecided, SilentIsNoMidi, ByteFrame DEF AtRest, Begun
  <2>3. Clean => Clean'
    BY <1>4, <2>1, Zenon DEF Clean, Open
  <2>4. BreaksOK'
    BY <1>2, <2>1, <2>3 DEF IInv, BreaksOK, Begun
  <2> QED
    BY <2>1, <2>2, <2>4, FlagsKept
<1>5. CASE Waiting
  <2>1. ~Open /\ v # D!BreakPrefix /\ ~clean
    BY <1>1, <1>5 DEF Waiting, Reading, Open, Begun, Clean
  <2>2. Open' /\ SameFlags /\ call'.cb \notin {"MidiPress", "MidiRelease"}
    BY <1>2, <1>5, <2>1, WaitingByte
  <2>3. StageOK'
    BY <1>1, <1>2, <2>1, <2>2, EndsUndecided DEF AtRest
  <2>4. breaks' = 0
    BY <1>2, <2>1 DEF IInv, BreaksOK
  <2> QED
    BY <2>2, <2>3, <2>4, FlagsKept DEF BreaksOK
<1> QED
  BY <1>4, <1>5 DEF Begun, AtRest

-----------------------------------------------------------------------------
(* The whole step.                                                          *)

LEMMA BegunByte ==
  ASSUME IInv, DecodeByte, Begun
  PROVE  StageOK' /\ BreaksOK' /\ FlagsOK'
<1> DEFINE c == event.key.code
<1>1. EventOK /\ tx = event.bytes /\ tx' = Tail(tx) /\ Undecided /\ AtRest
  BY ByteFrame DEF IInv, Begun, Undecided, MidiAt
<1>2. Head(tx) = D!ExtendPrefix /\ event.bytes[1] = D!ExtendPrefix /\ tx' # << >> /\ event.kind # "Reply"
        => StageOK' /\ BreaksOK' /\ FlagsOK'
  BY PrefixByte
<1>3. CASE event.kind = "Make" /\ ~event.key.ext
  <2>1. tx = <<c>>
    BY <1>1, <1>3 DEF EventOK
  <2>2. extend \in BOOLEAN /\ event.key.ext \in BOOLEAN
    BY <1>3, EventCodes DEF IInv, DecoderOK, D!TypeOK
  <2>3. clean => Open /\ ~release /\ ~extend
    BY Zenon DEF Begun, Clean, Open
  <2>4. ~extend => extend = event.key.ext
    BY <1>3, <2>2
  <2> QED
    BY <1>1, <1>3, <2>1, <2>3, <2>4, MakeByte, Zenon
<1>4. CASE event.kind = "Break" /\ ~event.key.ext
  <2>1. tx = <<D!BreakPrefix, c>>
    BY <1>1, <1>4 DEF EventOK
  <2>2. clean => Open
    BY Zenon DEF Begun, Clean, Open
  <2> QED
    BY <1>1, <1>4, <2>1, <2>2, BreakPrefixByte, Zenon
<1>5. CASE event.kind = "Reply"
  BY <1>5, ReplyByte
<1>6. CASE event.kind = "Make" /\ event.key.ext
  <2>1. tx = <<D!ExtendPrefix, c>>
    BY <1>1, <1>6 DEF EventOK
  <2>2. Head(tx) = D!ExtendPrefix /\ tx' = <<c>> /\ <<c>> # << >> /\ tx[1] = D!ExtendPrefix
    BY <1>1, <2>1, Tuples
  <2> QED
    BY <1>1, <1>2, <1>6, <2>2
<1>7. CASE event.kind = "Break" /\ event.key.ext
  <2>1. tx = <<D!ExtendPrefix, D!BreakPrefix, c>>
    BY <1>1, <1>7 DEF EventOK
  <2>2. Head(tx) = D!ExtendPrefix /\ tx' = <<D!BreakPrefix, c>> /\ tx' # << >> /\ tx[1] = D!ExtendPrefix
    BY <1>1, <2>1, Tuples
  <2> QED
    BY <1>1, <1>2, <1>7, <2>2
<1>8. CASE event.kind \notin {"Make", "Break", "Reply"}
  <2>1. \/ tx = <<D!ExtendPrefix, D!NoteFn, event.val, Velocity>>
        \/ tx = <<D!ExtendPrefix, D!NoteFn, D!BreakPrefix, event.val>>
        \/ tx = <<D!ExtendPrefix, D!ButtonFn, event.val>>
        \/ tx = <<D!ExtendPrefix, D!ButtonFn, D!BreakPrefix, event.val>>
    BY <1>1, <1>8 DEF EventOK
  <2>2. Head(tx) = D!ExtendPrefix /\ Tail(tx) # << >> /\ tx[1] = D!ExtendPrefix
    <3>1. CASE tx = <<D!ExtendPrefix, D!NoteFn, event.val, Velocity>>
      BY <3>1, MessageTuples
    <3>2. CASE tx = <<D!ExtendPrefix, D!NoteFn, D!BreakPrefix, event.val>>
      BY <3>2, MessageTuples
    <3>3. CASE tx = <<D!ExtendPrefix, D!ButtonFn, event.val>>
      BY <3>3, MessageTuples
    <3>4. CASE tx = <<D!ExtendPrefix, D!ButtonFn, D!BreakPrefix, event.val>>
      BY <3>4, MessageTuples
    <3> QED
      BY <2>1, <3>1, <3>2, <3>3, <3>4
  <2> QED
    BY <1>1, <1>2, <1>8, <2>2
<1> QED
  BY <1>3, <1>4, <1>5, <1>6, <1>7, <1>8

LEMMA PrefixedByte ==
  ASSUME IInv, DecodeByte, Prefixed, Undecided
  PROVE  StageOK' /\ BreaksOK' /\ FlagsOK'
<1> DEFINE c == event.key.code
<1>1. /\ EventOK /\ event.bytes[1] = D!ExtendPrefix /\ tx = Tail(event.bytes) /\ tx # << >>
      /\ Open /\ AtRest
  BY DEF IInv, Prefixed, AtRest
<1>2. CASE event.kind = "Make"
  <2>1. CASE event.key.ext
    <3>0. event.bytes = <<D!ExtendPrefix, c>>
      BY <1>1, <1>2, <2>1 DEF EventOK
    <3>1. tx = <<c>>
      BY <1>1, <3>0, Tuples
    <3>2. extend \in BOOLEAN /\ event.key.ext \in BOOLEAN
      BY <1>2, EventCodes DEF IInv, DecoderOK, D!TypeOK
    <3>3. (clean => ~release) /\ extend
      BY DEF Prefixed
    <3>4. extend => extend = event.key.ext
      BY <2>1, <3>2
    <3> QED
      BY <1>1, <1>2, <3>1, <3>3, <3>4, MakeByte, Zenon
  <2>2. CASE ~event.key.ext
    <3>1. tx = << >>
      BY <1>1, <1>2, <2>2, Tuples DEF EventOK
    <3> QED
      BY <1>1, <3>1
  <2> QED
    BY <2>1, <2>2
<1>3. CASE event.kind = "Break"
  <2>1. CASE event.key.ext
    <3>0. event.bytes = <<D!ExtendPrefix, D!BreakPrefix, c>>
      BY <1>1, <1>3, <2>1 DEF EventOK
    <3>1. tx = <<D!BreakPrefix, c>>
      BY <1>1, <3>0, Tuples
    <3> QED
      BY <1>1, <1>3, <3>1, BreakPrefixByte, Zenon
  <2>2. CASE ~event.key.ext
    <3>1. event.bytes = <<D!BreakPrefix, c>>
      BY <1>1, <1>3, <2>2 DEF EventOK
    <3> QED
      BY <1>1, <3>1
  <2> QED
    BY <2>1, <2>2
<1>4. CASE event.kind = "Reply"
  <2>1. tx = << >>
    BY <1>1, <1>4, Tuples DEF EventOK
  <2> QED
    BY <1>1, <2>1
<1>5. CASE event.kind \notin {"Make", "Break", "Reply"}
  BY <1>5, FunctionByte
<1> QED
  BY <1>2, <1>3, <1>4, <1>5

LEMMA DecodeStep ==
  ASSUME IInv, DecodeByte
  PROVE  IInv'
<1>1. tx # << >> /\ DecoderOK' /\ KeyboardOK' /\ EventOK'
  BY ByteFrame
<1>2. Begun \/ Underway
  BY <1>1 DEF IInv, StageOK, Ended
<1>3. StageOK' /\ BreaksOK' /\ FlagsOK'
  BY <1>2, BegunByte, PrefixedByte, KeyUpByte, MessageByte DEF Underway
<1> QED
  BY <1>1, <1>3 DEF IInv

-----------------------------------------------------------------------------
(* What the byte of an event can be reported as.  Only the last byte calls  *)
(* back with anything but a stray function button, a typing key only with   *)
(* its own code, and its release, unless derailed, with a release.          *)

KeyCalls  == {"KeyPress", "KeyRelease"}
MidiCalls == {"MidiPress", "MidiRelease"}
Stray     == call'.cb = "FuncPress" /\ call'.code = D!ExtendPrefix

Outcome ==
    /\ tx' # << >> => Silent \/ Stray
    /\ call'.cb \in KeyCalls =>
            /\ event.kind \in {"Make", "Break"} /\ event.key \in Keys
            /\ call'.code = event.key.code
            /\ event.kind = "Break" => call'.cb = "KeyRelease" /\ call'.ext = FALSE
    /\ event.kind = "Break" /\ event.key \in Keys /\ tx' = << >> /\ ~derailed' => call'.cb = "KeyRelease"
    /\ call'.cb \in MidiCalls => event.kind \in {"NoteOn", "NoteOff"} /\ <<call'>> = Expected(event)
    /\ event.kind = "NoteOff" /\ tx' = << >> => call'.cb = "MidiRelease"

LEMMA SilentOutcome ==
  ASSUME Silent,
         tx' = << >> => event.kind # "NoteOff" /\ ~(event.kind = "Break" /\ event.key \in Keys /\ ~derailed')
  PROVE  Outcome
<1>1. call'.cb \notin KeyCalls \cup MidiCalls
  BY DEF Silent, D!NoCall, KeyCalls, MidiCalls
<1> QED
  BY <1>1 DEF Outcome

LEMMA ButtonOutcome ==
  ASSUME call'.cb \in {"FuncPress", "FuncRelease", "PitchBend"}, tx' = << >> \/ Stray,
         tx' = << >> => event.kind # "NoteOff" /\ ~(event.kind = "Break" /\ event.key \in Keys /\ ~derailed')
  PROVE  Outcome
<1>1. call'.cb \notin KeyCalls \cup MidiCalls
  BY DEF KeyCalls, MidiCalls
<1> QED
  BY <1>1 DEF Outcome

(* E0 at the start of an event: a waiting decoder takes it for a button.    *)
LEMMA PrefixOutcome ==
  ASSUME IInv, DecodeByte, AtRest, Head(tx) = D!ExtendPrefix, tx' # << >>
  PROVE  Outcome
<1>1. D!Receive(D!ExtendPrefix) /\ installed = 7
  BY ByteFrame
<1>2. CASE Open
  BY <1>1, <1>2, ExtendReceived, SilentOutcome
<1>3. CASE Waiting
  <2>1. Reading(D!ButtonFn, 0) /\ D!ExtendPrefix # D!BreakPrefix /\ D!ExtendPrefix \notin D!WheelCodes
    BY <1>3 DEF Waiting, D!WheelCodes
  <2>2. call' = D!Callback("FuncPress", D!ExtendPrefix, FALSE, D!Extra)
    BY <1>1, <2>1, ButtonPressed
  <2>3. call'.cb = "FuncPress" /\ Stray
    BY <2>2 DEF Stray
  <2> QED
    BY <2>3, ButtonOutcome
<1> QED
  BY <1>2, <1>3 DEF AtRest

LEMMA MakeOutcome ==
  ASSUME IInv, DecodeByte, AtRest, event.kind = "Make", tx = <<event.key.code>>
  PROVE  Outcome
<1> DEFINE c == event.key.code
<1>1. D!Receive(c) /\ Head(tx) = c /\ tx' = << >> /\ installed = 7
  BY ByteFrame, Tuples
<1>2. CASE Waiting
  <2>1. c # D!BreakPrefix /\ Reading(D!ButtonFn, 0)
    BY <1>2, EventCodes DEF Waiting
  <2>2. call'.cb \in {"FuncPress", "PitchBend"}
    <3>1. call' = IF c \in D!WheelCodes THEN D!Callback("PitchBend", D!WheelPitch(c), FALSE, 0)
                                        ELSE D!Callback("FuncPress", c, FALSE, D!Extra)
      BY <1>1, <2>1, ButtonPressed
    <3> QED
      BY <3>1
  <2> QED
    BY <1>1, <2>2, ButtonOutcome
<1>3. CASE Open /\ event.key \notin Keys
  <2>1. c \in ModifierCodes
    BY <1>3, EventCodes
  <2>2. Silent
    BY <1>1, <1>3, <2>1, ModifierReceived
  <2> QED
    BY <1>1, <2>2, SilentOutcome
<1>4. CASE Open /\ event.key \in Keys /\ ~(extend /\ c = D!ButtonFn)
  <2>1. c \in D!KeyCodes /\ ~(extend /\ c \in {D!ButtonFn, D!NoteFn})
    BY <1>4, EventCodes
  <2>2. call' = IF release THEN D!Callback("KeyRelease", c, extend, 0)
                           ELSE D!Callback("KeyPress", c, extend, D!Extra)
    BY <1>1, <1>4, <2>1, KeyReceived
  <2>3. call'.cb \in KeyCalls /\ call'.cb \notin MidiCalls /\ call'.code = c
    BY <2>2 DEF KeyCalls, MidiCalls
  <2> QED
    BY <1>1, <1>4, <2>3 DEF Outcome
<1>5. CASE Open /\ event.key \in Keys /\ extend /\ c = D!ButtonFn
  BY <1>1, <1>5, MessageBegun, SilentOutcome
<1> QED
  BY <1>2, <1>3, <1>4, <1>5 DEF AtRest

LEMMA BreakPrefixOutcome ==
  ASSUME IInv, DecodeByte, AtRest, tx = <<D!BreakPrefix, event.key.code>>
  PROVE  Outcome
<1>1. D!Receive(D!BreakPrefix) /\ tx' # << >>
  <2>1. Head(tx) = D!BreakPrefix /\ Tail(tx) = <<event.key.code>> /\ <<event.key.code>> # << >>
    BY Tuples
  <2> QED
    BY <2>1, ByteFrame
<1>2. CASE Open
  BY <1>1, <1>2, BreakReceived, SilentOutcome
<1>3. CASE Waiting
  <2>1. Reading(D!ButtonFn, 0)
    BY <1>3 DEF Waiting
  <2> QED
    BY <1>1, <2>1, BreakInMessage, SilentOutcome
<1> QED
  BY <1>2, <1>3 DEF AtRest

LEMMA KeyUpOutcome ==
  ASSUME IInv, DecodeByte, KeyRising
  PROVE  Outcome
<1> DEFINE c == event.key.code
<1>1. /\ D!Receive(c) /\ Head(tx) = c /\ tx' = << >> /\ installed = 7
      /\ (derailed => derailed') /\ event.kind = "Break" /\ release
  BY ByteFrame, Tuples DEF KeyRising
<1>2. CASE ~Open
  <2>1. Reading(D!ButtonFn, 1) /\ derailed
    BY <1>2 DEF KeyRising
  <2>2. call' = D!Callback("FuncRelease", c, FALSE, 0)
    BY <1>1, <2>1, ButtonReleased
  <2>3. call'.cb = "FuncRelease"
    BY <2>2
  <2> QED
    BY <1>1, <2>1, <2>3, ButtonOutcome
<1>3. CASE Open /\ event.key \notin Keys
  <2>1. c \in ModifierCodes
    BY <1>1, <1>3, EventCodes
  <2>2. Silent
    BY <1>1, <1>3, <2>1, ModifierReceived
  <2> QED
    BY <1>1, <1>3, <2>2, SilentOutcome
<1>4. CASE Open /\ event.key \in Keys
  <2>1. c \in D!KeyCodes /\ ~extend /\ extend \in BOOLEAN
    BY <1>1, <1>4, EventCodes DEF KeyRising, Open, Reading, IInv, DecoderOK, D!TypeOK
  <2>2. call' = IF release THEN D!Callback("KeyRelease", c, extend, 0)
                           ELSE D!Callback("KeyPress", c, extend, D!Extra)
    BY <1>1, <1>4, <2>1, KeyReceived
  <2>3. call'.cb = "KeyRelease" /\ call'.code = c /\ call'.ext = FALSE
    BY <1>1, <2>1, <2>2
  <2>4. call'.cb \notin MidiCalls
    BY <2>3 DEF MidiCalls
  <2> QED
    BY <1>1, <1>4, <2>3, <2>4 DEF Outcome
<1> QED
  BY <1>2, <1>3, <1>4

LEMMA ReplyOutcome ==
  ASSUME IInv, DecodeByte, Begun, event.kind = "Reply"
  PROVE  Outcome
<1> DEFINE v == event.val
<1>1. event.bytes = <<v>> /\ v \in {D!Ack, D!SelfTestOk, D!Resend}
  BY DEF IInv, EventOK
<1>2. D!Receive(v) /\ Head(tx) = v /\ tx' = << >> /\ installed = 7
  BY <1>1, ByteFrame, Tuples DEF Begun
<1>3. CASE Open
  BY <1>1, <1>2, <1>3, AnswerReceived, SilentOutcome
<1>4. CASE Waiting
  <2>1. v # D!BreakPrefix /\ Reading(D!ButtonFn, 0)
    BY <1>1, <1>4 DEF Waiting
  <2>2. call' = IF v \in D!WheelCodes THEN D!Callback("PitchBend", D!WheelPitch(v), FALSE, 0)
                                      ELSE D!Callback("FuncPress", v, FALSE, D!Extra)
    BY <1>2, <2>1, ButtonPressed
  <2>3. call'.cb \in {"FuncPress", "PitchBend"}
    BY <2>2
  <2> QED
    BY <1>2, <2>3, ButtonOutcome
<1> QED
  BY <1>3, <1>4 DEF Begun, AtRest

LEMMA FunctionOutcome ==
  ASSUME IInv, DecodeByte, Prefixed, event.kind \notin {"Make", "Break", "Reply"}
  PROVE  Outcome
<1> DEFINE v == event.val
<1>1. /\ EventOK /\ tx = Tail(event.bytes) /\ tx' = Tail(tx) /\ Open /\ extend /\ D!Receive(Head(tx))
  BY ByteFrame DEF IInv, Prefixed
<1>2. \/ event.bytes = <<D!ExtendPrefix, D!NoteFn, v, Velocity>>
      \/ event.bytes = <<D!ExtendPrefix, D!NoteFn, D!BreakPrefix, v>>
      \/ event.bytes = <<D!ExtendPrefix, D!ButtonFn, v>>
      \/ event.bytes = <<D!ExtendPrefix, D!ButtonFn, D!BreakPrefix, v>>
  BY <1>1 DEF EventOK
<1>3. Head(tx) \in {D!ButtonFn, D!NoteFn} /\ tx' # << >>
  <2>1. CASE event.bytes = <<D!ExtendPrefix, D!NoteFn, v, Velocity>>
    <3>1. Head(tx) = D!NoteFn /\ tx' = <<v, Velocity>> /\ <<v, Velocity>> # << >>
      BY <1>1, <2>1, Tuples
    <3> QED
      BY <3>1
  <2>2. CASE event.bytes = <<D!ExtendPrefix, D!NoteFn, D!BreakPrefix, v>>
    <3>1. Head(tx) = D!NoteFn /\ tx' = <<D!BreakPrefix, v>> /\ <<D!BreakPrefix, v>> # << >>
      BY <1>1, <2>2, Tuples
    <3> QED
      BY <3>1
  <2>3. CASE event.bytes = <<D!ExtendPrefix, D!ButtonFn, v>>
    <3>1. Head(tx) = D!ButtonFn /\ tx' = <<v>> /\ <<v>> # << >>
      BY <1>1, <2>3, Tuples
    <3> QED
      BY <3>1
  <2>4. CASE event.bytes = <<D!ExtendPrefix, D!ButtonFn, D!BreakPrefix, v>>
    <3>1. Head(tx) = D!ButtonFn /\ tx' = <<D!BreakPrefix, v>> /\ <<D!BreakPrefix, v>> # << >>
      BY <1>1, <2>4, Tuples
    <3> QED
      BY <3>1
  <2> QED
    BY <1>2, <2>1, <2>2, <2>3, <2>4
<1>4. Silent
  BY <1>1, <1>3, MessageBegun
<1> QED
  BY <1>3, <1>4, SilentOutcome

LEMMA MessageOutcome ==
  ASSUME IInv, DecodeByte, InMessage
  PROVE  Outcome
<1> DEFINE v == event.val
           b == Head(tx)
<1>1. D!Receive(b) /\ tx' = Tail(tx) /\ installed = 7
  BY ByteFrame
<1>2. CASE event.kind = "NoteOn" /\ tx = <<v, Velocity>> /\ Reading(D!NoteFn, 0)
  <2>1. b = v /\ tx' # << >> /\ v # D!BreakPrefix
    BY <1>1, <1>2, Tuples, EventCodes
  <2> QED
    BY <1>1, <1>2, <2>1, NoteNumber, SilentOutcome
<1>3. CASE event.kind = "NoteOn" /\ tx = <<Velocity>> /\ Reading(D!NoteFn, 1) /\ ~release /\ prodKey = v
  <2>1. b = Velocity /\ tx' = << >>
    BY <1>1, <1>3, Tuples
  <2>2. call' = D!Callback("MidiPress", v, FALSE, Velocity)
    BY <1>1, <1>3, <2>1, NoteEnd
  <2>3. call'.cb = "MidiPress" /\ <<call'>> = Expected(event)
    BY <1>3, <2>2 DEF Expected
  <2> QED
    BY <1>3, <2>1, <2>3 DEF Outcome, KeyCalls
<1>4. CASE tx = <<D!BreakPrefix, v>> /\ \E fn \in {D!ButtonFn, D!NoteFn} : Reading(fn, 0)
  <2>1. b = D!BreakPrefix /\ tx' # << >>
    BY <1>1, <1>4, Tuples
  <2>2. Silent
    BY <1>1, <1>4, <2>1, BreakInMessage
  <2> QED
    BY <2>1, <2>2, SilentOutcome
<1>5. CASE event.kind = "NoteOff" /\ tx = <<v>> /\ Reading(D!NoteFn, 1) /\ release
  <2>1. b = v /\ tx' = << >>
    BY <1>1, <1>5, Tuples
  <2>2. call' = D!Callback("MidiRelease", v, FALSE, 0)
    BY <1>1, <1>5, <2>1, NoteEnd
  <2>3. call'.cb = "MidiRelease" /\ <<call'>> = Expected(event)
    BY <1>5, <2>2 DEF Expected
  <2> QED
    BY <1>5, <2>1, <2>3 DEF Outcome, KeyCalls
<1>6. CASE event.kind \in {"FuncDown", "Wheel"} /\ tx = <<v>> /\ Reading(D!ButtonFn, 0)
  <2>1. b = v /\ tx' = << >> /\ v # D!BreakPrefix
    BY <1>1, <1>6, Tuples, EventCodes
  <2>2. call' = IF v \in D!WheelCodes THEN D!Callback("PitchBend", D!WheelPitch(v), FALSE, 0)
                                      ELSE D!Callback("FuncPress", v, FALSE, D!Extra)
    BY <1>1, <1>6, <2>1, ButtonPressed
  <2>3. call'.cb \in {"PitchBend", "FuncPress"}
    BY <2>2
  <2> QED
    BY <1>6, <2>1, <2>3, ButtonOutcome
<1>7. CASE event.kind = "FuncUp" /\ tx = <<v>> /\ Reading(D!ButtonFn, 1) /\ release
  <2>1. b = v /\ tx' = << >>
    BY <1>1, <1>7, Tuples
  <2>2. call' = D!Callback("FuncRelease", v, FALSE, 0)
    BY <1>1, <1>7, <2>1, ButtonReleased
  <2>3. call'.cb = "FuncRelease"
    BY <2>2
  <2> QED
    BY <1>7, <2>1, <2>3, ButtonOutcome
<1> QED
  BY <1>2, <1>3, <1>4, <1>5, <1>6, <1>7 DEF InMessage

LEMMA ByteOutcome ==
  ASSUME IInv, DecodeByte
  PROVE  Outcome
<1> DEFINE c == event.key.code
<1>1. EventOK /\ tx # << >> /\ tx' = Tail(tx)
  BY ByteFrame DEF IInv
<1>2. Begun \/ Prefixed \/ KeyRising \/ InMessage
  BY <1>1 DEF IInv, StageOK, Underway, Ended
<1>3. CASE Begun
  <2>1. tx = event.bytes /\ AtRest
    BY <1>3 DEF Begun
  <2>2. CASE event.kind = "Make" /\ ~event.key.ext
    BY <1>1, <2>1, <2>2, MakeOutcome DEF EventOK
  <2>3. CASE event.kind = "Break" /\ ~event.key.ext
    BY <1>1, <2>1, <2>3, BreakPrefixOutcome DEF EventOK
  <2>4. CASE event.kind = "Reply"
    BY <1>3, <2>4, ReplyOutcome
  <2>5. CASE event.kind # "Reply" /\ (event.kind \in {"Make", "Break"} => event.key.ext)
    <3>1. \/ tx = <<D!ExtendPrefix, c>>
          \/ tx = <<D!ExtendPrefix, D!BreakPrefix, c>>
          \/ tx = <<D!ExtendPrefix, D!NoteFn, event.val, Velocity>>
          \/ tx = <<D!ExtendPrefix, D!NoteFn, D!BreakPrefix, event.val>>
          \/ tx = <<D!ExtendPrefix, D!ButtonFn, event.val>>
          \/ tx = <<D!ExtendPrefix, D!ButtonFn, D!BreakPrefix, event.val>>
      BY <1>1, <2>1, <2>5 DEF EventOK
    <3>2. Head(tx) = D!ExtendPrefix /\ Tail(tx) # << >>
      <4>1. CASE tx = <<D!ExtendPrefix, c>>
        <5>1. Tail(tx) = <<c>> /\ <<c>> # << >> /\ Head(tx) = D!ExtendPrefix
          BY <4>1, Tuples
        <5> QED
          BY <5>1
      <4>2. CASE tx = <<D!ExtendPrefix, D!BreakPrefix, c>>
        BY <4>2, MessageTuples
      <4>3. CASE tx = <<D!ExtendPrefix, D!NoteFn, event.val, Velocity>>
        BY <4>3, MessageTuples
      <4>4. CASE tx = <<D!ExtendPrefix, D!NoteFn, D!BreakPrefix, event.val>>
        BY <4>4, MessageTuples
      <4>5. CASE tx = <<D!ExtendPrefix, D!ButtonFn, event.val>>
        BY <4>5, MessageTuples
      <4>6. CASE tx = <<D!ExtendPrefix, D!ButtonFn, D!BreakPrefix, event.val>>
        BY <4>6, MessageTuples
      <4> QED
        BY <3>1, <4>1, <4>2, <4>3, <4>4, <4>5, <4>6
    <3> QED
      BY <1>1, <2>1, <3>2, PrefixOutcome
  <2> QED
    BY <2>2, <2>3, <2>4, <2>5
<1>4. CASE Prefixed
  <2>1. tx = Tail(event.bytes) /\ AtRest /\ event.bytes[1] = D!ExtendPrefix
    BY <1>4 DEF Prefixed, AtRest
  <2>2. CASE event.kind = "Make" /\ event.key.ext
    <3>1. event.bytes = <<D!ExtendPrefix, c>>
      BY <1>1, <2>2 DEF EventOK
    <3>2. tx = <<c>>
      BY <2>1, <3>1, Tuples
    <3> QED
      BY <2>1, <2>2, <3>2, MakeOutcome
  <2>3. CASE event.kind = "Break" /\ event.key.ext
    <3>1. event.bytes = <<D!ExtendPrefix, D!BreakPrefix, c>>
      BY <1>1, <2>3 DEF EventOK
    <3>2. tx = <<D!BreakPrefix, c>>
      BY <2>1, <3>1, Tuples
    <3> QED
      BY <2>1, <3>2, BreakPrefixOutcome
  <2>4. CASE event.kind = "Break" /\ ~event.key.ext
    <3>1. event.bytes = <<D!BreakPrefix, c>>
      BY <1>1, <2>4 DEF EventOK
    <3> QED
      BY <2>1, <3>1
  <2>5. CASE event.kind = "Reply" \/ (event.kind = "Make" /\ ~event.key.ext)
    <3>1. tx = << >>
      BY <1>1, <2>1, <2>5, Tuples DEF EventOK
    <3> QED
      BY <1>1, <3>1
  <2>6. CASE event.kind \notin {"Make", "Break", "Reply"}
    BY <1>4, <2>6, FunctionOutcome
  <2> QED
    BY <2>2, <2>3, <2>4, <2>5, <2>6
<1> QED
  BY <1>2, <1>3, <1>4, KeyUpOutcome, MessageOutcome

-----------------------------------------------------------------------------
(* The beginning of an event.                                               *)

HIDE DEF D!BreakPrefix, D!ExtendPrefix, D!Ack, D!SelfTestOk, D!SelfTestBad, D!Resend,
         D!ShiftCodes, D!AltCode, D!CtrlCode, D!CapsCode, D!ButtonFn, D!NoteFn, WireBytes,
         D!Callback, D!Error

LEMMA Between ==
  ASSUME IInv, tx = << >>
  PROVE  AtRest /\ \A codes : Backed(codes) <=> Holding(codes)
<1>1. \A x, y : <<x>> # << >> /\ <<x, y>> # << >>
  BY Tuples
<1>2. ~KeyRising /\ ~InMessage /\ ~Prefixed /\ ~Begun
  BY <1>1 DEF KeyRising, InMessage, Prefixed, Begun
<1> QED
  BY <1>2 DEF IInv, StageOK, Underway, Ended, Backed, Releasing

(* What Begin does with any event whose bytes and keys fit.                 *)
LEMMA BeginStep ==
  ASSUME IInv, NEW e, Begin(e), EventOK',
         e.bytes \in Seq(WireBytes), e.bytes # << >>,
         held' \subseteq Keys \cup Modifiers, notes' \subseteq Notes, buttons' \subseteq Buttons,
         \A codes : Holding(codes) => Backed(codes)'
  PROVE  IInv'
<1>1. /\ tx = << >> /\ event' = e /\ tx' = e.bytes /\ heard' = << >> /\ clean' = Clean /\ derailed' = derailed
      /\ breaks' = CASE e.kind = "Break" /\ e.key \in Keys -> IF breaks = 2 THEN 2 ELSE breaks + 1
                     [] e.kind = "Reply" -> breaks
                     [] OTHER -> 0
      /\ call' = D!NoCall
      /\ UNCHANGED <<shift, ctrl, alt, capsLock, extend, release, prodFn, prodPos, prodKey, ackByteOk, installed>>
  BY Zenon DEF Begin, decoder
<1>2. AtRest
  BY <1>1, Between
<1>3. DecoderOK'
  <2>1. D!NoCall \in D!Calls /\ D!NoCall.cb = "None"
    BY DEF D!NoCall, D!Calls, D!Callback
  <2> QED
    BY <1>1, <2>1 DEF IInv, DecoderOK, D!TypeOK, D!MessageInFlight, D!NoFlowError, D!Error, D!Callback
<1>4. KeyboardOK'
  <2>1. clean' \in BOOLEAN /\ derailed' \in BOOLEAN
    BY <1>1 DEF Clean, IInv, KeyboardOK
  <2>2. breaks' \in 0..2
    BY <1>1 DEF IInv, KeyboardOK
  <2>3. heard' \in Seq(D!Calls) /\ Len(heard') = 0
    BY <1>1
  <2>4. tx' \in Seq(WireBytes) /\ Len(tx') \in Nat /\ Len(event'.bytes) = Len(tx')
    BY <1>1
  <2>5. Len(heard') + Len(tx') <= Len(event'.bytes)
    BY <2>3, <2>4
  <2> QED
    BY <2>1, <2>2, <2>3, <2>4, <2>5 DEF KeyboardOK
<1>5. StageOK'
  <2>1. AtRest'
    BY <1>1, <1>2, Zenon DEF AtRest, Waiting, Reading, Open
  <2>2. clean' => Clean'
    BY <1>1, Zenon DEF Clean
  <2>3. tx' = event'.bytes /\ tx' # << >> /\ heard' = << >>
    BY <1>1
  <2> QED
    BY <2>1, <2>2, <2>3 DEF StageOK, Begun
<1>6. BreaksOK'
  <2>1. breaks \in 0..2 /\ (breaks # 0 => Open) /\ (breaks = 2 => Clean)
    BY <1>1 DEF IInv, KeyboardOK, BreaksOK
  <2>2. (Open => Open') /\ (Clean => Clean')
    BY <1>1, Zenon DEF Open, Clean
  <2>3. CASE e.kind = "Break" /\ e.key \in Keys
    BY <1>1, <2>1, <2>2, <2>3 DEF BreaksOK
  <2>4. CASE e.kind = "Reply"
    BY <1>1, <2>1, <2>2, <2>4 DEF BreaksOK
  <2>5. CASE ~(e.kind = "Break" /\ e.key \in Keys) /\ e.kind # "Reply"
    <3>1. breaks' = 0
      BY <1>1, <2>5
    <3> QED
      BY <3>1 DEF BreaksOK
  <2> QED
    BY <2>3, <2>4, <2>5
<1>7. FlagsOK'
  <2>1. \A codes : Backed(codes) => Backed(codes)'
    BY <1>1, Between
  <2> QED
    BY <1>1, <2>1, Zenon DEF IInv, FlagsOK
<1> QED
  BY <1>3, <1>4, <1>5, <1>6, <1>7 DEF IInv

LEMMA KeyStep ==
  ASSUME IInv, Make \/ Break
  PROVE  IInv'
<1>1. CASE Make
  <2>1. PICK k \in Keys \cup Modifiers :
          /\ Begin(KeyEvent("Make", k)) /\ held' = held \cup {k} /\ UNCHANGED <<notes, buttons>>
    BY <1>1, Zenon DEF Make
  <2> DEFINE e == KeyEvent("Make", k)
  <2>2. /\ e.kind = "Make" /\ e.key = k /\ e.bytes \in Seq(WireBytes) /\ e.bytes # << >>
        /\ e.bytes = IF k.ext THEN <<D!ExtendPrefix, k.code>> ELSE <<k.code>>
    BY KeyEventBytes
  <2>3. Begin(e) /\ event' = e
    BY <2>1 DEF Begin
  <2> HIDE DEF e
  <2>4. EventOK'
    BY <2>1, <2>2, <2>3 DEF EventOK
  <2>5. \A codes : Holding(codes) => Backed(codes)'
    BY <2>1 DEF Holding, Backed
  <2>6. held' \subseteq Keys \cup Modifiers /\ notes' \subseteq Notes /\ buttons' \subseteq Buttons
    BY <2>1 DEF IInv, KeyboardOK
  <2> QED
    BY <2>2, <2>3, <2>4, <2>5, <2>6, BeginStep
<1>2. CASE Break
  <2>1. PICK k \in held :
          /\ Begin(KeyEvent("Break", k)) /\ held' = held \ {k} /\ UNCHANGED <<notes, buttons>>
    BY <1>2, Zenon DEF Break
  <2> DEFINE e == KeyEvent("Break", k)
  <2>2. k \in Keys \cup Modifiers
    BY DEF IInv, KeyboardOK
  <2>3. /\ e.kind = "Break" /\ e.key = k /\ e.bytes \in Seq(WireBytes) /\ e.bytes # << >>
        /\ e.bytes = IF k.ext THEN <<D!ExtendPrefix, D!BreakPrefix, k.code>> ELSE <<D!BreakPrefix, k.code>>
    BY <2>2, KeyEventBytes
  <2>4. Begin(e) /\ event' = e /\ tx' = e.bytes
    BY <2>1 DEF Begin
  <2> HIDE DEF e
  <2>5. EventOK'
    BY <2>2, <2>3, <2>4 DEF EventOK
  <2>6. \A codes : Holding(codes) => Backed(codes)'
    BY <2>1, <2>3, <2>4 DEF Holding, Backed, Releasing
  <2>7. held' \subseteq Keys \cup Modifiers /\ notes' \subseteq Notes /\ buttons' \subseteq Buttons
    BY <2>1 DEF IInv, KeyboardOK
  <2> QED
    BY <2>3, <2>4, <2>5, <2>6, <2>7, BeginStep
<1> QED
  BY <1>1, <1>2

(* The other events leave the keys alone.                                   *)
LEMMA OtherStep ==
  ASSUME IInv, NEW e, Begin(e), UNCHANGED held, notes' \subseteq Notes, buttons' \subseteq Buttons,
         e.bytes \in Seq(WireBytes), e.bytes # << >>,
         LET v == e.val IN
         \/ e.kind = "NoteOn" /\ v \in Notes /\ e.bytes = <<D!ExtendPrefix, D!NoteFn, v, Velocity>>
         \/ e.kind = "NoteOff" /\ v \in Notes /\ e.bytes = <<D!ExtendPrefix, D!NoteFn, D!BreakPrefix, v>>
         \/ e.kind = "FuncDown" /\ v \in Buttons /\ e.bytes = <<D!ExtendPrefix, D!ButtonFn, v>>
         \/ e.kind = "FuncUp" /\ v \in Buttons /\ e.bytes = <<D!ExtendPrefix, D!ButtonFn, D!BreakPrefix, v>>
         \/ e.kind = "Wheel" /\ v \in Wheel /\ e.bytes = <<D!ExtendPrefix, D!ButtonFn, v>>
         \/ e.kind = "Reply" /\ v \in {D!Ack, D!SelfTestOk, D!Resend} /\ e.bytes = <<v>>
  PROVE  IInv'
<1>1. event' = e
  BY DEF Begin
<1>2. EventOK'
  BY <1>1 DEF EventOK
<1>3. \A codes : Holding(codes) => Backed(codes)'
  BY DEF Holding, Backed
<1>4. held' \subseteq Keys \cup Modifiers
  BY DEF IInv, KeyboardOK
<1> QED
  BY <1>2, <1>3, <1>4, BeginStep

LEMMA MessageStep ==
  ASSUME IInv, NoteOn \/ NoteOff \/ ButtonDown \/ ButtonUp \/ TurnWheel
  PROVE  IInv'
<1>1. /\ D!NoteFn \in WireBytes /\ D!ButtonFn \in WireBytes /\ D!BreakPrefix \in WireBytes
      /\ Velocity \in WireBytes
      /\ Notes \subseteq WireBytes /\ Buttons \subseteq WireBytes /\ Wheel \subseteq WireBytes
      /\ D!ExtendPrefix \in WireBytes /\ notes \subseteq Notes /\ buttons \subseteq Buttons
  BY StreamAssumption DEF D!WheelCodes, D!NoteFn, D!ButtonFn, D!BreakPrefix, D!ExtendPrefix, WireBytes,
                          IInv, KeyboardOK
<1>2. CASE NoteOn
  <2>1. PICK n \in Notes \ notes :
          /\ Begin(MessageEvent("NoteOn", n, <<D!NoteFn, n, Velocity>>))
          /\ notes' = notes \cup {n} /\ UNCHANGED <<held, buttons>>
    BY <1>2, Zenon DEF NoteOn
  <2> DEFINE s == <<D!NoteFn, n, Velocity>>
             t == <<D!ExtendPrefix, D!NoteFn, n, Velocity>>
             e == MessageEvent("NoteOn", n, s)
  <2>2. n \in Notes /\ n \in WireBytes
    BY <1>1, <2>1
  <2>3. /\ s \in Seq(WireBytes) /\ t \in Seq(WireBytes)
        /\ Len(t) = Len(s) + 1 /\ t[1] = D!ExtendPrefix
    BY <1>1, <2>2
  <2>4. \A i \in 1..Len(s) : t[i + 1] = s[i]
    OBVIOUS
  <2> HIDE DEF s, t
  <2>5. e.kind = "NoteOn" /\ e.val = n /\ e.bytes = t /\ t # << >>
    BY <2>3, <2>4, MessageBytes
  <2>6. Begin(e) /\ UNCHANGED held /\ notes' \subseteq Notes /\ buttons' \subseteq Buttons
    BY <1>1, <2>1, <2>2 DEF s
  <2> HIDE DEF e
  <2>7. e.bytes = <<D!ExtendPrefix, D!NoteFn, n, Velocity>>
    BY <2>5, Zenon DEF t
  <2> QED
    BY <2>2, <2>3, <2>5, <2>6, <2>7, OtherStep
<1>3. CASE NoteOff
  <2>1. PICK n \in notes :
          /\ Begin(MessageEvent("NoteOff", n, <<D!NoteFn, D!BreakPrefix, n>>))
          /\ notes' = notes \ {n} /\ UNCHANGED <<held, buttons>>
    BY <1>3, Zenon DEF NoteOff
  <2> DEFINE s == <<D!NoteFn, D!BreakPrefix, n>>
             t == <<D!ExtendPrefix, D!NoteFn, D!BreakPrefix, n>>
             e == MessageEvent("NoteOff", n, s)
  <2>2. n \in Notes /\ n \in WireBytes
    BY <1>1, <2>1
  <2>3. /\ s \in Seq(WireBytes) /\ t \in Seq(WireBytes)
        /\ Len(t) = Len(s) + 1 /\ t[1] = D!ExtendPrefix
    BY <1>1, <2>2
  <2>4. \A i \in 1..Len(s) : t[i + 1] = s[i]
    OBVIOUS
  <2> HIDE DEF s, t
  <2>5. e.kind = "NoteOff" /\ e.val = n /\ e.bytes = t /\ t # << >>
    BY <2>3, <2>4, MessageBytes
  <2>6. Begin(e) /\ UNCHANGED held /\ notes' \subseteq Notes /\ buttons' \subseteq Buttons
    BY <1>1, <2>1, <2>2 DEF s
  <2> HIDE DEF e
  <2>7. e.bytes = <<D!ExtendPrefix, D!NoteFn, D!BreakPrefix, n>>
    BY <2>5, Zenon DEF t
  <2> QED
    BY <2>2, <2>3, <2>5, <2>6, <2>7, OtherStep
<1>4. CASE ButtonDown
  <2>1. PICK f \in Buttons \ buttons :
          /\ Begin(MessageEvent("FuncDown", f, <<D!ButtonFn, f>>))
          /\ buttons' = buttons \cup {f} /\ UNCHANGED <<held, notes>>
    BY <1>4, Zenon DEF ButtonDown
  <2> DEFINE s == <<D!ButtonFn, f>>
             t == <<D!ExtendPrefix, D!ButtonFn, f>>
             e == MessageEvent("FuncDown", f, s)
  <2>2. f \in Buttons /\ f \in WireBytes
    BY <1>1, <2>1
  <2>3. /\ s \in Seq(WireBytes) /\ t \in Seq(WireBytes)
        /\ Len(t) = Len(s) + 1 /\ t[1] = D!ExtendPrefix
    BY <1>1, <2>2
  <2>4. \A i \in 1..Len(s) : t[i + 1] = s[i]
    OBVIOUS
  <2> HIDE DEF s, t
  <2>5. e.kind = "FuncDown" /\ e.val = f /\ e.bytes = t /\ t # << >>
    BY <2>3, <2>4, MessageBytes
  <2>6. Begin(e) /\ UNCHANGED held /\ notes' \subseteq Notes /\ buttons' \subseteq Buttons
    BY <1>1, <2>1, <2>2 DEF s
  <2> HIDE DEF e
  <2>7. e.bytes = <<D!ExtendPrefix, D!ButtonFn, f>>
    BY <2>5, Zenon DEF t
  <2> QED
    BY <2>2, <2>3, <2>5, <2>6, <2>7, OtherStep
<1>5. CASE ButtonUp
  <2>1. PICK f \in buttons :
          /\ Begin(MessageEvent("FuncUp", f, <<D!ButtonFn, D!BreakPrefix, f>>))
          /\ buttons' = buttons \ {f} /\ UNCHANGED <<held, notes>>
    BY <1>5, Zenon DEF ButtonUp
  <2> DEFINE s == <<D!ButtonFn, D!BreakPrefix, f>>
             t == <<D!ExtendPrefix, D!ButtonFn, D!BreakPrefix, f>>
             e == MessageEvent("FuncUp", f, s)
  <2>2. f \in Buttons /\ f \in WireBytes
    BY <1>1, <2>1
  <2>3. /\ s \in Seq(WireBytes) /\ t \in Seq(WireBytes)
        /\ Len(t) = Len(s) + 1 /\ t[1] = D!ExtendPrefix
    BY <1>1, <2>2
  <2>4. \A i \in 1..Len(s) : t[i + 1] = s[i]
    OBVIOUS
  <2> HIDE DEF s, t
  <2>5. e.kind = "FuncUp" /\ e.val = f /\ e.bytes = t /\ t # << >>
    BY <2>3, <2>4, MessageBytes
  <2>6. Begin(e) /\ UNCHANGED held /\ notes' \subseteq Notes /\ buttons' \subseteq Buttons
    BY <1>1, <2>1, <2>2 DEF s
  <2> HIDE DEF e
  <2>7. e.bytes = <<D!ExtendPrefix, D!ButtonFn, D!BreakPrefix, f>>
    BY <2>5, Zenon DEF t
  <2> QED
    BY <2>2, <2>3, <2>5, <2>6, <2>7, OtherStep
<1>6. CASE TurnWheel
  <2>1. PICK p \in Wheel :
          /\ Begin(MessageEvent("Wheel", p, <<D!ButtonFn, p>>))
          /\ UNCHANGED <<held, notes, buttons>>
    BY <1>6, Zenon DEF TurnWheel
  <2> DEFINE s == <<D!ButtonFn, p>>
             t == <<D!ExtendPrefix, D!ButtonFn, p>>
             e == MessageEvent("Wheel", p, s)
  <2>2. p \in Wheel /\ p \in WireBytes
    BY <1>1, <2>1
  <2>3. /\ s \in Seq(WireBytes) /\ t \in Seq(WireBytes)
        /\ Len(t) = Len(s) + 1 /\ t[1] = D!ExtendPrefix
    BY <1>1, <2>2
  <2>4. \A i \in 1..Len(s) : t[i + 1] = s[i]
    OBVIOUS
  <2> HIDE DEF s, t
  <2>5. e.kind = "Wheel" /\ e.val = p /\ e.bytes = t /\ t # << >>
    BY <2>3, <2>4, MessageBytes
  <2>6. Begin(e) /\ UNCHANGED held /\ notes' \subseteq Notes /\ buttons' \subseteq Buttons
    BY <1>1, <2>1, <2>2 DEF s
  <2> HIDE DEF e
  <2>7. e.bytes = <<D!ExtendPrefix, D!ButtonFn, p>>
    BY <2>5, Zenon DEF t
  <2> QED
    BY <2>2, <2>3, <2>5, <2>6, <2>7, OtherStep
<1> QED
  BY <1>2, <1>3, <1>4, <1>5, <1>6

LEMMA ReplyStep ==
  ASSUME IInv, Reply
  PROVE  IInv'
<1>1. PICK b \in Replies : Begin(ReplyEvent(b)) /\ UNCHANGED <<held, notes, buttons>>
  BY Zenon DEF Reply
<1> DEFINE e == ReplyEvent(b)
<1>2. b \in {D!Ack, D!SelfTestOk, D!Resend}
  BY ScanCodeAssumption
<1>3. b \in WireBytes
  BY <1>2 DEF D!Ack, D!SelfTestOk, D!Resend, WireBytes
<1>4. e.kind = "Reply" /\ e.val = b /\ e.bytes = <<b>>
  BY DEF ReplyEvent
<1>5. <<b>> \in Seq(WireBytes) /\ <<b>> # << >>
  BY <1>3, Tuples
<1>6. Begin(e) /\ UNCHANGED held /\ notes' \subseteq Notes /\ buttons' \subseteq Buttons
  BY <1>1 DEF IInv, KeyboardOK
<1> HIDE DEF e
<1>7. e.bytes \in Seq(WireBytes) /\ e.bytes # << >>
  BY <1>4, <1>5
<1> QED
  BY <1>2, <1>4, <1>6, <1>7, OtherStep

-----------------------------------------------------------------------------
(* The invariant and what follows from it.                                  *)

LEMMA InitIInv == Init => IInv
<1> SUFFICES ASSUME Init PROVE IInv
  OBVIOUS
<1>1. event.kind = "Reply" /\ event.val = D!Ack /\ event.bytes = <<D!Ack>>
  BY DEF Init, ReplyEvent
<1>2. DecoderOK
  <2>1. D!NoCall \in D!Calls /\ D!NoCall.cb = "None"
    BY DEF D!NoCall, D!Calls, D!Callback
  <2>2. call = D!NoCall /\ prodFn = 0 /\ prodPos = 0 /\ prodKey = 0 /\ installed = 7
    BY DEF Init
  <2>3. D!TypeOK
    <3>1. /\ shift \in BOOLEAN /\ ctrl \in BOOLEAN /\ alt \in BOOLEAN /\ capsLock \in BOOLEAN
          /\ extend \in BOOLEAN /\ release \in BOOLEAN /\ ackByteOk \in BOOLEAN
      BY Zenon DEF Init
    <3>2. prodFn \in {0, D!ButtonFn, D!NoteFn} /\ prodPos \in 0..255 /\ prodKey \in 0..255 /\ installed \in 0..7
      BY <2>2
    <3> QED
      BY <2>1, <2>2, <3>1, <3>2, Zenon DEF D!TypeOK
  <2>4. D!MessageInFlight
    BY <2>2 DEF D!MessageInFlight
  <2>5. D!NoFlowError
    BY <2>1, <2>2 DEF D!NoFlowError, D!Error, D!Callback
  <2> QED
    BY <2>2, <2>3, <2>4, <2>5 DEF DecoderOK
<1>3. KeyboardOK
  <2>1. tx = << >> /\ heard = << >>
    BY DEF Init
  <2>2. tx \in Seq(WireBytes) /\ heard \in Seq(D!Calls)
    BY <2>1
  <2>3. Len(heard) + Len(tx) <= Len(event.bytes)
    BY <1>1, <2>1
  <2>4. clean \in BOOLEAN /\ derailed \in BOOLEAN /\ breaks = 0
    BY Zenon DEF Init
  <2>5. held = {} /\ notes = {} /\ buttons = {}
    BY DEF Init
  <2> QED
    BY <2>2, <2>3, <2>4, <2>5 DEF KeyboardOK
<1>4. EventOK
  BY <1>1 DEF EventOK
<1>5. Ended
  <2>1. MidiAt(heard) = {} /\ heard = << >>
    BY DEF Init, MidiAt
  <2>2. Expected(event) = << >>
    BY <1>1 DEF Expected
  <2> QED
    BY <1>1, <2>1, <2>2 DEF Init, Ended, AtRest, Open
<1>6. BreaksOK /\ FlagsOK
  BY DEF Init, BreaksOK, FlagsOK
<1> QED
  BY <1>2, <1>3, <1>4, <1>5, <1>6 DEF IInv, StageOK

(* The record of the run and the decoder's state decide the invariant; the  *)
(* callback of the last byte does not matter.                               *)
LEMMA SameRecord ==
  ASSUME UNCHANGED <<shift, ctrl, alt, capsLock, extend, release, prodFn, prodPos, prodKey,
                     ackByteOk, installed>>,
         UNCHANGED <<held, notes, buttons, tx, event, heard, clean, breaks, derailed>>
  PROVE  /\ KeyboardOK' = KeyboardOK /\ EventOK' = EventOK /\ StageOK' = StageOK
         /\ BreaksOK' = BreaksOK /\ FlagsOK' = FlagsOK
<1>1. KeyboardOK' = KeyboardOK /\ EventOK' = EventOK
  BY DEF KeyboardOK, EventOK
<1>2. StageOK' = StageOK
  <2>1. AtRest' = AtRest /\ Clean' = Clean /\ Undecided' = Undecided
    BY Zenon DEF AtRest, Waiting, Reading, Open, Clean, Undecided, MidiAt
  <2>2. Begun' = Begun /\ Prefixed' = Prefixed
    BY <2>1, Zenon DEF Begun, Prefixed, Open
  <2>3. KeyRising' = KeyRising /\ InMessage' = InMessage
    BY Zenon DEF KeyRising, InMessage, Reading, Open
  <2>4. Ended' = Ended
    <3>1. MidiAt(heard)' = MidiAt(heard)
      BY Zenon DEF MidiAt
    <3>2. Expected(event)' = Expected(event)
      BY Zenon DEF Expected, D!Callback, D!Extra, D!WheelPitch
    <3>3. (\E i \in DOMAIN heard : MidiAt(heard) = {i} /\ <<heard[i]>> = Expected(event))'
           = (\E i \in DOMAIN heard : MidiAt(heard) = {i} /\ <<heard[i]>> = Expected(event))
      BY <3>1, <3>2, Zenon
    <3> QED
      BY <2>1, <3>1, <3>2, <3>3, Zenon DEF Ended
  <2> QED
    BY <2>1, <2>2, <2>3, <2>4, Zenon DEF StageOK, Underway
<1>3. BreaksOK' = BreaksOK /\ FlagsOK' = FlagsOK
  BY Zenon DEF BreaksOK, FlagsOK, Backed, Holding, Releasing, Open, Clean
<1> QED
  BY <1>1, <1>2, <1>3

LEMMA StepIInv == IInv /\ [Next]_vars => IInv'
<1> SUFFICES ASSUME IInv, [Next]_vars PROVE IInv'
  OBVIOUS
<1>1. CASE BeginEvent
  BY <1>1, KeyStep, MessageStep, ReplyStep DEF BeginEvent
<1>2. CASE DecodeByte
  BY <1>2, DecodeStep
<1>3. CASE UNCHANGED vars
  <2>1. /\ UNCHANGED <<shift, ctrl, alt, capsLock, extend, release, prodFn, prodPos, prodKey,
                       ackByteOk, installed, call>>
        /\ UNCHANGED <<held, notes, buttons, tx, event, heard, clean, breaks, derailed>>
    BY <1>3 DEF vars, decoder, keyboard
  <2>2. DecoderOK' = DecoderOK
    BY <2>1 DEF DecoderOK, D!TypeOK, D!MessageInFlight, D!NoFlowError
  <2> QED
    BY <2>1, <2>2, SameRecord DEF IInv
<1> QED
  BY <1>1, <1>2, <1>3 DEF Next

(* The inductive invariant of the keyboard and the decoder of               *)
(* ps2interrupt(): how far the event is, and which flags can be left.       *)
THEOREM InvariantHolds == Spec => []IInv
<1> QED
  BY InitIInv, StepIInv, PTL DEF Spec

(* The invariant gives the types and what the runs check of the stream.     *)
LEMMA TypeFollows ==
  ASSUME IInv
  PROVE  TypeOK
<1>1. Len(tx) \in Nat /\ Len(heard) \in Nat /\ Len(heard) + Len(tx) <= Len(event.bytes)
  BY DEF IInv, KeyboardOK
<1>2. Len(tx) <= Len(event.bytes) /\ Len(heard) <= Len(event.bytes)
  <2>1. Len(event.bytes) \in Int
    BY DEF IInv, EventOK
  <2> QED
    BY <1>1, <2>1
<1>3. event.kind \in {"Make", "Break", "NoteOn", "NoteOff", "FuncDown", "FuncUp", "Wheel", "Reply"}
  BY DEF IInv, EventOK
<1> QED
  BY <1>2, <1>3 DEF IInv, DecoderOK, KeyboardOK, TypeOK

(* The decoder's flags and message position, the keyboard's bytes and the   *)
(* callbacks of ps2interrupt() stay within their ranges.                    *)
THEOREM TypeCorrect == Spec => []TypeOK
<1>1. IInv => TypeOK
  BY TypeFollows
<1> QED
  BY <1>1, InvariantHolds, PTL

LEMMA DoneIsEnded ==
  ASSUME IInv, Done
  PROVE  Ended
<1>1. \A x, y : <<x>> # << >> /\ <<x, y>> # << >>
  BY Tuples
<1>2. ~KeyRising /\ ~InMessage /\ ~Prefixed /\ ~Begun
  BY <1>1 DEF Done, KeyRising, InMessage, Prefixed, Begun
<1> QED
  BY <1>2 DEF IInv, StageOK, Underway

LEMMA StreamPromises ==
  ASSUME IInv
  PROVE  MidiFaithful /\ CleanDecodes /\ TwoBreaksHeal /\ NoStuckModifier
<1>1. MidiFaithful /\ CleanDecodes
  BY DoneIsEnded DEF MidiFaithful, CleanDecodes, Ended
<1>2. TwoBreaksHeal
  BY DEF IInv, BreaksOK, TwoBreaksHeal, Done
<1>3. NoStuckModifier
  BY Between DEF IInv, FlagsOK, NoStuckModifier, Done
<1> QED
  BY <1>1, <1>2, <1>3

(* Whatever flags ps2interrupt() kept from earlier events, a press or       *)
(* release of a piano key makes exactly its own MIDI callback, and no other *)
(* event makes one.                                                         *)
THEOREM PianoKeysAlwaysPlay == Spec => []MidiFaithful
<1>1. IInv => MidiFaithful
  BY StreamPromises
<1> QED
  BY <1>1, InvariantHolds, PTL

(* An event that finds no flag of an earlier one makes exactly the          *)
(* callbacks that ps2interrupt() owes it.                                   *)
THEOREM CleanEventsDecode == Spec => []CleanDecodes
<1>1. IInv => CleanDecodes
  BY StreamPromises
<1> QED
  BY <1>1, InvariantHolds, PTL

(* Two releases of typing keys in a row leave none of the flags that        *)
(* ps2interrupt() sets for one.                                             *)
THEOREM TwoBreaksClean == Spec => []TwoBreaksHeal
<1>1. IInv => TwoBreaksHeal
  BY StreamPromises
<1> QED
  BY <1>1, InvariantHolds, PTL

(* Until ps2interrupt() takes a typing key for the start of a message, its  *)
(* Shift, Alt and Ctrl flags are those of keys that are held.               *)
THEOREM ModifiersAreHeld == Spec => []NoStuckModifier
<1>1. IInv => NoStuckModifier
  BY StreamPromises
<1> QED
  BY <1>1, InvariantHolds, PTL

-----------------------------------------------------------------------------
(* The path.  The line is a queue of orders to the host; what holds once    *)
(* it is empty is decided by the last order of a kind that waits in it.     *)

(* Once q has been obeyed, the thing that is on now, that the orders in     *)
(* about concern and those in on turn on, is on.                            *)
Ends(q, on, about, now) ==
    \/ now /\ \A i \in DOMAIN q : q[i] \notin about
    \/ \E i \in DOMAIN q : q[i] \in on /\ \A j \in DOMAIN q : j > i => q[j] \notin about

LEMMA EndsAfterHead ==
  ASSUME NEW T, NEW q \in Seq(T), q # << >>, NEW on, NEW about, NEW now, NEW later,
         later => IF Head(q) \in about THEN Head(q) \in on ELSE now,
         Ends(Tail(q), on, about, later)
  PROVE  Ends(q, on, about, now)
<1>1. /\ DOMAIN q = 1..Len(q) /\ Len(q) \in Nat /\ Len(q) > 0 /\ Head(q) = q[1]
      /\ DOMAIN Tail(q) = 1..(Len(q) - 1)
      /\ \A i \in 1..(Len(q) - 1) : Tail(q)[i] = q[i + 1]
  BY HeadTailProperties, EmptySeq
<1>2. \A j \in DOMAIN q : j > 1 => j - 1 \in DOMAIN Tail(q) /\ Tail(q)[j - 1] = q[j]
  BY <1>1
<1>3. CASE later /\ \A i \in DOMAIN Tail(q) : Tail(q)[i] \notin about
  <2>1. \A j \in DOMAIN q : j > 1 => q[j] \notin about
    BY <1>2, <1>3
  <2>2. CASE q[1] \in about
    BY <1>1, <1>3, <2>1, <2>2 DEF Ends
  <2>3. CASE q[1] \notin about
    <3>1. \A j \in DOMAIN q : q[j] \notin about
      BY <1>1, <2>1, <2>3
    <3> QED
      BY <1>1, <1>3, <2>3, <3>1 DEF Ends
  <2> QED
    BY <2>2, <2>3
<1>4. CASE \E i \in DOMAIN Tail(q) : Tail(q)[i] \in on
                 /\ \A j \in DOMAIN Tail(q) : j > i => Tail(q)[j] \notin about
  <2>1. PICK i \in DOMAIN Tail(q) : Tail(q)[i] \in on
                 /\ \A j \in DOMAIN Tail(q) : j > i => Tail(q)[j] \notin about
    BY <1>4
  <2>2. i + 1 \in DOMAIN q /\ q[i + 1] \in on
    BY <1>1, <2>1
  <2>3. ASSUME NEW j \in DOMAIN q, j > i + 1 PROVE q[j] \notin about
    <3>1. j > 1 /\ j - 1 > i
      BY <1>1, <2>3
    <3> QED
      BY <1>2, <2>1, <3>1
  <2> QED
    BY <2>2, <2>3 DEF Ends
<1> QED
  BY <1>3, <1>4 DEF Ends

LEMMA EndsAfterAppend ==
  ASSUME NEW T, NEW q \in Seq(T), NEW s \in Seq(T), NEW on, NEW about, NEW now,
         Ends(q \o s, on, about, now)
  PROVE  \/ \E i \in DOMAIN s : s[i] \in on /\ \A j \in DOMAIN s : j > i => s[j] \notin about
         \/ Ends(q, on, about, now) /\ \A i \in DOMAIN s : s[i] \notin about
<1> DEFINE r == q \o s
<1>1. /\ DOMAIN q = 1..Len(q) /\ DOMAIN s = 1..Len(s) /\ Len(q) \in Nat /\ Len(s) \in Nat
      /\ DOMAIN r = 1..(Len(q) + Len(s))
      /\ \A i \in 1..(Len(q) + Len(s)) : r[i] = IF i <= Len(q) THEN q[i] ELSE s[i - Len(q)]
  BY ConcatProperties
<1> HIDE DEF r
<1>2. \A i \in DOMAIN q : i \in DOMAIN r /\ r[i] = q[i]
  BY <1>1
<1>3. \A i \in DOMAIN s : i + Len(q) \in DOMAIN r /\ r[i + Len(q)] = s[i]
  BY <1>1
<1>4. CASE now /\ \A i \in DOMAIN r : r[i] \notin about
  BY <1>2, <1>3, <1>4 DEF Ends
<1>5. CASE \E i \in DOMAIN r : r[i] \in on /\ \A j \in DOMAIN r : j > i => r[j] \notin about
  <2>1. PICK i \in DOMAIN r : r[i] \in on /\ \A j \in DOMAIN r : j > i => r[j] \notin about
    BY <1>5
  <2>2. CASE i <= Len(q)
    <3>1. i \in DOMAIN q /\ q[i] \in on
      BY <1>1, <2>1, <2>2
    <3>2. \A j \in DOMAIN q : j > i => q[j] \notin about
      BY <1>2, <2>1
    <3>3. \A j \in DOMAIN s : j + Len(q) > i
      BY <1>1, <2>2, <3>1
    <3>4. \A j \in DOMAIN s : s[j] \notin about
      BY <1>3, <2>1, <3>3
    <3> QED
      BY <3>1, <3>2, <3>4 DEF Ends
  <2>3. CASE i > Len(q)
    <3>1. i - Len(q) \in DOMAIN s /\ s[i - Len(q)] \in on
      BY <1>1, <2>1, <2>3
    <3>2. ASSUME NEW j \in DOMAIN s, j > i - Len(q) PROVE s[j] \notin about
      <4>1. j + Len(q) > i
        BY <1>1, <3>2
      <4> QED
        BY <1>3, <2>1, <4>1
    <3> QED
      BY <3>1, <3>2
  <2> QED
    BY <1>1, <2>2, <2>3
<1> QED
  BY <1>4, <1>5 DEF Ends, r

-----------------------------------------------------------------------------
(* The packets of the callbacks.                                            *)

KeyPackets  == [intf: {S!Keyboard}, cmd: {S!Press, S!Release}, data1: 0..255, data2: 0..7]
MidiPackets == {p \in [intf: {S!Midi}, cmd: 128..239, data1: 0..255, data2: 0..255] :
                    p.cmd % 16 \in 0..MaxChannel}
PingPackets == [intf: {S!Internal}, cmd: {S!Ping}, data1: 0..255, data2: 0..255]
Packets     == KeyPackets \cup MidiPackets \cup PingPackets

(* Every row of the translation table is of bytes.                          *)
LEMMA TableBytes ==
  /\ \A row \in S!Plain : row[2] \in 0..255
  /\ \A row \in S!Extended : row[2] \in 0..255
<1>1. \A row \in S!FunctionKeys \cup S!Letters \cup S!Digits : row[2] \in 0..255
  <2>1. \A row \in S!FunctionKeys : row[2] \in 0..255
    BY DEF S!FunctionKeys, S!Run
  <2>2. \A row \in S!Letters : row[2] \in 0..255
    BY DEF S!Letters, S!Run
  <2>3. \A row \in S!Digits : row[2] \in 0..255
    BY DEF S!Digits, S!Run
  <2> QED
    BY <2>1, <2>2, <2>3
<1>2. \A row \in S!Punctuation \cup S!Keypad \cup S!ModifierRows : row[2] \in 0..255
  <2>1. \A row \in S!Punctuation : row[2] \in 0..255
    BY DEF S!Punctuation
  <2>2. \A row \in S!Keypad : row[2] \in 0..255
    BY DEF S!Keypad
  <2>3. \A row \in S!ModifierRows : row[2] \in 0..255
    BY DEF S!ModifierRows
  <2> QED
    BY <2>1, <2>2, <2>3
<1>3. \A row \in S!Extended : row[2] \in 0..255
  BY DEF S!Extended
<1> QED
  BY <1>1, <1>2, <1>3 DEF S!Plain

LEMMA UsbCodeIsByte ==
  ASSUME NEW code, NEW ext
  PROVE  S!UsbCode(code, ext) \in 0..255
<1>1. \A table : code \in S!Codes(table) => \E row \in table : row[1] = code
  BY DEF S!Codes
<1>2. \A table : code \in S!Codes(table) => (CHOOSE row \in table : row[1] = code) \in table
  BY <1>1
<1>3. code \in S!Codes(S!Extended) => S!Entry(S!Extended, code) \in 0..255
  BY <1>2, TableBytes DEF S!Entry
<1>4. code \in S!Codes(S!Plain) => S!Entry(S!Plain, code) \in 0..255
  BY <1>2, TableBytes DEF S!Entry
<1> QED
  BY <1>3, <1>4 DEF S!UsbCode

(* The settings stay in range; only the typing keys change them.            *)
LEMMA TuneKeepsRange ==
  ASSUME NEW mod, S!SettingsInRange, S!TuneUp(mod) \/ S!TuneDown(mod)
  PROVE  S!SettingsInRange'
<1> USE InputPathAssumption DEF S!SettingsInRange, S!ShiftOnly, S!AltOnly, S!CtrlOnly
<1>1. CASE S!TuneUp(mod)
  <2>1. transpose' \in {transpose, transpose + 1, transpose + OctaveStep} /\ transpose' <= MaxTranspose
    BY <1>1 DEF S!TuneUp
  <2>2. channel' \in 0..MaxChannel /\ patch' \in 0..MaxPatch
    BY <1>1 DEF S!TuneUp
  <2> QED
    BY <2>1, <2>2
<1>2. CASE S!TuneDown(mod)
  <2>1. transpose' \in {transpose, transpose - 1, transpose - OctaveStep} /\ transpose' >= -MaxTranspose
    BY <1>2 DEF S!TuneDown
  <2>2. channel' \in 0..MaxChannel /\ patch' \in 0..MaxPatch
    BY <1>2 DEF S!TuneDown
  <2> QED
    BY <2>1, <2>2
<1> QED
  BY <1>1, <1>2

LEMMA RetuneKeepsRange ==
  ASSUME NEW code, NEW ext, NEW mod, S!SettingsInRange, S!Retune(code, ext, mod)
  PROVE  /\ S!SettingsInRange'
         /\ ~S!IsOctaveKey(code, ext) => UNCHANGED settings
<1>1. CASE S!IsOctaveKey(code, ext)
  BY <1>1, TuneKeepsRange DEF S!Retune, S!IsOctaveKey
<1>2. CASE ~S!IsOctaveKey(code, ext)
  BY <1>2 DEF S!Retune, S!IsOctaveKey, S!SettingsInRange, S!settings, settings
<1> QED
  BY <1>1, <1>2

(* A MIDI packet on the current channel.                                    *)
LEMMA MidiPacketTyped ==
  ASSUME S!SettingsInRange, NEW status, NEW d1, NEW d2,
         status \in {128, 144, 192, 224}, d1 \in 0..255, d2 \in 0..255
  PROVE  /\ S!MidiPacket(status, d1, d2) \in MidiPackets
         /\ S!MidiPacket(status, d1, d2).cmd \div 16 = status \div 16
         /\ S!MidiPacket(status, d1, d2).cmd % 16 = channel
         /\ S!MidiPacket(status, d1, d2).data1 = d1 /\ S!MidiPacket(status, d1, d2).data2 = d2
<1>1. channel \in 0..15 /\ channel \in 0..MaxChannel
  BY InputPathAssumption DEF S!SettingsInRange
<1>2. status + channel \in 128..239 /\ (status + channel) % 16 = channel
      /\ (status + channel) \div 16 = status \div 16
  BY <1>1
<1> QED
  BY <1>1, <1>2 DEF S!MidiPacket, S!Packet, MidiPackets

(* What a typing key sends: its own packet, after a program change if it    *)
(* changed the patch.                                                       *)
KeyPacket(cmd, code, ext, mod) == S!Packet(S!Keyboard, cmd, S!UsbCode(code, ext), S!ps2ModToUsb(mod))
PatchPacket == S!MidiPacket(S!ProgramChange, patch', 0)

LEMMA KeyPacketTyped ==
  ASSUME NEW cmd \in {S!Press, S!Release}, NEW code, NEW ext, NEW mod
  PROVE  /\ KeyPacket(cmd, code, ext, mod) \in KeyPackets
         /\ KeyPacket(cmd, code, ext, mod).cmd = cmd
<1>1. S!ps2ModToUsb(mod) \in 0..7
  BY DEF S!ps2ModToUsb
<1> QED
  BY <1>1, UsbCodeIsByte DEF KeyPacket, KeyPackets, S!Packet

LEMMA PatchPacketTyped ==
  ASSUME S!SettingsInRange, S!SettingsInRange'
  PROVE  PatchPacket \in MidiPackets /\ PatchPacket.cmd \div 16 = 12
<1>1. patch' \in 0..255 /\ 0 \in 0..255 /\ 192 \in {128, 144, 192, 224} /\ 192 \div 16 = 12
  BY InputPathAssumption DEF S!SettingsInRange
<1>2. PatchPacket = S!MidiPacket(192, patch', 0)
  BY DEF PatchPacket, S!ProgramChange
<1>3. S!MidiPacket(192, patch', 0) \in MidiPackets /\ S!MidiPacket(192, patch', 0).cmd \div 16 = 192 \div 16
  BY <1>1, MidiPacketTyped
<1> QED
  BY <1>1, <1>2, <1>3

LEMMA KeySends ==
  ASSUME S!SettingsInRange, S!SettingsInRange', NEW code, NEW ext, NEW mod, NEW kmod,
         NEW cmd \in {S!Press, S!Release},
         sent' = S!AfterPatch(code, ext, mod, KeyPacket(cmd, code, ext, kmod))
  PROVE  \E p \in KeyPackets : /\ p.cmd = cmd
                               /\ sent' = <<p>> \/ sent' = <<PatchPacket, p>>
<1>1. S!Packet(S!Midi, S!ProgramChange + channel, patch', 0) = PatchPacket
  BY DEF PatchPacket, S!MidiPacket
<1>2. sent' = <<KeyPacket(cmd, code, ext, kmod)>> \/ sent' = <<PatchPacket, KeyPacket(cmd, code, ext, kmod)>>
  BY <1>1 DEF S!AfterPatch
<1> QED
  BY <1>2, KeyPacketTyped

(* What the callbacks do with the call the decoder has just made.           *)
Reacted ==
    /\ S!SettingsInRange'
    /\ sent' \in Seq(Packets) /\ Len(sent') <= 2
    /\ Silent \/ Stray => sent' = << >>
    /\ ~(call'.cb \in KeyCalls /\ S!IsOctaveKey(call'.code, call'.ext)) => UNCHANGED settings
    /\ call'.cb \in KeyCalls =>
           \E p \in KeyPackets : /\ p.cmd = IF call'.cb = "KeyPress" THEN S!Press ELSE S!Release
                                 /\ sent' = <<p>> \/ sent' = <<PatchPacket, p>>
    /\ call'.cb \in MidiCalls =>
           LET status == IF call'.cb = "MidiPress" THEN S!NoteOn ELSE S!NoteOff IN
           sent' = <<S!MidiPacket(status, S!Transposed(call'.code), call'.arg)>>
    /\ call'.cb \notin KeyCalls \cup MidiCalls =>
           \/ sent' = << >>
           \/ \E p \in PingPackets : sent' = <<p>>
           \/ \E p \in MidiPackets : p.cmd \div 16 = 14 /\ sent' = <<p>>

LEMMA PacketSeqs ==
  ASSUME NEW p \in Packets, NEW q \in Packets
  PROVE  /\ << >> \in Seq(Packets) /\ Len(<< >>) = 0
         /\ <<p>> \in Seq(Packets) /\ Len(<<p>>) = 1
         /\ <<p, q>> \in Seq(Packets) /\ Len(<<p, q>>) = 2
  OBVIOUS

LEMMA KeyReacts ==
  ASSUME S!SettingsInRange, call' \in D!Calls,
         S!onKeyPress(call') \/ S!onKeyRelease(call', D!Extra)
  PROVE  Reacted
<1> DEFINE cmd == IF call'.cb = "KeyPress" THEN S!Press ELSE S!Release
           mod == IF call'.cb = "KeyPress" THEN call'.arg ELSE 0
           kmod == IF call'.cb = "KeyPress" THEN call'.arg ELSE D!Extra
<1>1. /\ call'.cb \in KeyCalls
      /\ S!Retune(call'.code, call'.ext, mod)
      /\ sent' = S!AfterPatch(call'.code, call'.ext, mod, KeyPacket(cmd, call'.code, call'.ext, kmod))
  BY DEF S!onKeyPress, S!onKeyRelease, KeyCalls, KeyPacket
<1>2. cmd \in {S!Press, S!Release}
  OBVIOUS
<1> HIDE DEF cmd, mod, kmod
<1>3. S!SettingsInRange' /\ (~S!IsOctaveKey(call'.code, call'.ext) => UNCHANGED settings)
  BY <1>1, RetuneKeepsRange
<1>4. PICK p \in KeyPackets : p.cmd = cmd /\ (sent' = <<p>> \/ sent' = <<PatchPacket, p>>)
  BY <1>1, <1>2, <1>3, KeySends
<1>5. p \in Packets /\ PatchPacket \in Packets
  BY <1>3, PatchPacketTyped DEF Packets
<1>6. sent' \in Seq(Packets) /\ Len(sent') <= 2
  <2>1. CASE sent' = <<p>>
    BY <1>5, <2>1, PacketSeqs
  <2>2. CASE sent' = <<PatchPacket, p>>
    BY <1>5, <2>2, PacketSeqs
  <2> QED
    BY <1>4, <2>1, <2>2
<1>7. ~Silent /\ ~Stray /\ call'.cb \notin MidiCalls
  BY <1>1 DEF KeyCalls, MidiCalls, Silent, Stray, D!NoCall, D!Callback
<1>8. \E r \in KeyPackets : r.cmd = cmd /\ (sent' = <<r>> \/ sent' = <<PatchPacket, r>>)
  BY <1>4
<1> QED
  BY <1>1, <1>3, <1>6, <1>7, <1>8 DEF Reacted, cmd

LEMMA MidiReacts ==
  ASSUME S!SettingsInRange, call' \in D!Calls,
         S!onProdikeysMidiPress(call') \/ S!onProdikeysMidiRelease(call')
  PROVE  Reacted
<1> DEFINE status == IF call'.cb = "MidiPress" THEN S!NoteOn ELSE S!NoteOff
           p == S!MidiPacket(status, S!Transposed(call'.code), call'.arg)
<1>1. /\ call'.cb \in MidiCalls /\ UNCHANGED settings /\ sent' = <<p>>
  BY DEF S!onProdikeysMidiPress, S!onProdikeysMidiRelease, MidiCalls, settings, S!settings
<1>2. p \in Packets
  <2>1. call'.code \in Int /\ call'.arg \in 0..255
    BY DEF D!Calls
  <2>2. S!Transposed(call'.code) \in 0..255
    BY <2>1, InputPathAssumption DEF S!Transposed, S!SettingsInRange
  <2>3. status \in {128, 144, 192, 224}
    BY DEF S!NoteOn, S!NoteOff
  <2> HIDE DEF status
  <2>4. p \in MidiPackets
    BY <2>1, <2>2, <2>3, MidiPacketTyped DEF p
  <2> QED
    BY <2>4 DEF Packets
<1>3. ~Silent /\ ~Stray /\ call'.cb \notin KeyCalls
  BY <1>1 DEF KeyCalls, MidiCalls, Silent, Stray, D!NoCall, D!Callback
<1>4. S!SettingsInRange'
  BY <1>1 DEF S!SettingsInRange, settings
<1>5. sent' \in Seq(Packets) /\ Len(sent') <= 2
  <2> HIDE DEF p
  <2> QED
    BY <1>1, <1>2, PacketSeqs
<1> QED
  BY <1>1, <1>3, <1>4, <1>5 DEF Reacted

LEMMA OtherReacts ==
  ASSUME S!SettingsInRange, call' \in D!Calls,
         \/ S!onProdikeysKeyPress(call') \/ S!onProdikeysPitchBend(call') \/ S!onNothing(call')
  PROVE  Reacted
<1>1. /\ call'.cb \notin KeyCalls \cup MidiCalls /\ UNCHANGED settings
  BY DEF S!onProdikeysKeyPress, S!onProdikeysPitchBend, S!onNothing, KeyCalls, MidiCalls, settings, S!settings
<1>2. S!SettingsInRange'
  BY <1>1 DEF S!SettingsInRange, settings
<1>3. call'.code \in -64..255 /\ call'.arg \in 0..255
  BY DEF D!Calls
<1>4. \/ sent' = << >>
      \/ \E p \in PingPackets : sent' = <<p>>
      \/ \E p \in MidiPackets : p.cmd \div 16 = 14 /\ sent' = <<p>>
  <2>1. CASE S!onNothing(call')
    BY <2>1 DEF S!onNothing
  <2>2. CASE S!onProdikeysKeyPress(call')
    <3> DEFINE p == S!Packet(S!Internal, S!Ping, call'.code, call'.arg)
    <3>1. sent' = << >> \/ (call'.code = S!PingButton /\ sent' = <<p>>)
      BY <2>2 DEF S!onProdikeysKeyPress
    <3>2. call'.code = S!PingButton => p \in PingPackets
      BY <1>3 DEF S!Packet, PingPackets, S!PingButton
    <3> QED
      BY <3>1, <3>2
  <2>3. CASE S!onProdikeysPitchBend(call')
    <3> DEFINE v == S!BendValue(call'.code)
               p == S!MidiPacket(S!PitchWheel, v % 128, (v \div 128) % 256)
    <3>1. sent' = <<p>>
      BY <2>3 DEF S!onProdikeysPitchBend
    <3>2. v \in Int
      BY <1>3 DEF S!BendValue
    <3>3. v % 128 \in 0..255 /\ (v \div 128) % 256 \in 0..255
      <4> HIDE DEF v
      <4> QED
        BY <3>2
    <3>4. S!PitchWheel = 224 /\ 224 \div 16 = 14 /\ 224 \in {128, 144, 192, 224}
      BY DEF S!PitchWheel
    <3>5. p \in MidiPackets /\ p.cmd \div 16 = 14
      <4> HIDE DEF v
      <4> QED
        BY <3>3, <3>4, MidiPacketTyped DEF p
    <3> QED
      BY <3>1, <3>5
  <2> QED
    BY <2>1, <2>2, <2>3
<1>5. sent' \in Seq(Packets) /\ Len(sent') <= 2
  <2>1. CASE sent' = << >>
    BY <2>1
  <2>2. CASE \E p \in Packets : sent' = <<p>>
    BY <2>2, PacketSeqs
  <2> QED
    BY <1>4, <2>1, <2>2 DEF Packets
<1>6. Silent \/ Stray => sent' = << >>
  <2>1. Silent => call'.cb = "None"
    BY DEF Silent, D!NoCall, D!Callback
  <2>2. call'.cb = "None" => sent' = << >>
    BY DEF S!onProdikeysKeyPress, S!onProdikeysPitchBend, S!onNothing
  <2>3. Stray => sent' = << >>
    BY DEF Stray, S!onProdikeysKeyPress, S!onProdikeysPitchBend, S!onNothing, S!PingButton, D!ExtendPrefix
  <2> QED
    BY <2>1, <2>2, <2>3
<1> QED
  BY <1>1, <1>2, <1>4, <1>5, <1>6 DEF Reacted

LEMMA CallbackReacts ==
  ASSUME S!SettingsInRange, call' \in D!Calls, S!React(call', D!Extra)
  PROVE  Reacted
  BY KeyReacts, MidiReacts, OtherReacts DEF S!React

-----------------------------------------------------------------------------
(* The inductive invariant of the path.                                     *)

Tones           == (0..MaxChannel) \X (0..255)
Tone(n)         == <<struck[n][2], (n + struck[n][1]) % 256>>
TunedTone(n)    == <<channel, S!Transposed(n)>>
Presses         == {p \in KeyPackets : p.cmd = S!Press /\ p.data1 # 0}
NoteOrders(s)   == {p \in MidiPackets : p.cmd \div 16 \in {8, 9} /\ <<p.cmd % 16, p.data1>> = s}
NoteStarts(s)   == {p \in NoteOrders(s) : p.cmd \div 16 = 9 /\ p.data2 > 0}

(* What the host will believe once the line is empty.                       *)
PressedAtEnd   == Ends(wire, Presses, KeyPackets, keyCode # 0)
SoundsAtEnd(s) == Ends(wire, NoteStarts(s), NoteOrders(s), s \in sounding)

LineOK ==
    /\ wire \in Seq(Packets)
    /\ Len(wire) <= WireRoom + 2 /\ (tx # << >> => Len(wire) <= WireRoom)

HostOK == keyCode \in 0..255 /\ modifiers \in 0..7 /\ sounding \subseteq Tones

TuningOK == S!SettingsInRange /\ (~IsOctaveMake => settings = settingsWere)

(* A key the host will believe pressed is backed by a typing key that is    *)
(* held, or by the release of one that is still being sent.                 *)
KeysOK ==
    ~derailed /\ PressedAtEnd =>
        \/ held \cap Keys # {}
        \/ event.kind = "Break" /\ event.key \in Keys /\ tx # << >>

(* So is a note the host will hear.                                         *)
StruckOK ==
    /\ struck \in [Notes -> Int \X Int]
    /\ event.kind = "NoteOn" /\ tx # << >> => event.val \in notes /\ struck[event.val] = Tuning
NotesOK ==
    ~strayed =>
        \A s \in Tones : SoundsAtEnd(s) =>
            \/ \E n \in notes : s = Tone(n)
            \/ event.kind = "NoteOff" /\ tx # << >> /\ s = TunedTone(event.val)

PathInv == IInv /\ LineOK /\ HostOK /\ TuningOK /\ KeysOK /\ StruckOK /\ NotesOK

-----------------------------------------------------------------------------
(* A packet reaches the host.                                               *)

LEMMA SameKeyboard ==
  ASSUME IInv, UNCHANGED <<decoder, keyboard>>, call' = D!NoCall
  PROVE  IInv'
<1>1. /\ UNCHANGED <<shift, ctrl, alt, capsLock, extend, release, prodFn, prodPos, prodKey,
                     ackByteOk, installed>>
      /\ UNCHANGED <<held, notes, buttons, tx, event, heard, clean, breaks, derailed>>
  BY DEF decoder, keyboard
<1>2. D!NoCall \in D!Calls /\ D!NoCall.cb = "None"
  BY DEF D!NoCall, D!Calls, D!Callback
<1>3. DecoderOK'
  <2>1. D!TypeOK'
    BY <1>1, <1>2, Zenon DEF IInv, DecoderOK, D!TypeOK
  <2>2. D!NoFlowError'
    BY <1>2 DEF D!NoFlowError, D!Error, D!Callback
  <2>3. D!MessageInFlight' /\ installed' = 7
    BY <1>1, Zenon DEF IInv, DecoderOK, D!MessageInFlight
  <2> QED
    BY <2>1, <2>2, <2>3 DEF DecoderOK
<1> QED
  BY <1>1, <1>3, SameRecord DEF IInv

LEMMA HeadTyped ==
  ASSUME wire \in Seq(Packets), wire # << >>
  PROVE  /\ Head(wire) \in Packets /\ Tail(wire) \in Seq(Packets)
         /\ Len(wire) \in Nat /\ Len(Tail(wire)) = Len(wire) - 1
<1>1. \A T : \A q \in Seq(T) : q # << >> =>
        Head(q) \in T /\ Tail(q) \in Seq(T) /\ Len(q) \in Nat /\ Len(Tail(q)) = Len(q) - 1
  BY HeadTailProperties
<1> QED
  BY ONLY <1>1, wire \in Seq(Packets), wire # << >>

(* lufa_parse() obeys the packet and the host hears of it.                  *)
LEMMA Obeyed ==
  ASSUME PathInv, ReceivePacket
  PROVE  LET p == Head(wire) IN
         /\ HostOK'
         /\ keyCode' # 0 => IF p \in KeyPackets THEN p \in Presses ELSE keyCode # 0
         /\ \A s \in Tones : s \in sounding' =>
                IF p \in NoteOrders(s) THEN p \in NoteStarts(s) ELSE s \in sounding
<1> DEFINE p == Head(wire)
<1>1. /\ p \in Packets /\ U!lufa_parse(p) /\ HostOK
      /\ sounding' = IF midiOut' = << >> THEN sounding ELSE Hear(midiOut'[1])
  BY HeadTyped DEF PathInv, LineOK, ReceivePacket
<1> HIDE DEF p
<1> USE DEF S!Keyboard, S!Midi, S!Internal, U!Keyboard, U!Midi, U!Internal
<1>2. CASE p \in KeyPackets
  <2>1. /\ p.intf = 75 /\ p.cmd \in {80, 82} /\ p.data1 \in 0..255 /\ p.data2 \in 0..7
    BY <1>2 DEF KeyPackets, S!Press, S!Release
  <2>2. U!ParseKeyboard(p)
    BY <1>1, <2>1 DEF U!lufa_parse, U!ParseMidi, U!ParseInternal
  <2>3. /\ keyCode' = IF p.cmd = 80 THEN p.data1 ELSE 0
        /\ modifiers' = p.data2 /\ midiOut' = << >>
    BY <2>1, <2>2 DEF U!ParseKeyboard, U!Press, U!Release
  <2>4. sounding' = sounding /\ HostOK'
    BY <1>1, <2>1, <2>3 DEF HostOK
  <2>5. keyCode' # 0 => p \in Presses
    BY <1>2, <2>1, <2>3 DEF Presses, S!Press
  <2>6. \A s : p \notin NoteOrders(s)
    BY <2>1 DEF NoteOrders, MidiPackets
  <2> QED
    BY <1>2, <2>4, <2>5, <2>6 DEF p
<1>3. CASE p \in MidiPackets
  <2> DEFINE e == [index |-> p.cmd \div 16, status |-> p.cmd, data2 |-> p.data1, data3 |-> p.data2]
             note == <<p.cmd % 16, p.data1>>
  <2>1. /\ p.intf = 77 /\ p.cmd \in 128..239 /\ p.cmd % 16 \in 0..MaxChannel
        /\ p.data1 \in 0..255 /\ p.data2 \in 0..255
    BY <1>3 DEF MidiPackets
  <2>2. U!ParseMidi(p)
    BY <1>1, <2>1 DEF U!lufa_parse, U!ParseKeyboard, U!ParseInternal
  <2>3. /\ UNCHANGED <<keyCode, modifiers>> /\ midiOut' = <<e>>
    BY <2>2 DEF U!ParseMidi
  <2>4. sounding' = Hear(e)
    <3>1. <<e>> # << >> /\ <<e>>[1] = e
      OBVIOUS
    <3> HIDE DEF e
    <3> QED
      BY <1>1, <2>3, <3>1
  <2>5. note \in Tones
    BY <2>1 DEF Tones
  <2>6. sounding' = IF p.cmd \div 16 = 9 /\ p.data2 > 0 THEN sounding \cup {note}
                    ELSE IF p.cmd \div 16 \in {8, 9} THEN sounding \ {note} ELSE sounding
    <3>1. e.index = p.cmd \div 16 /\ e.status = p.cmd /\ e.data2 = p.data1 /\ e.data3 = p.data2
      OBVIOUS
    <3> HIDE DEF e
    <3> QED
      BY <2>1, <2>4, <3>1 DEF Hear
  <2> HIDE DEF note
  <2>7. HostOK'
    BY <1>1, <2>3, <2>5, <2>6 DEF HostOK
  <2>8. p \notin KeyPackets
    BY <2>1 DEF KeyPackets
  <2>9. ASSUME NEW s \in Tones, s \in sounding'
        PROVE  IF p \in NoteOrders(s) THEN p \in NoteStarts(s) ELSE s \in sounding
    <3>1. p \in NoteOrders(s) <=> p.cmd \div 16 \in {8, 9} /\ note = s
      BY <1>3 DEF NoteOrders, note
    <3>2. p \in NoteStarts(s) <=> p \in NoteOrders(s) /\ p.cmd \div 16 = 9 /\ p.data2 > 0
      BY DEF NoteStarts
    <3> QED
      BY <2>6, <2>9, <3>1, <3>2
  <2> QED
    BY <2>3, <2>7, <2>8, <2>9 DEF p
<1>4. CASE p \in PingPackets
  <2>1. p.intf = 105
    BY <1>4 DEF PingPackets
  <2>2. U!ParseInternal(p)
    BY <1>1, <2>1 DEF U!lufa_parse, U!ParseKeyboard, U!ParseMidi
  <2>3. UNCHANGED <<keyCode, modifiers>> /\ midiOut' = << >>
    BY <2>2 DEF U!ParseInternal
  <2>4. sounding' = sounding /\ HostOK'
    BY <1>1, <2>3 DEF HostOK
  <2>5. p \notin KeyPackets /\ \A s : p \notin NoteOrders(s)
    BY <2>1 DEF KeyPackets, NoteOrders, MidiPackets
  <2> QED
    BY <2>3, <2>4, <2>5 DEF p
<1> QED
  BY <1>1, <1>2, <1>3, <1>4 DEF Packets

LEMMA ReceiveStep ==
  ASSUME PathInv, ReceivePacket
  PROVE  PathInv'
<1>1. /\ wire \in Seq(Packets) /\ wire # << >> /\ wire' = Tail(wire)
      /\ UNCHANGED <<decoder, keyboard, settings, ghosts>> /\ call' = D!NoCall
  BY DEF PathInv, LineOK, ReceivePacket
<1>2. /\ UNCHANGED <<held, notes, tx, event, derailed>>
      /\ UNCHANGED <<transpose, channel, patch, settingsWere, struck, strayed>>
  BY <1>1 DEF keyboard, settings, ghosts
<1>3. IInv'
  BY <1>1, SameKeyboard DEF PathInv
<1>4. LineOK'
  <2>1. /\ Tail(wire) \in Seq(Packets) /\ Len(wire) \in Nat /\ Len(Tail(wire)) = Len(wire) - 1
    BY <1>1, HeadTyped
  <2> QED
    BY <1>1, <1>2, <2>1, InputPathAssumption DEF PathInv, LineOK
<1>5. HostOK'
  BY Obeyed
<1>6. TuningOK'
  BY <1>2 DEF PathInv, TuningOK, S!SettingsInRange, IsOctaveMake, settings
<1>7. KeysOK'
  <2>1. keyCode' # 0 => IF Head(wire) \in KeyPackets THEN Head(wire) \in Presses ELSE keyCode # 0
    BY Obeyed
  <2>2. PressedAtEnd' => Ends(Tail(wire), Presses, KeyPackets, keyCode' # 0)
    BY <1>1 DEF PressedAtEnd, Ends
  <2>3. PressedAtEnd' => PressedAtEnd
    BY <1>1, <2>1, <2>2, EndsAfterHead DEF PressedAtEnd
  <2> QED
    BY <1>2, <2>3 DEF PathInv, KeysOK
<1>8. StruckOK'
  BY <1>2 DEF PathInv, StruckOK, Tuning
<1>9. NotesOK'
  <2>1. SUFFICES ASSUME ~strayed', NEW s \in Tones, SoundsAtEnd(s)'
                 PROVE  (\/ \E n \in notes : s = Tone(n)
                         \/ event.kind = "NoteOff" /\ tx # << >> /\ s = TunedTone(event.val))'
    BY DEF NotesOK
  <2>2. s \in sounding' =>
          IF Head(wire) \in NoteOrders(s) THEN Head(wire) \in NoteStarts(s) ELSE s \in sounding
    BY Obeyed
  <2>3. Ends(Tail(wire), NoteStarts(s), NoteOrders(s), s \in sounding')
    BY <1>1, <2>1 DEF SoundsAtEnd, Ends
  <2>4. SoundsAtEnd(s)
    BY <1>1, <2>2, <2>3, EndsAfterHead DEF SoundsAtEnd
  <2>5. \/ \E n \in notes : s = Tone(n)
        \/ event.kind = "NoteOff" /\ tx # << >> /\ s = TunedTone(event.val)
    BY <1>2, <2>1, <2>4 DEF PathInv, NotesOK
  <2> QED
    BY <1>2, <2>5 DEF Tone, TunedTone, S!Transposed
<1> QED
  BY <1>3, <1>4, <1>5, <1>6, <1>7, <1>8, <1>9 DEF PathInv

-----------------------------------------------------------------------------
(* An event begins.                                                         *)

LEMMA EventBytes ==
  ASSUME EventOK'
  PROVE  event'.bytes # << >>
<1>1. \A x, y : <<x>> # << >> /\ <<x, y>> # << >>
  BY Tuples
<1>2. \A x, y, z, w : <<x, y, z>> # << >> /\ <<x, y, z, w>> # << >>
  OBVIOUS
<1>3. CASE event'.kind \in {"Make", "Break"}
  BY <1>1, <1>2, <1>3 DEF EventOK
<1>4. CASE event'.kind \notin {"Make", "Break"}
  BY <1>1, <1>2, <1>4 DEF EventOK
<1> QED
  BY <1>3, <1>4

(* A key or a piano key of the event goes down or up, and nothing else.     *)
LEMMA BeginFacts ==
  ASSUME IInv, BeginEvent
  PROVE  /\ IInv' /\ tx = << >> /\ tx' # << >> /\ derailed' = derailed
         /\ \/ event'.kind = "Break" /\ held' = held \ {event'.key}
            \/ event'.kind # "Break" /\ held \subseteq held'
         /\ \/ event'.kind = "NoteOn" /\ event'.val \in Notes \ notes /\ notes' = notes \cup {event'.val}
            \/ event'.kind = "NoteOff" /\ event'.val \in notes /\ notes' = notes \ {event'.val}
            \/ event'.kind \notin {"NoteOn", "NoteOff"} /\ notes' = notes
<1>1. IInv'
  BY KeyStep, MessageStep, ReplyStep DEF BeginEvent
<1>2. \A e : Begin(e) => tx = << >> /\ event' = e /\ tx' = e.bytes /\ derailed' = derailed
  BY DEF Begin
<1>3. \A k : KeyEvent("Make", k).kind = "Make" /\ KeyEvent("Make", k).key = k
  BY DEF KeyEvent
<1>4. \A k : KeyEvent("Break", k).kind = "Break" /\ KeyEvent("Break", k).key = k
  BY DEF KeyEvent
<1>5. \A kind, v, bytes : MessageEvent(kind, v, bytes).kind = kind /\ MessageEvent(kind, v, bytes).val = v
  BY DEF MessageEvent
<1>6. \A b : ReplyEvent(b).kind = "Reply"
  BY DEF ReplyEvent
<1> DEFINE HeldFact == \/ event'.kind = "Break" /\ held' = held \ {event'.key}
                       \/ event'.kind # "Break" /\ held \subseteq held'
           NotesFact == \/ event'.kind = "NoteOn" /\ event'.val \in Notes \ notes /\ notes' = notes \cup {event'.val}
                        \/ event'.kind = "NoteOff" /\ event'.val \in notes /\ notes' = notes \ {event'.val}
                        \/ event'.kind \notin {"NoteOn", "NoteOff"} /\ notes' = notes
           Facts == /\ tx = << >> /\ tx' = event'.bytes /\ derailed' = derailed
                    /\ HeldFact /\ NotesFact
<1>7. Facts
  <2>1. CASE Make
    BY <2>1, <1>2, <1>3 DEF Make
  <2>2. CASE Break
    BY <2>2, <1>2, <1>4 DEF Break
  <2>3. CASE NoteOn
    BY <2>3, <1>2, <1>5 DEF NoteOn
  <2>4. CASE NoteOff
    BY <2>4, <1>2, <1>5 DEF NoteOff
  <2>5. CASE ButtonDown
    BY <2>5, <1>2, <1>5 DEF ButtonDown
  <2>6. CASE ButtonUp
    BY <2>6, <1>2, <1>5 DEF ButtonUp
  <2>7. CASE TurnWheel
    BY <2>7, <1>2, <1>5 DEF TurnWheel
  <2>8. CASE Reply
    BY <2>8, <1>2, <1>6 DEF Reply
  <2> QED
    BY <2>1, <2>2, <2>3, <2>4, <2>5, <2>6, <2>7, <2>8 DEF BeginEvent
<1>8. EventOK'
  BY <1>1 DEF IInv
<1>9. tx' # << >>
  BY <1>7, <1>8, EventBytes
<1> QED
  BY <1>1, <1>7, <1>9

LEMMA PathBeginStep ==
  ASSUME PathInv, PathBeginEvent
  PROVE  PathInv'
<1>1. /\ Len(wire) <= WireRoom /\ BeginEvent /\ settingsWere' = settings
      /\ struck' = CASE event'.kind = "NoteOn"  -> [struck EXCEPT ![event'.val] = Tuning]
                     [] event'.kind = "NoteOff" -> [struck EXCEPT ![event'.val] = <<0, 0>>]
                     [] OTHER                   -> struck
      /\ strayed' = (strayed \/ (event'.kind = "NoteOff" /\ struck[event'.val] # Tuning))
      /\ UNCHANGED <<transpose, channel, patch, wire, keyCode, modifiers, sounding>>
  BY DEF PathBeginEvent, settings, hid
<1>2. /\ IInv' /\ tx = << >> /\ tx' # << >> /\ derailed' = derailed
      /\ \/ event'.kind = "Break" /\ held' = held \ {event'.key}
         \/ event'.kind # "Break" /\ held \subseteq held'
      /\ \/ event'.kind = "NoteOn" /\ event'.val \in Notes \ notes /\ notes' = notes \cup {event'.val}
         \/ event'.kind = "NoteOff" /\ event'.val \in notes /\ notes' = notes \ {event'.val}
         \/ event'.kind \notin {"NoteOn", "NoteOff"} /\ notes' = notes
  BY <1>1, BeginFacts DEF PathInv
<1>3. notes \subseteq Notes
  BY DEF PathInv, IInv, KeyboardOK
<1>4. LineOK' /\ HostOK'
  BY <1>1 DEF PathInv, LineOK, HostOK
<1>5. TuningOK'
  BY <1>1 DEF PathInv, TuningOK, S!SettingsInRange, settings
<1>6. KeysOK'
  <2>1. SUFFICES ASSUME ~derailed', PressedAtEnd'
                 PROVE  (\/ held \cap Keys # {}
                         \/ event.kind = "Break" /\ event.key \in Keys /\ tx # << >>)'
    BY DEF KeysOK
  <2>2. PressedAtEnd
    BY <1>1, <2>1 DEF PressedAtEnd, Ends
  <2>3. held \cap Keys # {}
    BY <1>2, <2>1, <2>2 DEF PathInv, KeysOK
  <2> QED
    BY <1>2, <2>3
<1>7. StruckOK'
  <2>1. struck \in [Notes -> Int \X Int]
    BY DEF PathInv, StruckOK
  <2>2. Tuning \in Int \X Int /\ <<0, 0>> \in Int \X Int /\ Tuning' = Tuning
    BY <1>1, InputPathAssumption DEF PathInv, TuningOK, S!SettingsInRange, Tuning
  <2>3. struck' \in [Notes -> Int \X Int]
    BY <1>1, <1>2, <1>3, <2>1, <2>2
  <2>4. event'.kind = "NoteOn" => struck'[event'.val] = Tuning
    BY <1>1, <1>2, <2>1
  <2> QED
    BY <1>2, <2>2, <2>3, <2>4 DEF StruckOK
<1>8. NotesOK'
  <2>1. SUFFICES ASSUME ~strayed', NEW s \in Tones, SoundsAtEnd(s)'
                 PROVE  (\/ \E n \in notes : s = Tone(n)
                         \/ event.kind = "NoteOff" /\ tx # << >> /\ s = TunedTone(event.val))'
    BY DEF NotesOK
  <2>2. SoundsAtEnd(s)
    BY <1>1, <2>1 DEF SoundsAtEnd, Ends
  <2>3. PICK n \in notes : s = Tone(n)
    BY <1>1, <1>2, <2>1, <2>2 DEF PathInv, NotesOK
  <2>4. struck \in [Notes -> Int \X Int] /\ n \in Notes
    BY <1>3 DEF PathInv, StruckOK
  <2>5. CASE n = event'.val /\ event'.kind = "NoteOff"
    <3>1. struck[n] = Tuning
      BY <1>1, <2>1, <2>5
    <3>2. s = <<channel, (n + transpose) % 256>>
      BY <2>3, <3>1 DEF Tone, Tuning
    <3>3. s = TunedTone(event.val)'
      BY <1>1, <2>5, <3>2 DEF TunedTone, S!Transposed
    <3> QED
      BY <1>2, <2>5, <3>3
  <2>6. CASE ~(n = event'.val /\ event'.kind = "NoteOff")
    <3>1. n \in notes' /\ struck'[n] = struck[n]
      BY <1>1, <1>2, <2>4, <2>6
    <3>2. Tone(n)' = Tone(n)
      BY <3>1 DEF Tone
    <3> QED
      BY <2>3, <3>1, <3>2
  <2> QED
    BY <2>5, <2>6
<1> QED
  BY <1>2, <1>4, <1>5, <1>6, <1>7, <1>8 DEF PathInv
-----------------------------------------------------------------------------
(* A byte is decoded and its packets join the line.                         *)

LEMMA KeyOrders ==
  ASSUME S!SettingsInRange, Reacted
  PROVE  /\ call'.cb \notin KeyCalls => \A i \in DOMAIN sent' : sent'[i] \notin KeyPackets
         /\ call'.cb \in KeyCalls => \E i \in DOMAIN sent' : sent'[i] \in KeyPackets
         /\ call'.cb = "KeyRelease" => \A i \in DOMAIN sent' : sent'[i] \notin Presses
         /\ call'.cb \in KeyCalls => \A s : \A i \in DOMAIN sent' : sent'[i] \notin NoteOrders(s)
<1>1. \A p : DOMAIN <<p>> = {1} /\ <<p>>[1] = p
  OBVIOUS
<1>2. \A p, q : DOMAIN <<p, q>> = {1, 2} /\ <<p, q>>[1] = p /\ <<p, q>>[2] = q
  OBVIOUS
<1>3. DOMAIN << >> = {}
  OBVIOUS
<1>4. S!Keyboard # S!Midi /\ S!Keyboard # S!Internal /\ S!Press # S!Release
  BY DEF S!Keyboard, S!Midi, S!Internal, S!Press, S!Release
<1>5. \A p \in KeyPackets : p.intf = S!Keyboard
  BY DEF KeyPackets
<1>6. \A p \in MidiPackets : p.intf = S!Midi
  BY DEF MidiPackets
<1>7. \A p \in PingPackets : p.intf = S!Internal
  BY DEF PingPackets
<1>8. \A p \in KeyPackets : \A s : p \notin NoteOrders(s)
  BY <1>4, <1>5, <1>6 DEF NoteOrders
<1>9. PatchPacket \in MidiPackets /\ PatchPacket.cmd \div 16 = 12
  BY PatchPacketTyped DEF Reacted
<1>10. PatchPacket \notin KeyPackets /\ \A s : PatchPacket \notin NoteOrders(s)
  BY <1>4, <1>5, <1>6, <1>9 DEF NoteOrders
<1>11. CASE call'.cb \in KeyCalls
  <2>1. PICK p \in KeyPackets : /\ p.cmd = IF call'.cb = "KeyPress" THEN S!Press ELSE S!Release
                                /\ sent' = <<p>> \/ sent' = <<PatchPacket, p>>
    BY <1>11 DEF Reacted
  <2>2. call'.cb = "KeyRelease" => p \notin Presses /\ PatchPacket \notin Presses
    BY <1>4, <1>10, <2>1 DEF Presses
  <2>3. CASE sent' = <<p>>
    BY <1>1, <1>8, <1>11, <2>1, <2>2, <2>3
  <2>4. CASE sent' = <<PatchPacket, p>>
    BY <1>2, <1>8, <1>10, <1>11, <2>1, <2>2, <2>4
  <2> QED
    BY <2>1, <2>3, <2>4
<1>12. CASE call'.cb \in MidiCalls
  <2> DEFINE status == IF call'.cb = "MidiPress" THEN S!NoteOn ELSE S!NoteOff
             p == S!MidiPacket(status, S!Transposed(call'.code), call'.arg)
  <2>1. sent' = <<p>>
    BY <1>12 DEF Reacted
  <2>2. p.intf = S!Midi
    BY DEF S!MidiPacket, S!Packet
  <2>3. call'.cb \notin KeyCalls /\ call'.cb # "KeyRelease"
    BY <1>12 DEF MidiCalls, KeyCalls
  <2> HIDE DEF p
  <2> QED
    BY <1>1, <1>4, <1>5, <2>1, <2>2, <2>3
<1>13. CASE call'.cb \notin KeyCalls \cup MidiCalls
  <2>1. call'.cb # "KeyRelease"
    BY <1>13 DEF KeyCalls
  <2>2. \/ sent' = << >>
        \/ \E p \in PingPackets \cup MidiPackets : sent' = <<p>>
    BY <1>13 DEF Reacted
  <2> QED
    BY <1>1, <1>3, <1>4, <1>5, <1>6, <1>7, <1>13, <2>1, <2>2
<1> QED
  BY <1>11, <1>12, <1>13

LEMMA NoNoteOrders ==
  ASSUME S!SettingsInRange, Reacted, call'.cb \notin MidiCalls, NEW s
  PROVE  \A i \in DOMAIN sent' : sent'[i] \notin NoteOrders(s)
<1>1. \A p : DOMAIN <<p>> = {1} /\ <<p>>[1] = p
  OBVIOUS
<1>2. DOMAIN << >> = {}
  OBVIOUS
<1>3. CASE call'.cb \in KeyCalls
  BY <1>3, KeyOrders
<1>4. CASE call'.cb \notin KeyCalls
  <2>1. \A p \in PingPackets : p.intf = S!Internal
    BY DEF PingPackets
  <2>2. \A p \in NoteOrders(s) : p.intf = S!Midi /\ p.cmd \div 16 # 14
    BY DEF NoteOrders, MidiPackets
  <2>3. S!Midi # S!Internal
    BY DEF S!Midi, S!Internal
  <2>4. \/ sent' = << >>
        \/ \E p \in PingPackets : sent' = <<p>>
        \/ \E p \in MidiPackets : p.cmd \div 16 = 14 /\ sent' = <<p>>
    BY <1>4 DEF Reacted
  <2> QED
    BY <1>1, <1>2, <2>1, <2>2, <2>3, <2>4
<1> QED
  BY <1>3, <1>4

LEMMA NoteSends ==
  ASSUME S!SettingsInRange, Reacted, call' \in D!Calls, call'.cb \in MidiCalls, NEW s
  PROVE  /\ \A i \in DOMAIN sent' : sent'[i] \in NoteOrders(s) <=> s = TunedTone(call'.code)
         /\ call'.cb = "MidiRelease" => \A i \in DOMAIN sent' : sent'[i] \notin NoteStarts(s)
         /\ 1 \in DOMAIN sent'
<1> DEFINE status == IF call'.cb = "MidiPress" THEN S!NoteOn ELSE S!NoteOff
           d1 == S!Transposed(call'.code)
           p == S!MidiPacket(status, d1, call'.arg)
<1>1. sent' = <<p>>
  BY DEF Reacted
<1>2. status \in {128, 144} /\ status \div 16 \in {8, 9} /\ (call'.cb = "MidiRelease" => status \div 16 = 8)
  BY DEF S!NoteOn, S!NoteOff
<1>3. call'.code \in Int /\ call'.arg \in 0..255
  BY DEF D!Calls
<1>4. d1 \in 0..255
  BY <1>3, InputPathAssumption DEF S!Transposed, S!SettingsInRange
<1>5. TunedTone(call'.code) = <<channel, d1>>
  BY DEF TunedTone
<1> HIDE DEF status, d1
<1>6. /\ p \in MidiPackets /\ p.cmd \div 16 = status \div 16
      /\ p.cmd % 16 = channel /\ p.data1 = d1
  BY <1>2, <1>3, <1>4, MidiPacketTyped
<1> HIDE DEF p
<1>7. p \in NoteOrders(s) <=> s = TunedTone(call'.code)
  BY <1>2, <1>5, <1>6 DEF NoteOrders
<1>8. call'.cb = "MidiRelease" => p \notin NoteStarts(s)
  BY <1>2, <1>6 DEF NoteStarts
<1>9. DOMAIN <<p>> = {1} /\ <<p>>[1] = p
  OBVIOUS
<1> QED
  BY <1>1, <1>7, <1>8, <1>9

(* What the path makes of the byte.                                         *)
LEMMA PathByte ==
  ASSUME PathInv, PathDecodeByte
  PROVE  /\ IInv' /\ Outcome /\ Reacted /\ call' \in D!Calls
         /\ tx # << >> /\ wire' = wire \o sent'
         /\ UNCHANGED <<held, notes, event>> /\ (derailed => derailed')
         /\ UNCHANGED <<keyCode, modifiers, sounding, settingsWere, struck, strayed>>
         /\ tx' # << >> => sent' = << >> /\ wire' = wire
         /\ call'.cb \notin KeyCalls => UNCHANGED settings
<1>1. /\ DecodeByte /\ S!React(call', D!Extra) /\ wire' = wire \o sent'
      /\ UNCHANGED <<keyCode, modifiers, sounding, settingsWere, struck, strayed>>
  BY DEF PathDecodeByte, hid, ghosts
<1>2. IInv /\ S!SettingsInRange /\ wire \in Seq(Packets)
  BY DEF PathInv, TuningOK, LineOK
<1>3. IInv' /\ Outcome
  BY <1>1, <1>2, DecodeStep, ByteOutcome
<1>4. call' \in D!Calls /\ tx # << >> /\ UNCHANGED <<held, event>> /\ (derailed => derailed')
  BY <1>1, <1>2, ByteFrame
<1>5. notes' = notes
  BY <1>1 DEF DecodeByte
<1>6. Reacted
  BY <1>1, <1>2, <1>4, CallbackReacts
<1>7. tx' # << >> => sent' = << >>
  BY <1>3, <1>6 DEF Outcome, Reacted
<1>8. sent' = << >> => wire' = wire
  BY <1>1, <1>2
<1>9. call'.cb \notin KeyCalls => UNCHANGED settings
  BY <1>6 DEF Reacted
<1> QED
  BY <1>1, <1>3, <1>4, <1>5, <1>6, <1>7, <1>8, <1>9

(* The release of a key is reported as that of a plain key, so only the     *)
(* press of an octave key retunes.                                          *)
LEMMA DecodeKeepsTuning ==
  ASSUME PathInv, PathDecodeByte
  PROVE  TuningOK'
<1>1. /\ Outcome /\ Reacted /\ call' \in D!Calls /\ UNCHANGED <<event, settingsWere>>
  BY PathByte
<1>2. CASE UNCHANGED settings
  BY <1>1, <1>2 DEF PathInv, TuningOK, Reacted, IsOctaveMake
<1>3. CASE call'.cb \in KeyCalls /\ S!IsOctaveKey(call'.code, call'.ext)
  <2>1. /\ event.kind \in {"Make", "Break"} /\ event.key \in Keys /\ call'.code = event.key.code
        /\ event.kind = "Break" => call'.ext = FALSE
    BY <1>1, <1>3 DEF Outcome
  <2>2. call'.ext /\ call'.code \in {S!OctaveUp, S!OctaveDown}
    BY <1>3 DEF S!IsOctaveKey
  <2>3. event.kind = "Make"
    BY <2>1, <2>2
  <2>4. event.key.ext
    BY <2>1, <2>2, OctaveAssumption
  <2>5. IsOctaveMake'
    BY <1>1, <2>1, <2>2, <2>3, <2>4 DEF IsOctaveMake
  <2> QED
    BY <1>1, <2>5 DEF TuningOK, Reacted
<1> QED
  BY <1>1, <1>2, <1>3 DEF Reacted

LEMMA DecodeKeepsKeys ==
  ASSUME PathInv, PathDecodeByte
  PROVE  KeysOK'
<1> SUFFICES ASSUME ~derailed', PressedAtEnd'
             PROVE  (\/ held \cap Keys # {}
                     \/ event.kind = "Break" /\ event.key \in Keys /\ tx # << >>)'
  BY DEF KeysOK
<1>1. /\ Outcome /\ Reacted /\ call' \in D!Calls /\ UNCHANGED <<held, event, keyCode>>
      /\ wire' = wire \o sent' /\ tx # << >> /\ ~derailed
      /\ tx' # << >> => wire' = wire
  BY PathByte
<1>2. PressedAtEnd => \/ held \cap Keys # {}
                      \/ event.kind = "Break" /\ event.key \in Keys
  BY <1>1 DEF PathInv, KeysOK
<1>3. CASE tx' # << >>
  <2>1. PressedAtEnd
    BY <1>1, <1>3 DEF PressedAtEnd, Ends
  <2> QED
    BY <1>1, <1>2, <1>3, <2>1
<1>4. CASE tx' = << >>
  <2>1. /\ S!SettingsInRange /\ wire \in Seq(Packets) /\ sent' \in Seq(Packets)
        /\ Ends(wire \o sent', Presses, KeyPackets, keyCode # 0)
    <3>1. Ends(wire', Presses, KeyPackets, keyCode' # 0)
      BY DEF PressedAtEnd, Ends
    <3> QED
      BY <1>1, <3>1 DEF PathInv, LineOK, TuningOK, Reacted
  <2>2. \/ \E i \in DOMAIN sent' : sent'[i] \in Presses
        \/ PressedAtEnd /\ \A i \in DOMAIN sent' : sent'[i] \notin KeyPackets
    BY <2>1, EndsAfterAppend DEF PressedAtEnd
  <2>3. CASE event.kind = "Break" /\ event.key \in Keys
    <3>1. call'.cb = "KeyRelease" /\ call'.cb \in KeyCalls
      BY <1>1, <1>4, <2>3 DEF Outcome, KeyCalls
    <3> QED
      BY <1>1, <2>1, <2>2, <3>1, KeyOrders
  <2>4. CASE ~(event.kind = "Break" /\ event.key \in Keys) /\ call'.cb \in KeyCalls
    <3>1. event.kind = "Make" /\ event.key \in Keys
      BY <1>1, <2>4 DEF Outcome
    <3>2. event.key \in held
      BY <3>1 DEF PathInv, IInv, EventOK
    <3> QED
      BY <1>1, <3>1, <3>2
  <2>5. CASE ~(event.kind = "Break" /\ event.key \in Keys) /\ call'.cb \notin KeyCalls
    <3>1. \A i \in DOMAIN sent' : sent'[i] \notin KeyPackets
      BY <1>1, <2>1, <2>5, KeyOrders
    <3>2. PressedAtEnd
      BY <2>2, <3>1 DEF Presses
    <3> QED
      BY <1>1, <1>2, <2>5, <3>2
  <2> QED
    BY <2>3, <2>4, <2>5
<1> QED
  BY <1>3, <1>4

LEMMA DecodeKeepsNotes ==
  ASSUME PathInv, PathDecodeByte
  PROVE  StruckOK' /\ NotesOK'
<1>1. /\ Outcome /\ Reacted /\ call' \in D!Calls /\ UNCHANGED <<notes, event, sounding, struck, strayed>>
      /\ wire' = wire \o sent' /\ tx # << >>
      /\ tx' # << >> => sent' = << >> /\ wire' = wire
      /\ call'.cb \notin KeyCalls => UNCHANGED settings
  BY PathByte
<1>2. event.kind \notin {"Make", "Break"} => UNCHANGED <<transpose, channel, patch>>
  BY <1>1 DEF Outcome, settings
<1>3. StruckOK'
  <2>1. event.kind = "NoteOn" => Tuning' = Tuning
    BY <1>2 DEF Tuning
  <2> QED
    BY <1>1, <2>1 DEF PathInv, StruckOK
<1>4. NotesOK'
  <2>1. SUFFICES ASSUME ~strayed', NEW s \in Tones, SoundsAtEnd(s)'
                 PROVE  (\/ \E n \in notes : s = Tone(n)
                         \/ event.kind = "NoteOff" /\ tx # << >> /\ s = TunedTone(event.val))'
    BY DEF NotesOK
  <2>2. \A n : Tone(n)' = Tone(n)
    BY <1>1 DEF Tone
  <2>3. event.kind = "NoteOff" => TunedTone(event.val)' = TunedTone(event.val)
    BY <1>1, <1>2 DEF TunedTone, S!Transposed
  <2>4. SoundsAtEnd(s) => \/ \E n \in notes : s = Tone(n)
                          \/ event.kind = "NoteOff" /\ s = TunedTone(event.val)
    BY <1>1, <2>1 DEF PathInv, NotesOK
  <2>5. CASE tx' # << >>
    <3>1. SoundsAtEnd(s)
      BY <1>1, <2>1, <2>5 DEF SoundsAtEnd, Ends
    <3> QED
      BY <1>1, <2>2, <2>3, <2>4, <2>5, <3>1
  <2>6. CASE tx' = << >>
    <3>1. /\ S!SettingsInRange /\ wire \in Seq(Packets) /\ sent' \in Seq(Packets)
          /\ Ends(wire \o sent', NoteStarts(s), NoteOrders(s), s \in sounding)
      <4>1. Ends(wire', NoteStarts(s), NoteOrders(s), s \in sounding')
        BY <2>1 DEF SoundsAtEnd, Ends
      <4> QED
        BY <1>1, <4>1 DEF PathInv, LineOK, TuningOK, Reacted
    <3>2. \/ \E i \in DOMAIN sent' : sent'[i] \in NoteStarts(s)
          \/ SoundsAtEnd(s) /\ \A i \in DOMAIN sent' : sent'[i] \notin NoteOrders(s)
      BY <3>1, EndsAfterAppend DEF SoundsAtEnd
    <3>3. CASE event.kind = "NoteOff"
      <4>1. call'.cb = "MidiRelease" /\ call'.cb \in MidiCalls /\ call'.code = event.val
        <5>1. call'.cb = "MidiRelease" /\ call'.cb \in MidiCalls
          BY <1>1, <2>6, <3>3 DEF Outcome, MidiCalls
        <5>2. <<call'>> = <<D!Callback("MidiRelease", event.val, FALSE, 0)>>
          BY <1>1, <3>3, <5>1 DEF Outcome, Expected
        <5>3. call'.code = event.val
          BY <5>2 DEF D!Callback
        <5> QED
          BY <5>1, <5>3
      <4>2. SoundsAtEnd(s) /\ s # TunedTone(event.val)
        BY <1>1, <3>1, <3>2, <4>1, NoteSends
      <4> QED
        BY <1>1, <2>2, <2>4, <4>2
    <3>4. CASE event.kind # "NoteOff" /\ call'.cb \in MidiCalls
      <4>1. event.kind = "NoteOn" /\ call'.code = event.val
        <5>1. event.kind = "NoteOn" /\ <<call'>> = Expected(event)
          BY <1>1, <3>4 DEF Outcome
        <5>2. <<call'>> = <<D!Callback("MidiPress", event.val, FALSE, Velocity)>>
          BY <5>1 DEF Expected
        <5> QED
          BY <5>1, <5>2 DEF D!Callback
      <4>2. event.val \in notes /\ struck[event.val] = Tuning
        BY <1>1, <4>1 DEF PathInv, StruckOK
      <4>3. Tone(event.val) = TunedTone(event.val)
        BY <4>2 DEF Tone, TunedTone, Tuning, S!Transposed
      <4>4. s = TunedTone(event.val) \/ SoundsAtEnd(s)
        BY <1>1, <3>1, <3>2, <3>4, <4>1, NoteSends DEF NoteStarts
      <4> QED
        BY <1>1, <2>2, <2>4, <4>1, <4>2, <4>3, <4>4
    <3>5. CASE event.kind # "NoteOff" /\ call'.cb \notin MidiCalls
      <4>1. SoundsAtEnd(s)
        BY <1>1, <3>1, <3>2, <3>5, NoNoteOrders DEF NoteStarts
      <4> QED
        BY <1>1, <2>2, <2>4, <3>5, <4>1
    <3> QED
      BY <3>3, <3>4, <3>5
  <2> QED
    BY <2>5, <2>6
<1> QED
  BY <1>3, <1>4

LEMMA PathDecodeStep ==
  ASSUME PathInv, PathDecodeByte
  PROVE  PathInv'
<1>1. /\ IInv' /\ Reacted /\ wire' = wire \o sent' /\ tx # << >>
      /\ UNCHANGED <<keyCode, modifiers, sounding>>
      /\ tx' # << >> => sent' = << >> /\ wire' = wire
  BY PathByte
<1>2. LineOK'
  <2>1. /\ wire \in Seq(Packets) /\ sent' \in Seq(Packets) /\ Len(sent') <= 2
        /\ Len(wire) <= WireRoom
    BY <1>1 DEF PathInv, LineOK, Reacted
  <2>2. /\ wire \o sent' \in Seq(Packets) /\ Len(wire \o sent') = Len(wire) + Len(sent')
        /\ Len(wire) \in Nat /\ Len(sent') \in Nat
    BY <2>1, ConcatProperties
  <2> QED
    BY <1>1, <2>1, <2>2, InputPathAssumption DEF LineOK
<1>3. HostOK'
  BY <1>1 DEF PathInv, HostOK
<1> QED
  BY <1>1, <1>2, <1>3, DecodeKeepsTuning, DecodeKeepsKeys, DecodeKeepsNotes DEF PathInv
-----------------------------------------------------------------------------
(* The invariant of the path and what follows from it.                      *)

LEMMA PathInitInv == PathInit => PathInv
<1> SUFFICES ASSUME PathInit PROVE PathInv
  OBVIOUS
<1>1. IInv
  BY InitIInv DEF PathInit
<1>2. /\ transpose = 0 /\ channel = 0 /\ patch = 0 /\ wire = << >> /\ keyCode = 0 /\ modifiers = 0
      /\ sounding = {} /\ settingsWere = <<0, 0, 0>> /\ struck = [n \in Notes |-> <<0, 0>>]
  BY DEF PathInit, S!Init, U!ParserInit
<1>3. tx = << >> /\ event.kind = "Reply"
  BY DEF PathInit, Init, ReplyEvent
<1>4. LineOK
  BY <1>2, InputPathAssumption DEF LineOK
<1>5. HostOK
  BY <1>2 DEF HostOK
<1>6. TuningOK
  BY <1>2, InputPathAssumption DEF TuningOK, S!SettingsInRange, settings
<1>7. DOMAIN wire = {}
  BY <1>2
<1>8. KeysOK
  BY <1>2, <1>7 DEF KeysOK, PressedAtEnd, Ends
<1>9. StruckOK
  BY <1>2, <1>3 DEF StruckOK
<1>10. NotesOK
  BY <1>2, <1>7 DEF NotesOK, SoundsAtEnd, Ends
<1> QED
  BY <1>1, <1>4, <1>5, <1>6, <1>8, <1>9, <1>10 DEF PathInv

LEMMA PathStep == PathInv /\ [PathNext]_pathVars => PathInv'
<1> SUFFICES ASSUME PathInv, [PathNext]_pathVars PROVE PathInv'
  OBVIOUS
<1>1. CASE UNCHANGED pathVars
  <2>1. /\ UNCHANGED <<shift, ctrl, alt, capsLock, extend, release, prodFn, prodPos, prodKey,
                       ackByteOk, installed, call>>
        /\ UNCHANGED <<held, notes, buttons, tx, event, heard, clean, breaks, derailed>>
        /\ UNCHANGED <<transpose, channel, patch, wire, keyCode, modifiers, sounding,
                       settingsWere, struck, strayed>>
    BY <1>1 DEF pathVars, decoder, keyboard, settings, hid, outputs, ghosts
  <2>2. DecoderOK' = DecoderOK
    BY <1>1, <2>1 DEF DecoderOK, D!TypeOK, D!MessageInFlight, D!NoFlowError
  <2>3. IInv' = IInv
    BY <2>1, <2>2, SameRecord DEF IInv
  <2>4. LineOK' /\ HostOK' /\ TuningOK' /\ StruckOK'
    BY <2>1 DEF PathInv, LineOK, HostOK, TuningOK, StruckOK, S!SettingsInRange, IsOctaveMake, settings, Tuning
  <2>5. PressedAtEnd' = PressedAtEnd /\ \A s : SoundsAtEnd(s)' = SoundsAtEnd(s)
    BY <2>1 DEF PressedAtEnd, SoundsAtEnd, Ends
  <2>6. \A n : Tone(n)' = Tone(n) /\ TunedTone(n)' = TunedTone(n)
    BY <2>1 DEF Tone, TunedTone, S!Transposed
  <2>7. KeysOK' /\ NotesOK'
    BY <2>1, <2>5, <2>6 DEF PathInv, KeysOK, NotesOK
  <2> QED
    BY <2>3, <2>4, <2>7 DEF PathInv
<1> QED
  BY <1>1, PathBeginStep, PathDecodeStep, ReceiveStep DEF PathNext

(* The inductive invariant of the path from ps2interrupt() through the      *)
(* callbacks and the serial line to lufa_parse(): every key or note the host *)
(* will believe in once the line is empty has a key behind it.              *)
THEOREM PathInvariantHolds == PathSpec => []PathInv
<1> QED
  BY PathInitInv, PathStep, PTL DEF PathSpec

(* The settings of ps2ScanCodeToUsb(), the packets on the line and what     *)
(* lufa_parse() keeps for the host stay in their ranges; the line never     *)
(* holds more than the two packets one event can add.                       *)
THEOREM PathTypeCorrect == PathSpec => []PathTypeOK
<1>1. PathInv => PathTypeOK
  BY TypeFollows DEF PathInv, LineOK, HostOK, TuningOK, Tones, PathTypeOK
<1> QED
  BY <1>1, PathInvariantHolds, PTL

(* What ps2interrupt() promises of single events it keeps when its          *)
(* callbacks, the line and the USB controller run beside it.                *)
THEOREM StreamHoldsOnPath ==
  PathSpec => [](MidiFaithful /\ CleanDecodes /\ TwoBreaksHeal /\ NoStuckModifier)
<1>1. PathInv => MidiFaithful /\ CleanDecodes /\ TwoBreaksHeal /\ NoStuckModifier
  BY StreamPromises DEF PathInv
<1> QED
  BY <1>1, PathInvariantHolds, PTL

(* Once the line is empty, lufa_parse() holds a key code only while a typing *)
(* key is down, until ps2interrupt() takes one for a message.               *)
THEOREM LastReleaseClears == PathSpec => []NoStuckKey
<1>1. PathInv => NoStuckKey
  <2>1. Settled /\ keyCode # 0 => PressedAtEnd
    <3>1. DOMAIN << >> = {}
      OBVIOUS
    <3> QED
      BY <3>1 DEF Settled, PressedAtEnd, Ends
  <2> QED
    BY <2>1 DEF PathInv, KeysOK, NoStuckKey, Settled
<1> QED
  BY <1>1, PathInvariantHolds, PTL

(* Once the line is empty, every note onProdikeysMidiPress() started and    *)
(* the host still hears has its piano key down, unless a key was released   *)
(* under other settings than it was struck with.                            *)
THEOREM NotesEndWithTheirKeys == PathSpec => []NoHangingNote
<1>1. PathInv => NoHangingNote
  <2>1. ASSUME PathInv, Settled, ~strayed, NEW s \in sounding
        PROVE  \E n \in notes : s = <<struck[n][2], (n + struck[n][1]) % 256>>
    <3>1. DOMAIN << >> = {}
      OBVIOUS
    <3>2. SoundsAtEnd(s)
      BY <2>1, <3>1 DEF Settled, SoundsAtEnd, Ends
    <3>3. s \in Tones
      BY <2>1 DEF PathInv, HostOK
    <3> QED
      BY <2>1, <3>2, <3>3 DEF PathInv, NotesOK, Settled, Tone
  <2> QED
    BY <2>1 DEF NoHangingNote
<1> QED
  BY <1>1, PathInvariantHolds, PTL

(* Of all events, only the press of an octave key makes ps2ScanCodeToUsb()  *)
(* change the MIDI settings.                                                *)
THEOREM OctavesAloneRetune == PathSpec => []OnlyOctavePressRetunes
<1>1. PathInv => OnlyOctavePressRetunes
  BY DEF PathInv, TuningOK, OnlyOctavePressRetunes
<1> QED
  BY <1>1, PathInvariantHolds, PTL

=============================================================================
