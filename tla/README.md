# ProdikeysDM Adaptor in TLA+

The adaptor connects a Creative Prodikeys DM (a PS/2 keyboard with a piano
keyboard and a pitch wheel) to USB. Two microcontrollers share the work: an
ATmega328P runs the Arduino sketch and talks PS/2 to the keyboard, an ATmega32U2
runs the LUFA firmware and is a USB HID keyboard and MIDI device. They exchange
five-byte packets over a serial line.

    Prodikeys --PS/2--> ps2interrupt() -> callbacks --packets--> lufa_receive() -> HID, MIDI -> host
                        [sketch, interrupt]           serial     [firmware, main loop]
    Prodikeys <--PS/2-- kbd_set_lights() <----------packets----- ring buffer <-- LED reports, MIDI

Paths below: `PS2Keyboard.cpp` and `ProdikeysDM.ino` are the sketch,
`KeyboardMIDI.c` and `LightweightRingBuff.h` the firmware.

## Inventory

| Component | State | Operations | What is hard, what makes it correct |
|---|---|---|---|
| Scan-code and Prodikeys decoder (`ps2interrupt`, complete bytes) | modifier flags, `extend`, `release`, message function, position, note; callback pointers | one step per byte, callbacks | flags survive from one event to the next; a message's position, function and release flag must stay in step; piano keys must never be lost; leftovers must heal |
| Bit receiver (`ps2interrupt`, receive half) | `BitPos`, `CurrentBuffer` | one step per clock edge | edges missed while the handler prints; no timeout finds the next start bit: damage must not spread |
| Command sender (`ps2interrupt`, send half, `kbd_send_command`, `kbd_set_lights`) | `cmd_*`, both lines | clock edges, send, wait | one interrupt serves both directions; busy waits on its flags without a timeout; acknowledges shared by all commands; commands begun in mid-byte; FE replies |
| Start-up sequence (`keyboard_reset`) | position in the sequence | commands with and without a wait, installing callbacks | the answers of one command arrive while the next is sent |
| Polling interface (`available`, `read`, `reset`) | `CharBuffer` | none called by the sketch | - |
| Callbacks and MIDI settings (`keyboard_on...`, `ps2ScanCodeToUsb`) | transposition, channel, patch | one callback per event, packets out | range limits next to the protocol's widths, one setting at a time |
| Serial protocol (`lufa_send`, `lufa_receive`, both sides) | position and fields of the packet | bytes in and out | lost bytes, packets sent by interrupts in the middle of others, debug text on the same line, magic bytes in the payload |
| Sketch's parser and dump buffer | `dump_ofs`, `dump_data` | LED commands, pings, debug dump | the main loop prints and resets what the interrupt appends to; the lights must follow the host |
| Ring buffer, `UART_loop`, `MIDI_loop` | buffer, In, Out, Count | insert, remove, room check | two inserters, unchecked inserts, an 8-bit count |
| Parser, MIDI output | one key code, one modifier byte | parse, `MIDI_send` | one key code for all keys |
| HID report | last report, endpoint bank, idle timer (LUFA) | create a report from main loop or control request, poll | a report between two assignments; a control request changes what later reports are compared with |
| USB events, indicator LEDs, descriptors, build | - | - | static, not modelled |

Components interact by calls (decoder to callbacks to `lufa_send`, all inside the
PS/2 interrupt), by the serial line, and by shared memory between main program
and interrupt (callback pointers, the ring buffer). `PROJECT.json` lists the
hazards at their lines.

## Modules

**`PS2Decoder`** - the decoder, one action per kind of byte and position:
`ButtonByte` and `NoteByte` inside a message, `ControlByte`, `ModifierByte`,
`StartMessage` and `KeyByte` outside. The variables are the C globals without the
`ps2Keyboard_` prefix. A step is atomic because the handler runs with interrupts
disabled; `InstallNext`, the storing of one callback pointer by the main program,
interleaves. `call` is the callback the step made. Left out:
`ps2Keyboard_CharBuffer` (read only by calls the sketch does not make). The bit
counter and the reset of the send count after FE are in `PS2Bits` and `PS2Command`.

**`PS2Bits`** - the frame of a byte and the receive half of the interrupt, one
edge at a time. A byte is the set of its one bits.

**`PS2Receiver`** - the keyboard clocking bytes into `PS2Bits`. `MissedEdge` is
an edge the processor loses while the handler still runs, `LateEdge` one it
serves when the data line already shows another level; `damaged`, `startPos` and
`decoded` describe the frame for the properties.

**`PS2Command`** - both halves of `ps2interrupt`, `kbd_send_command` split where
the interrupt can come between (`BeginCommand`, `RaiseFlag`, `LoadCommand`,
`PullClock`, `ReleaseClock`, `SeeAckBit`, `SeeAckByte`), and the keyboard
(external): it clocks bytes out and in, stops when the clock is held, answers
commands, and answers a bad frame with FE. Complete bytes go to an instance of
`PS2Decoder`. The edge the host makes by pulling the clock is one of the handler's
own unless the keyboard holds the line low already.

**`SketchMain`** - the main program on top: the command sequence of
`keyboard_reset`, the installation of the callbacks, `loop()` with LED packets and
the debug dump. `dump` holds for each byte whether it is still to be printed.
The delays of the start-up stand for nothing: the next command may come at once.

**`ScanStream`** - the keyboard (external) feeding an instance of the decoder.
The byte sequences are those the handler expects and the sniffer log in
`src/info` shows. Assumed: bytes of one event are contiguous, replies to commands
come between events, a release is `E0 F0 code` or `F0 code`. `ScanCodeAssumption`
says which codes a key may have: none that the decoder reserves, and no typing key
51, the piano keys' prefix (the `/` of Brazilian keyboards has it, a Prodikeys has
no such key); after a leftover E0 it would be taken for the start of a note. The
answers are FA, AA and FE: the keyboard's id, AB 83, follows only F2, which is sent
once during the start-up, and 83 would be decoded as F7. All callbacks are
installed. `heard`, `clean`, `breaks`, `derailed` record the run for the
properties.

**`UsbScanCodes`** - the scan-code table as rows of a scan code and its usage code.

**`ProdikeysSketch`** - the callbacks. `TuneUp`/`TuneDown` are the two octave
cases with their chain of modifiers, `AfterPatch` the program change sent on the
way, and each `on...` action one callback with the packets it sends. Bytes keep
their width: transposed notes and the bend wrap as `uint8_t`/`uint16_t`.

**`UsbParser`** - `lufa_parse` and `MIDI_send` of the firmware.

**`InputPath`** - composes `ScanStream`, `ProdikeysSketch` and `UsbParser`: a byte
is decoded, its callback runs and its packets join the line in one step, as they
do inside the interrupt; the firmware takes packets one at a time; the host keeps
the set of sounding notes (MIDI: note on with velocity 0 is note off). It extends
`ScanStream`; `PathInit`, `PathBeginEvent` and `PathDecodeByte` add the rest of the path
to that module's actions. `OctaveAssumption` says that no plain key has the code of
an octave key, as the comments of the translation table do (`ProdikeysDM.ino:389`:
"ps2Ext ? Octave+ : ---"); a leftover E0 would turn it into one.

**`HidReport`** - `lufa_parse`'s two assignments, `CreateHIDReport`, and the two
ways a report leaves: `USBTask` (LUFA's `HID_Device_USBTask`, external: it compares
with the last report and fills the endpoint's bank) and `GetReport`, the control
request, answered in an interrupt. Packets join one at a time, any packet.

**`PacketChannel`** - the abstract promise of the serial protocol: each packet is
handed over exactly once and unchanged before the next.

**`LufaLink`** - one direction of the serial line byte by byte: a main program and
an interrupt that both call `lufa_send`, bytes lost if `Lossy`, packets nested if
`Nested`, debug text, and `lufa_receive`. With both switched off it implements
`PacketChannel` (`inFlight` is the packet whose bytes are not all sent, `handed`
the packet just parsed).

**`UsbToUsart`** - the ring buffer to the sketch in the polling build: the main
loop (`ReceivePing`, `TakeByte`/`Uncount`, `ReceiveMidi`) and `RingBuffer_Insert`
in the four steps of the compiled code, with the count alone under a lock; the
LED report interrupt as one step between any two. `CountMod` is twice `Size`, as
256 is twice 128. The instant at which a pointer is past the end before it wraps
is left out.

`MC...` modules hold the values for TLC, `...Proofs` the proofs.
Operators under a comment "Mutant" are wrong variants of the definition that follows
them, kept to show which property notices which mistake.

## Runs

| Run | Question | Bounds and why they do |
|---|---|---|
| `PS2Decoder` | any bytes at all, callbacks installed at any time: do position, function and release flag of a message agree (`MessageInFlight`), are the flow errors unreachable (`NoFlowError`)? | one byte of every kind the decoder tells apart; every stream of them |
| `ScanStream` | are piano keys always right (`MidiFaithful`), is every event right after a clean one (`CleanDecodes`), do leftovers heal (`TwoBreaksHeal`), do modifiers stay stuck (`NoStuckModifier`)? | a plain key, N (whose code is a prefix), an extended key, both shifts, an extended Alt, one note, button, wheel position and reply; any number of events |
| `PS2Receiver` | what does a damaged frame do to those after it: an aligned one is exact (`AlignedFrame`), none makes it worse (`MisalignmentNeverGrows`), trailing ones heal (`HighTailRealigns`), no frame becomes two bytes (`OneBytePerFrame`)? | a key, E0 and F0, so that short and long tails of ones occur; every position, any number of frames and losses |
| `SketchMain` | do start-up and lights come to an end (`CommandsFinish`) for the right reason (`AckIsForThisCommand`), are commands and bytes intact (`CommandIntact`, `BytesIntact`), do the lights follow (`LightsFollowHost`), is no byte dumped twice (`PrintsEachByteOnce`)? | the whole start-up; two LED reports, so that one comes while the answers to the other are due; one event of four bytes at any time |
| `HidReport` | is every polled report one the sketch asked for (`PolledChordsReal`), does the last one arrive (`HostCatchesUp`)? | two keys, three modifier bytes, three packets: one in the bank, one overtaking it, one half parsed |
| `ProdikeysSketch` | range of the settings, status bytes, legal bends (`BendLegal`), one setting per key | the real octave of 12 and 16 channels; transposition up to 25 (two octaves and a remainder) and two patches, so both limits are reached |
| `InputPath` | end to end: does every note end with its key (`NoHangingNote`), does nothing but an octave press retune (`OnlyOctavePressRetunes`), does the last release clear the key on the host (`NoStuckKey`)? | the N key, both octave keys, Shift, one piano key; an octave of 2 steps and limit 2, two channels; an event begins once the line is empty, which loses nothing: neither keyboard nor sketch sees the firmware, so its steps commute with theirs, and the host's view is compared only when the line is empty |
| `LufaLink_Lossy` | realignment (`Realigns`), exactness (`AlignedIsExact`), damage (`OneStrayPacket`) | two packets that differ in every field; any loss and nesting |
| `LufaLink_Channel` | `ImplementsChannel` | five packets, repeated and distinct bytes |
| `UsbToUsart` | do pointers and count agree through overruns and the wrap of the count (`PointersAgree`), is the order kept (`FifoUntilOverrun`), does the buffer empty after a pause (`Drains`)? | 7 bytes, so packets of 5 wrap at every place and overrun at once; one LED report, at any moment, the insertion it corrupts included |

Two runs show a disagreement of the code with a comment (`PROJECT.json`, findings):

* `UsbToUsart_Led`: an LED report in an interrupt can hit an insertion of the main
  loop, which the buffer forbids.
* `SketchMain_Overlap`: a command begun while the keyboard is in the middle of a byte
  does not get through. If the keyboard's clock is low just then, the host's pull
  makes no edge and every bit goes out one edge late; and the bits of the
  interrupted byte stay in the receiver, so that the answer is not recognised. The
  main program waits for ever. It really stops there, so deadlock is not checked.

Smaller disagreements seen while modelling, without a run of their own:

* The release flag a piano key's or button's release leaves behind makes the next
  key press a release (`PS2Keyboard.cpp:64` against 301 and 308).
* With a stale `extend` the N key is taken for the start of a Prodikeys message and
  eats the next key (`PS2Keyboard.cpp:453`); `extend` also reports a plain key as
  extended (`PS2Keyboard.cpp:63` against 379).
* The lowest wheel position wraps to the highest bend (`ProdikeysDM.ino:607`);
  `BendLegal` excepts it.
* The room check asks for 4 bytes, 5 are sent (`KeyboardMIDI.c:442` against 465).
* A payload byte AA begins a packet after a loss, against the comment "New packet
  begins" (`KeyboardMIDI.c:254`), which `Realigns` therefore has to exclude
  (`MCLufaLink`'s payloads have no AA).
* "Show each and every PS2 uint8_t" (`ProdikeysDM.ino:509`): bytes that arrive
  between the end of the print loop and the reset of the offset are not shown.
* Parity and stop bit of a received byte are counted but not checked
  (`PS2Keyboard.cpp:236`).
* Shift+Octave changes the channel, not the semitone tuning of `src/README.md:27`
  (`ProdikeysDM.ino:391`); Ctrl+Octave does not change the patch while Caps Lock is
  on (`ProdikeysDM.ino:397`).

What `Overlap` stands for. The main program begins a command without looking at
what the keyboard does. With `Overlap = FALSE` it is assumed to do so between two
events of the keyboard; the keyboard may have bytes to send and begin one the moment
the clock is free. This is an assumption about the user's timing that nothing in the
code brings about. With `Overlap = TRUE` a command may begin in the middle of an
event; assumed is then only what the start-up's delays and prints do take care of
(`Paused`). In both cases the keyboard makes no falling edge in the few instructions
between the raising of the flag and the pull of the clock. The second byte of the
LED command, sent as soon as FA is decoded (`PS2Keyboard.cpp:181`), begins in the
last clock pulse of that FA or just after it; `Overlap = FALSE` takes it as after.

What the weak forms mean: `NoHangingNote` excepts a piano key released under
other settings than it was struck with (the code transposes a release with the
settings of the moment). `NoStuckKey` and `NoStuckModifier` except runs in which
a typing key was taken for a message (`derailed`). `PointersAgree` and
`FifoUntilOverrun` end when an LED report finds the main program between its load and
its store of In (`raced`). `NoStuckModifier` says "flag set, so a key is held" only:
two shift keys share one flag, so the converse fails. `HostCatchesUp` excepts a
GET_REPORT that overtook an older report still in the bank, after which the host ends
with that one, unless its idle timer is on.

Fairness. `UsbToUsart!FairSpec`: weak fairness of the main loop's steps. The loop
waits for nothing but the UART to have sent a byte, which it always does;
interrupts end and are bounded there by `LedReports`. Nothing is assumed of the host
or the sketch, which is why `Drains` starts from their pause. `SketchMain!FairSpec`:
something the main program or the keyboard can do is eventually done; nothing more
is needed because each waits for the other. A keyboard that has begun a byte goes
on clocking it, and the processor runs. `HidReport!FairSpec`: main loop, start of
frame and the polling of an interrupt endpoint, which the USB host does at the
interval of the descriptor. Packets and GET_REPORT may stay away.

## Proofs

All are for every value of the constants under the named assumptions.

* `PS2DecoderProofs`: `TypeCorrect`, `MessagesStayInStep`, `FlowErrorsUnreachable`. The invariant is
  `TypeOK` with `MessageInFlight`: the flow errors need a position beyond 1 or an
  unknown function while a message is read, and only the reset in `StartMessage`
  excludes the first, because the position runs on after a message.
* `InputPathProofs`, about `ScanStream`: `TypeCorrect`, `PianoKeysAlwaysPlay`, `CleanEventsDecode`,
  `TwoBreaksClean`, `ModifiersAreHeld`, for every set of keys, modifiers, notes,
  buttons and answers and any number of events. The properties speak of the end of
  an event and say nothing about its middle, so the invariant (`IInv`) follows the
  event byte by byte. Its core is what can be left between two events (`AtRest`):
  no message at all, or a typing key taken for the button prefix whose message
  waits for its second byte. From there `StageOK` says where the event is and what
  has been heard of it: nothing sent (`Begun`), the E0 sent (`Prefixed`), a release
  before its last byte (`KeyRising`), inside a message (`InMessage`), over
  (`Ended`). The E0 of a message ends a waiting message as a button nobody has, so
  every piano key's own E0 51 is seen outside a message, or its 51 is, with the E0
  left over: that is why piano keys never fail. `BreaksOK` follows the releases in
  a row: the first ends a waiting message, the second clears the flags. `FlagsOK`
  ties each modifier flag to a key that is held or whose release is on the wire.
  The proof goes by the kind of byte outside and inside a message (`ModifierReceived`,
  `KeyReceived`, `ButtonPressed`, ...), then by stage; the decoder's own invariant is
  taken from `PS2DecoderProofs` (`ReceiveKeepsDecoder`).
* `InputPathProofs`, about `InputPath`: `PathTypeCorrect`, `LastReleaseClears`,
  `NotesEndWithTheirKeys`, `OctavesAloneRetune`, and `StreamHoldsOnPath`, which carries
  the four properties of `ScanStream` over; for every set of keys, notes and buttons, every
  range of the settings (`InputPathAssumption`) and every room on the line
  (`WireRoom`), so also when events begin while packets wait, which the run excludes.
  The properties say what the host believes once the line is empty. The invariant
  (`PathInv`) says what it will believe then, whatever waits: the last packet on the line
  about a key, or about a note, decides, and if there is none the host's present state
  does (`Ends`). The firmware taking the first packet does not change this
  (`EndsAfterHead`), and a byte's packets, joining at the end, overrule it
  (`EndsAfterAppend`). `KeysOK` backs a key the host will believe in by a typing key that
  is down or whose release is still being sent, `NotesOK` a note by a piano key, at the
  settings it was struck with, that is down or whose release is still being sent. Three
  lemmas join the components: `ByteOutcome`, which callbacks the byte of an event can
  make (only its last byte makes one that matters: a typing key's with its own code, a
  release as a release unless derailed), `CallbackReacts`, which packets the callback sends
  and which settings it changes, and `Obeyed`, what `lufa_parse` makes of a packet.
* `PS2ReceiverProofs`: `TypeCorrect`, `AlignedFramesDecode`, `MisalignmentBounded`,
  `HighTailHeals`, `AtMostOneByte`, for every set of bytes and any missed or late
  edges. The invariant says where the handler stands at every edge of an undamaged
  frame (`Ahead`), that it stays at 0 once it has wrapped into a tail of ones
  (`Heals`), what an aligned one has collected (`Exact`), and, for damaged frames
  too, that bits are never counted twice (`Counted`).
* `HidReportProofs`: `TypeCorrect`, `PolledChordsAreReal`. Polled reports are made
  between packets, so the invariant is about the variables: key code and modifiers
  are a chord the sketch asked for when no packet is half parsed, and key code and
  the pending modifiers are one when it is.
* `ProdikeysSketchProofs`: `SettingsSafe`, `StatusSafe`, `OneSettingMoves`,
  `BendsAreLegal`. Ranges and status bytes together are inductive; the third is an
  action property; the last assumes that the pitch is one `map()` can return.
* `LufaLinkProofs`: `TypeCorrect`; `Realignment`, assuming no payload byte is
  magic - the invariant is that after `i` undisturbed bytes of a packet the
  receiver is at 0 or at least at `i`; `AtMostOneStray`, under the same assumption -
  a receiver that has finished early is behind the sender, and too few bytes are left
  for a second packet; `Exactness`, without that assumption - an aligned receiver is
  exactly in step; `LinkImplementsChannel`, assuming neither loss nor nesting.
* `SketchMainProofs`, over `PS2Command` and `SketchMain`, for all packets, all events
  of the keyboard (`EventsAssumption`: sequences of bytes, none empty) and any number
  of both. `TypeCorrect` and `NothingPrintedTwice` hold with and without `Overlap`.
  `CommandsArrive`, `HalvesKeepApart`, `NoForeignAck` and `LightsAreTheHosts` assume
  `Overlap = FALSE`; with overlap they do not hold in general (see
  `SketchMain_Overlap`). The properties say what is true when a frame is over, the
  invariant what is true at every edge of it. Host and keyboard take turns on the
  line, and `LineOK` ties their counters together in each of the four turns: the
  host is off the line and the receive half follows the keyboard bit by bit
  (`HostOff`, `Following`); the host is about to take the line (`Taking`); it holds
  the clock and has put out the start bit (`Holding`); the keyboard clocks the
  command in (`Clocking`). In the last the send count is one more than the edges the
  keyboard has made, `cmdValue` holds the bits not yet sent (`Shifting`), and what has
  been sampled is the beginning of the frame. The turns follow from
  each other only because the keyboard does not begin a byte while the data line is
  low and the host begins a command only when it is high. The acknowledge byte is the
  command's own because it is cleared before the command and nothing is received
  until the command has been (`NotHeard`). For the lights, `LightsOK` says that what
  is on its way to the keyboard and what is still to be sent brings it to the
  host's last report; of the start-up sequence only ED may make the keyboard take the
  next byte for lights, which is a fact about the bits of those eight bytes
  (`OnlyEDAnnounces`). The dump needs only that in its last step, before the offset
  is set back, nothing is printed (`DumpOK`). The decoder's invariant comes from
  `PS2DecoderProofs`; `PS2Command` reaches the decoder by an instance of its own, so
  the two instances are first shown to be the same (`SameDecoder`).
* `UsbToUsartProofs`: `PointersAlwaysAgree`, for any number of LED reports, until
  one races an insertion (without that exception it is false, see
  `UsbToUsart_Led`). The invariant adds that the register holds In during an
  insertion; the arithmetic is a case split on the laps In is ahead, from -1 to 2.
  `TypeCorrect` and `BytesStayInOrder`, for any number of LED
  reports, until an overrun or such a race. The invariant (`OInv`) says that up to
  the first overrun the waiting bytes are those in the buffer from Out on and their
  number is the count, one more or less inside an insertion or a removal, and that
  a byte between its store and the step of In lies where In points. An insertion
  into a full buffer has by then destroyed the oldest byte, so there the order is
  given up one step before the overrun is recorded.

Every safety property of a passing run is stated by a theorem. Only model-checked are the
liveness properties (`Drains`, `CommandsFinish`, `HostCatchesUp`), which are out of the
prover's reach: that the start-up and the lights come to an end, for one, is known for
the instance of the run only. The two disagreements are runs, not theorems.

## Not modelled

* The polling interface of `PS2Keyboard` (`available`, `read`, `reset`): the sketch
  never calls it.
* The three signal functions (`PS2Keyboard.cpp:530`): they write to pins that are
  inputs and drive no line.
* The `SERIAL_USE_ISR` build: not the default; its receive buffer is filled by an
  interrupt instead of the loop.
* USB enumeration and descriptors (LUFA and static tables), indicator LEDs, build and
  flashing scripts. Of the descriptors, `HidReport` uses that the host polls.
* The overrun of the 32-byte dump (`ProdikeysDM.ino:88`): how many bytes a user can
  play while the main program waits is not bounded by the code.
* A key pressed and released between two reports, and modifiers pressed without a
  key: the code promises nothing about them.

## Plan

Built: the decoder, callbacks, link and ring buffer first, then the bits, the
command sender and the main program, and the HID report. Left, in this order:

1. The `SERIAL_USE_ISR` build: the receive buffer with one inserter and one remover,
   refined to a bounded queue.
2. `UsbToUsart` composed with `LufaLink`, a refinement to a FIFO of packets.
