----------------------------- MODULE PS2Command -----------------------------
(***************************************************************************)
(* Commands to the keyboard, bit by bit: kbd_send_command() in the main    *)
(* program, both halves of ps2interrupt(), and the keyboard.               *)
(*                                                                         *)
(* The interrupt runs at every falling edge of the clock line, which is    *)
(* low while either side pulls it: one edge is missing when the second     *)
(* side pulls a line that is low already.  The keyboard changes data       *)
(* before its falling edge and samples the line when the clock rises.      *)
(* A level is 1 while a side does not pull its line.                       *)
(***************************************************************************)
EXTENDS PS2Bits, Sequences

CONSTANT Overlap    \* commands and what the keyboard sends may get into each other's way

ASSUME CommandAssumption == Overlap \in BOOLEAN

VARIABLES
    pc,             \* where the main program is
    todo, cmd,      \* commands still to send; the last one begun
    cmdInProgress, cmdCount, cmdValue, cmdParity, cmdAck,
    hostClock, hostData,
    kbClock, kbData,
    kbMode, kbPos,  \* the keyboard clocks a byte in or out, and how far it is
    kbIn, out,      \* the bits it has sampled, the events (sequences of bytes) it has to send
    midEvent,       \* it has sent a part of the first event
    heard,          \* what it made of the last command: the byte, and whether the frame was good
    kbOption, kbLights,     \* the next byte is the argument of ED; the lights
    decoded,        \* the byte this step completed, if any
    shift, ctrl, alt, capsLock, extend, release, prodFn, prodPos, prodKey,
    ackByteOk, installed, call

D == INSTANCE PS2Decoder WITH Wire <- 0..255

sender   == <<cmdInProgress, cmdCount, cmdValue, cmdParity, cmdAck>>
receiver == <<bitPos, buffer>>
host     == <<pc, todo, cmd>>
keyboard == <<kbClock, kbData, kbMode, kbPos, kbIn, out, midEvent, kbOption, kbLights>>
decoder  == <<shift, ctrl, alt, capsLock, extend, release, prodFn, prodPos, prodKey,
              installed, call>>
rest     == <<keyboard, receiver, decoder, decoded>>    \* what kbd_send_command() leaves alone
commandVars == <<host, sender, hostClock, hostData, heard, ackByteOk, rest>>

(* Commands: the caller waits for nothing, for the acknowledge bit, or also *)
(* for the acknowledge byte FA; flush: dump_flush() follows.                *)
Command(val, wait, flush) == [val |-> val, wait |-> wait, flush |-> flush]

(* Mutant: the value goes before the command it belongs to.                 *)
LightsBeforeCommand(val) == <<Command(val, "byte", FALSE), Command(\hED, "bit", TRUE)>>

kbd_set_lights(val) == <<Command(\hED, "byte", FALSE), Command(val, "bit", TRUE)>>

KeyboardQuiet == kbMode = "idle" /\ out = << >> /\ hostData = 1

(* A command begins when the keyboard has taken the one before: the program *)
(* waits for that, or for longer than it lasts.                             *)
CommandTaken == kbMode # "receive" /\ hostData = 1

(* What is assumed without Overlap: a command begins only when the keyboard *)
(* is between two events and its last clock pulse is over.                  *)
BetweenEvents == ~midEvent

(* What is assumed with Overlap: the delays of the start-up, after F2 and   *)
(* after a command that waits for nothing, outlast the answer, and printing *)
(* outlasts the last clock pulse of an acknowledge.                         *)
Paused ==
    /\ cmd.wait = "none" \/ cmd.val = \hF2 => out = << >>
    /\ cmd.flush => ~(kbMode = "send" /\ kbPos = FrameLen - 1 /\ kbClock = 0)

(* In the few instructions until the clock is held the keyboard does not    *)
(* pull it; it may pull it already.                                         *)
Preparing == pc \in {"raise", "load", "pull"}

-----------------------------------------------------------------------------
(* The interrupt.                                                           *)

(* Mutant: the handler goes on sending after the acknowledge bit.           *)
ShiftOutRunsOn(value) ==
    /\ cmdCount' = cmdCount + 1
    /\ hostData' = CASE cmdCount' = 1      -> 0
                     [] cmdCount' \in 2..9 -> Level(0 \in cmdValue)
                     [] cmdCount' = 10     -> cmdParity
                     [] cmdCount' = 11     -> 1
                     [] OTHER              -> hostData
    /\ cmdValue' = IF cmdCount' \in 2..9 THEN {i - 1 : i \in cmdValue \ {0}} ELSE cmdValue
    /\ cmdAck' = IF cmdCount' = 12 THEN value ELSE cmdAck
    /\ UNCHANGED <<cmdInProgress, cmdParity>>

(* Twelve edges: the first is the host's own.                               *)
ShiftOut(value) ==
    /\ cmdCount' = cmdCount + 1
    /\ hostData' = CASE cmdCount' = 1      -> 0
                     [] cmdCount' \in 2..9 -> Level(0 \in cmdValue)
                     [] cmdCount' = 10     -> cmdParity
                     [] cmdCount' = 11     -> 1
                     [] OTHER              -> hostData
    /\ cmdValue' = IF cmdCount' \in 2..9 THEN {i - 1 : i \in cmdValue \ {0}} ELSE cmdValue
    /\ cmdAck' = IF cmdCount' = 12 THEN value ELSE cmdAck
    /\ cmdInProgress' = (cmdCount' # 12)
    /\ UNCHANGED cmdParity

(* A completed byte is decoded at once; FE also sets the send count back.   *)
Collect(value) ==
    /\ ReceiveEdge(value)
    /\ cmdCount' = IF Completes /\ prodFn = 0 /\ buffer = Bits(\hFE) THEN 0 ELSE cmdCount
    /\ IF Completes
       THEN /\ decoded' = <<buffer>>
            /\ D!Receive(CHOOSE n \in 0..255 : Bits(n) = buffer)
       ELSE decoded' = << >> /\ UNCHANGED <<decoder, ackByteOk>>
    /\ UNCHANGED <<cmdInProgress, cmdValue, cmdParity, cmdAck, hostData>>

ps2interrupt(value) ==
    \/ cmdInProgress /\ ShiftOut(value) /\ decoded' = << >> /\ UNCHANGED <<receiver, decoder, ackByteOk>>
    \/ ~cmdInProgress /\ Collect(value)

-----------------------------------------------------------------------------
(* kbd_send_command().                                                      *)

(* Mutant: the acknowledge of an earlier command still counts.              *)
ClearAckNever(wait) == ackByteOk' = ackByteOk

ClearAck(wait) == ackByteOk' = (ackByteOk /\ wait # "byte")

BeginCommand ==
    /\ pc = "ready" /\ todo # << >>
    /\ CommandTaken
    /\ IF Overlap THEN Paused ELSE BetweenEvents
    /\ pc' = "raise" /\ cmd' = Head(todo) /\ todo' = Tail(todo)
    /\ ClearAck(Head(todo).wait)
    /\ heard' = << >>
    /\ UNCHANGED <<sender, hostClock, hostData, rest>>

RaiseFlag ==
    /\ pc = "raise" /\ pc' = "load"
    /\ cmdInProgress' = TRUE
    /\ UNCHANGED <<todo, cmd, cmdCount, cmdValue, cmdParity, cmdAck, hostClock, hostData,
                   heard, ackByteOk, rest>>

(* Mutant: even parity.                                                     *)
LoadEvenParity ==
    /\ cmdCount' = 0 /\ cmdValue' = Bits(cmd.val) /\ cmdAck' = 1
    /\ cmdParity' = 1 - OddParity(Bits(cmd.val))

Load ==
    /\ cmdCount' = 0 /\ cmdValue' = Bits(cmd.val) /\ cmdAck' = 1
    /\ cmdParity' = OddParity(Bits(cmd.val))

LoadCommand ==
    /\ pc = "load" /\ pc' = "pull"
    /\ Load
    /\ hostData' = 1
    /\ UNCHANGED <<todo, cmd, cmdInProgress, hostClock, heard, ackByteOk, rest>>

(* The flag is up: the edge of the host's own pull is the send half's.      *)
PullClock ==
    /\ pc = "pull" /\ pc' = "release"
    /\ hostClock' = 0
    /\ IF kbClock = 1 THEN ShiftOut(hostData * kbData) ELSE UNCHANGED <<sender, hostData>>
    /\ UNCHANGED <<todo, cmd, heard, ackByteOk, rest>>

AfterWait == IF cmd.flush THEN "flush" ELSE "ready"

(* The delay of one clock cycle is long enough for a keyboard that is in    *)
(* the middle of a byte to notice that the clock is held, and to stop.      *)
ReleaseClock ==
    /\ pc = "release" /\ kbMode = "idle"
    /\ pc' = IF cmd.wait = "none" THEN AfterWait ELSE "bit"
    /\ hostData' = 0 /\ hostClock' = 1
    /\ UNCHANGED <<todo, cmd, sender, heard, ackByteOk, rest>>

SeeAckBit ==
    /\ pc = "bit" /\ cmdAck = 0
    /\ pc' = IF cmd.wait = "byte" THEN "byte" ELSE AfterWait
    /\ cmdInProgress' = FALSE
    /\ UNCHANGED <<todo, cmd, cmdCount, cmdValue, cmdParity, cmdAck, hostClock, hostData,
                   heard, ackByteOk, rest>>

SeeAckByte ==
    /\ pc = "byte" /\ ackByteOk
    /\ pc' = AfterWait
    /\ UNCHANGED <<todo, cmd, sender, hostClock, hostData, heard, ackByteOk, rest>>

SendStep ==
    \/ BeginCommand \/ RaiseFlag \/ LoadCommand \/ PullClock \/ ReleaseClock
    \/ SeeAckBit \/ SeeAckByte

-----------------------------------------------------------------------------
(* The keyboard.                                                            *)

(* Its answers, as the sniffer log in src/info and the comments of          *)
(* keyboard_reset() have them.  A frame with a wrong parity or stop bit is  *)
(* answered by FE.                                                          *)
Answer(val) ==
    CASE val = Bits(\hFF) -> << <<\hFA>>, <<\hAA>> >>
      [] val = Bits(\hF2) -> << <<\hFA, \hAB, \h83>> >>
      [] val = Bits(\hE8) -> << <<\h23>> >>
      [] OTHER            -> << <<\hFA>> >>

(* The keyboard pulls the clock, with level on its side of the data line.   *)
Fall(level) ==
    /\ kbClock = 1 /\ hostClock = 1
    /\ kbClock' = 0 /\ kbData' = level
    /\ ps2interrupt(level * hostData)
    /\ UNCHANGED <<kbMode, kbPos, kbIn, out, heard, kbOption, kbLights>>

OnTheWire == Bits(Head(Head(out)))

FallSend ==
    /\ kbMode = "send"
    /\ ~Preparing
    /\ Fall(FrameBit(OnTheWire, kbPos))
    /\ midEvent' = TRUE

FallReceive ==
    /\ kbMode = "receive"
    /\ Fall(Level(kbPos # FrameLen - 1))
    /\ UNCHANGED midEvent

StartSend ==
    /\ kbMode = "idle" /\ out # << >> /\ hostClock = 1 /\ hostData = 1
    /\ kbMode' = "send"
    /\ UNCHANGED <<kbClock, kbData, kbPos, kbIn, out, midEvent, heard, kbOption, kbLights>>

StartReceive ==
    /\ kbMode = "idle" /\ hostClock = 1 /\ hostData = 0
    /\ kbMode' = "receive"
    /\ UNCHANGED <<kbClock, kbData, kbPos, kbIn, out, midEvent, heard, kbOption, kbLights>>

(* A held clock stops the keyboard; it will send the byte again.            *)
Stop ==
    /\ kbMode # "idle" /\ kbClock = 1 /\ hostClock = 0
    /\ kbMode' = "idle" /\ kbData' = 1 /\ kbPos' = 0 /\ kbIn' = << >>
    /\ UNCHANGED <<kbClock, out, midEvent, heard, kbOption, kbLights>>

RiseSend ==
    /\ kbMode = "send" /\ kbClock = 0 /\ kbClock' = 1
    /\ IF kbPos = FrameLen - 1
       THEN /\ LET more == Tail(Head(out)) IN
               /\ midEvent' = (more # << >>)
               /\ out' = IF more = << >> THEN Tail(out) ELSE <<more>> \o Tail(out)
            /\ kbMode' = "idle" /\ kbData' = 1 /\ kbPos' = 0
       ELSE kbPos' = kbPos + 1 /\ UNCHANGED <<kbMode, out, midEvent, kbData>>
    /\ UNCHANGED <<kbIn, heard, kbOption, kbLights>>

RiseReceive ==
    /\ kbMode = "receive" /\ kbClock = 0 /\ kbClock' = 1
    /\ UNCHANGED midEvent
    /\ \/ /\ kbPos < FrameLen - 1
          /\ kbIn' = Append(kbIn, hostData) /\ kbPos' = kbPos + 1
          /\ UNCHANGED <<kbMode, kbData, out, heard, kbOption, kbLights>>
       \/ /\ kbPos = FrameLen - 1
          /\ kbMode' = "idle" /\ kbData' = 1 /\ kbPos' = 0 /\ kbIn' = << >>
          /\ LET val  == {i \in 0..7 : kbIn[i + 1] = 1}
                 good == kbIn[9] = OddParity(val) /\ kbIn[10] = 1
             IN /\ heard' = <<[val |-> val, good |-> good]>>
                /\ out' = (IF good THEN Answer(val) ELSE << <<\hFE>> >>) \o out
                /\ kbLights' = IF good /\ kbOption THEN val ELSE kbLights
                /\ kbOption' = (good /\ ~kbOption /\ val = Bits(\hED))

KeyboardStep ==
    /\ \/ FallSend \/ FallReceive
       \/ /\ \/ StartSend \/ StartReceive \/ Stop
             \/ RiseSend \/ RiseReceive
          /\ decoded' = << >>
          /\ UNCHANGED <<sender, hostData, receiver, decoder, ackByteOk>>
    /\ UNCHANGED <<host, hostClock>>

-----------------------------------------------------------------------------
CommandInit ==
    /\ bitPos = 0 /\ buffer = {} /\ decoded = << >>
    /\ cmdInProgress = FALSE /\ cmdCount = 0 /\ cmdValue = {} /\ cmdParity = 0 /\ cmdAck = 1
    /\ hostClock = 1 /\ hostData = 1
    /\ kbClock = 1 /\ kbData = 1 /\ kbMode = "idle" /\ kbPos = 0
    /\ kbIn = << >> /\ out = << >> /\ midEvent = FALSE /\ heard = << >> /\ kbOption = FALSE /\ kbLights = {}
    /\ D!Init

TypeOK ==
    /\ pc \in {"ready", "raise", "load", "pull", "release", "bit", "byte", "flush", "reset"}
    /\ cmdInProgress \in BOOLEAN /\ cmdCount \in 0..12 /\ cmdValue \in AllBytes
    /\ cmdParity \in {0, 1} /\ cmdAck \in {0, 1}
    /\ hostClock \in {0, 1} /\ hostData \in {0, 1} /\ kbClock \in {0, 1} /\ kbData \in {0, 1}
    /\ kbMode \in {"idle", "send", "receive"} /\ kbPos \in 0..(FrameLen - 1)
    /\ bitPos \in 0..(FrameLen - 1) /\ buffer \in AllBytes
    /\ D!TypeOK

(* "shift out byte, parity and receive ack bit": what the keyboard clocks   *)
(* in is the byte kbd_send_command() was given, in a good frame.            *)
CommandIntact ==
    heard # << >> => heard = <<[val |-> Bits(cmd.val), good |-> TRUE]>>

(* The two halves of the interrupt never take each other's edges: a byte is *)
(* completed at the last edge of a byte the keyboard sends, nowhere else,   *)
(* and it is that byte.                                                     *)
BytesIntact ==
    decoded = IF kbMode = "send" /\ kbPos = FrameLen - 1 /\ kbClock = 0
              THEN <<OnTheWire>> ELSE << >>

(* The main program goes on because of the answer to the very command it    *)
(* sent: never because of the FA or AA that answers an earlier one, nor     *)
(* because a data bit was taken for the acknowledge.                        *)
AckIsForThisCommand ==
    /\ pc = "byte" /\ ackByteOk => heard = <<[val |-> Bits(cmd.val), good |-> TRUE]>>
    /\ pc = "bit" /\ cmdAck = 0 /\ heard = << >> => kbMode = "receive" /\ kbPos = FrameLen - 1

=============================================================================
