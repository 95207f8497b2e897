----------------------------- MODULE UsbToUsart -----------------------------
(***************************************************************************)
(* The buffer of bytes on their way from the USB controller to the sketch: *)
(* USBtoUSART_Buffer, a ring buffer of LightweightRingBuff.h, and the main *)
(* loop and the interrupt that fill it.                                    *)
(*                                                                         *)
(* The main loop answers a ping, takes one byte out and passes one USB     *)
(* MIDI event on, over and over.  The interrupt of the USB control         *)
(* endpoint (LUFAConfig.h sets INTERRUPT_CONTROL_ENDPOINT) delivers the    *)
(* host's LED report, and its handler inserts a packet too.  The main      *)
(* program runs step by step; the interrupt, which it cannot preempt, is   *)
(* one step between any two of them.                                       *)
(*                                                                         *)
(* The steps of an insertion are those of the compiled code: the In        *)
(* pointer is loaded once, the byte stored, the advanced pointer stored    *)
(* back, and only the count is updated under a lock.  The moment in which  *)
(* In points past the end, before it is wrapped, is left out.              *)
(*                                                                         *)
(* queue, overrun, wrong and raced only record the run.                    *)
(***************************************************************************)
EXTENDS Integers, Sequences

CONSTANTS
    Size,       \* BUFFER_SIZE, 128 in the code
    Room,       \* free bytes MIDI_loop() asks for: sizeof(midiMsg), 4
    LedReports, \* how many LED reports the host may send
    Pings       \* the sketch sends pings

PacketLen == 5

ASSUME BufferAssumption ==
    /\ Size \in Nat /\ Size > PacketLen
    /\ Room \in 0..Size
    /\ LedReports \in Nat /\ Pings \in BOOLEAN

VARIABLES
    buffer, in, out,    \* Buffer, In and Out of the ring buffer
    count,              \* its Count, a uint8_t
    pc,                 \* where the main program is
    todo,               \* the bytes lufa_send() still has to insert
    back,               \* where the main program goes on after lufa_send()
    reg,                \* the register holding In during an insertion
    ledsLeft,           \* LED reports the host may still send
    pause               \* the host and the sketch have stopped sending
VARIABLES
    queue,      \* the bytes inserted and not yet taken out, in order
    overrun,    \* a byte was inserted while Size bytes were waiting
    wrong,      \* a byte taken out was not the oldest one waiting
    raced       \* an LED report came while the main program had In in a register

ring   == <<buffer, in, out, count>>
ghosts == <<queue, overrun, wrong, raced>>
vars   == <<ring, pc, todo, back, reg, ledsLeft, pause, ghosts>>

CountMod == 2 * Size    \* the uint8_t count wraps at 256 = 2 * 128

(* A byte is known by the packet it belongs to and its place there.         *)
Senders == {"status", "pong", "midi", "led"}
Bytes == Senders \X (1..PacketLen)
PacketOf(s) == [i \in 1..PacketLen |-> <<s, i>>]

(* Mutant: the pointer is wrapped one place late.                           *)
WrapLate(i) == IF i > Size THEN 0 ELSE i

Wrap(i) == IF i = Size THEN 0 ELSE i

(* What an insertion means for the run: a byte is in once In has moved past *)
(* it.  After an overrun it is not recorded any further.                    *)
Record(bs) ==
    LET waiting == queue \o bs
        full == overrun \/ Len(waiting) > Size
    IN  /\ overrun' = full
        /\ queue' = IF full THEN << >> ELSE waiting
        /\ UNCHANGED wrong

-----------------------------------------------------------------------------
Goto(l) == pc' = l
CallSend(s, l) == todo' = PacketOf(s) /\ back' = l /\ Goto("load")

(* setup() and main(): the status packet, then the loop.                    *)
Init ==
    /\ buffer \in [0..Size - 1 -> {<<"status", 1>>}]
    /\ in = 0 /\ out = 0 /\ count = 0
    /\ pc = "load" /\ todo = PacketOf("status") /\ back = "uart" /\ reg = 0
    /\ ledsLeft = LedReports /\ pause = FALSE
    /\ queue = << >> /\ overrun = FALSE /\ wrong = FALSE /\ raced = FALSE

(* UART_loop(): the byte received may complete a ping.                      *)
ReceivePing ==
    /\ pc = "uart"
    /\ \/ Pings /\ ~pause /\ CallSend("pong", "drain")
       \/ Goto("drain") /\ UNCHANGED <<todo, back>>
    /\ UNCHANGED <<ring, reg, ledsLeft, pause, ghosts>>

(* UART_loop(): one byte, data, leaves, if the buffer is not empty.         *)
Take(empty, data) ==
    /\ pc = "drain"
    /\ \/ empty /\ Goto("midi") /\ UNCHANGED <<ring, ghosts>>
       \/ /\ ~empty
          /\ out' = Wrap(out + 1)
          /\ wrong' = (wrong \/ (~overrun /\ (queue = << >> \/ data # Head(queue))))
          /\ queue' = IF queue = << >> THEN << >> ELSE Tail(queue)
          /\ Goto("uncount")
          /\ UNCHANGED <<buffer, in, count, overrun, raced>>
    /\ UNCHANGED <<todo, back, reg, ledsLeft, pause>>

(* Mutants: the byte is read after Out has moved; the last byte is taken    *)
(* for none.                                                                *)
TakeNextByte  == Take(count = 0, buffer[Wrap(out + 1)])
TakeAllButOne == Take(count <= 1, buffer[out])

TakeByte == Take(count = 0, buffer[out])

Uncount ==
    /\ pc = "uncount"
    /\ count' = (count + CountMod - 1) % CountMod
    /\ Goto("midi")
    /\ UNCHANGED <<buffer, in, out, todo, back, reg, ledsLeft, pause, ghosts>>

(* MIDI_loop(): with an event from the host, "Room to send a message?".     *)
(* BUFFER_SIZE - count is compared as an unsigned number: once the count    *)
(* has passed BUFFER_SIZE there is always room.                             *)
HasRoom == Size - count >= Room \/ count > Size
ReceiveMidi ==
    /\ pc = "midi"
    /\ \/ ~pause /\ HasRoom /\ CallSend("midi", "uart")
       \/ Goto("uart") /\ UNCHANGED <<todo, back>>
    /\ UNCHANGED <<ring, reg, ledsLeft, pause, ghosts>>

(* lufa_send() calls RingBuffer_Insert() for each byte of the packet.       *)
LoadIn ==
    /\ pc = "load"
    /\ reg' = in
    /\ Goto("store")
    /\ UNCHANGED <<ring, todo, back, ledsLeft, pause, ghosts>>
Store ==
    /\ pc = "store"
    /\ buffer' = [buffer EXCEPT ![reg] = Head(todo)]
    /\ Goto("advance")
    /\ UNCHANGED <<in, out, count, todo, back, reg, ledsLeft, pause, ghosts>>
AdvanceIn ==
    /\ pc = "advance"
    /\ in' = Wrap(reg + 1)
    /\ Record(<<Head(todo)>>)
    /\ Goto("count")
    /\ UNCHANGED <<buffer, out, count, todo, back, reg, ledsLeft, pause, raced>>
(* Mutant: the count stops at the size of the buffer.                       *)
CountUpToSize ==
    /\ pc = "count"
    /\ count' = IF count < Size THEN count + 1 ELSE count
    /\ todo' = Tail(todo)
    /\ Goto(IF Len(todo) = 1 THEN back ELSE "load")
    /\ UNCHANGED <<buffer, in, out, back, reg, ledsLeft, pause, ghosts>>
Count ==
    /\ pc = "count"
    /\ count' = (count + 1) % CountMod
    /\ todo' = Tail(todo)
    /\ Goto(IF Len(todo) = 1 THEN back ELSE "load")
    /\ UNCHANGED <<buffer, in, out, back, reg, ledsLeft, pause, ghosts>>

MainStep ==
    \/ ReceivePing \/ TakeByte \/ Uncount \/ ReceiveMidi
    \/ LoadIn \/ Store \/ AdvanceIn \/ Count

(* CALLBACK_HID_Device_ProcessHIDReport() in the control-endpoint interrupt *)
(* runs lufa_send() to its end.                                             *)
LedReport ==
    /\ ledsLeft > 0 /\ ~pause
    /\ ledsLeft' = ledsLeft - 1
    /\ LET place(i) == (in + i - 1) % Size IN
       buffer' = [j \in DOMAIN buffer |->
                    IF \E i \in 1..PacketLen : place(i) = j
                    THEN <<"led", CHOOSE i \in 1..PacketLen : place(i) = j>>
                    ELSE buffer[j]]
    /\ in' = (in + PacketLen) % Size
    /\ count' = (count + PacketLen) % CountMod
    /\ Record(PacketOf("led"))
    /\ raced' = (raced \/ pc \in {"store", "advance"})
    /\ UNCHANGED <<out, pc, todo, back, reg, pause>>

(* The host and the sketch stop sending.                                    *)
Pause ==
    /\ ~pause
    /\ pause' = TRUE
    /\ UNCHANGED <<ring, pc, todo, back, reg, ledsLeft, ghosts>>

Next == MainStep \/ LedReport \/ Pause

(* The main loop never stops: nothing in it waits for anything but the UART *)
(* to have sent a byte.                                                     *)
Spec == Init /\ [][Next]_vars
FairSpec == Spec /\ WF_vars(MainStep)

-----------------------------------------------------------------------------
Labels == {"uart", "drain", "uncount", "midi", "load", "store", "advance", "count"}

TypeOK ==
    /\ buffer \in [0..Size - 1 -> Bytes]
    /\ in \in 0..Size - 1 /\ out \in 0..Size - 1 /\ reg \in 0..Size - 1
    /\ count \in 0..CountMod - 1
    /\ pc \in Labels /\ back \in {"uart", "drain"}
    /\ todo \in Seq(Bytes)
    /\ pc \in {"load", "store", "advance", "count"} => todo # << >>
    /\ pause \in BOOLEAN /\ overrun \in BOOLEAN /\ wrong \in BOOLEAN
    /\ raced \in BOOLEAN
    /\ ledsLeft \in 0..LedReports
    /\ queue \in Seq(Bytes)

(* The pointers and the count tell the same story: In is count bytes after  *)
(* Out around the ring, counting a byte between its two halves of an        *)
(* insertion or removal.  This survives overruns, the wrap of the count and *)
(* every LED report but one that finds the main program between its load    *)
(* and its store of In.                                                     *)
InBetween == CASE pc = "count" -> 1 [] pc = "uncount" -> -1 [] OTHER -> 0
Consistent == \E laps \in -1..2 : in + laps * Size = out + count + InBetween
PointersAgree == ~raced => Consistent

(* Until the buffer overruns or such a report comes, bytes leave in the     *)
(* order they were inserted.                                                *)
FifoUntilOverrun == ~raced => ~wrong

(* Once the host and the sketch pause, everything is sent and the buffer    *)
(* ends up empty for good, even after an overrun.                           *)
Drains == pause ~> [](count = 0 \/ pc = "uncount")

(* "Only one execution thread ... may insert into a single buffer otherwise  *)
(* data corruption may occur": the pointers and the count always agree.     *)
NoCorruption == Consistent

=============================================================================
