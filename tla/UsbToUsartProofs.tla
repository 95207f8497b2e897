-------------------------- MODULE UsbToUsartProofs --------------------------
(***************************************************************************)
(* The ring buffer's pointers and count agree for every buffer size, every *)
(* amount of room MIDI_loop() asks for, any number of overruns and any     *)
(* number of LED reports but those that race an insertion.  The invariant  *)
(* needs one thing PointersAgree does not say: during an insertion the     *)
(* register still holds In.                                                *)
(***************************************************************************)
EXTENDS UsbToUsart, SequenceTheorems, TLAPS

RegHoldsIn == pc \in {"store", "advance"} => reg = in

(* The part of the state the pointers depend on.                           *)
Ranges ==
    /\ in \in 0..Size - 1 /\ out \in 0..Size - 1 /\ reg \in 0..Size - 1
    /\ count \in 0..CountMod - 1
    /\ pc \in Labels /\ back \in {"uart", "drain"}
    /\ ledsLeft \in 0..LedReports

IInv == Ranges /\ raced \in BOOLEAN /\ (~raced => RegHoldsIn) /\ PointersAgree

(* Consistent without its product.                                         *)
Agree(i, p) == i = p + Size \/ i = p \/ i + Size = p \/ i + 2 * Size = p

LEMMA SizePositive == Size \in Nat /\ Size > 5 /\ CountMod = 2 * Size
BY BufferAssumption DEF PacketLen, CountMod

LEMMA AgreeAsLaps ==
    ASSUME NEW i \in Int, NEW p \in Int
    PROVE  (\E laps \in -1..2 : i + laps * Size = p) <=> Agree(i, p)
<1>1. (\E laps \in -1..2 : i + laps * Size = p)
         <=> \/ i + (-1) * Size = p \/ i + 0 * Size = p
             \/ i + 1 * Size = p \/ i + 2 * Size = p
  <2>1. -1..2 = {-1, 0, 1, 2}
    OBVIOUS
  <2>. QED  BY <2>1, Zenon
<1>. QED  BY <1>1, SizePositive DEF Agree

LEMMA WrapInRange ==
    ASSUME NEW i \in 0..Size - 1
    PROVE  /\ Wrap(i + 1) \in 0..Size - 1
           /\ \/ Wrap(i + 1) = i + 1
              \/ i = Size - 1 /\ Wrap(i + 1) = 0
BY SizePositive DEF Wrap

(* The count is a number modulo twice the size.                            *)
LEMMA CountSteps ==
    ASSUME NEW c \in 0..CountMod - 1
    PROVE  /\ (c + 1) % CountMod = IF c = CountMod - 1 THEN 0 ELSE c + 1
           /\ (c + CountMod - 1) % CountMod = IF c = 0 THEN CountMod - 1 ELSE c - 1
<1>1. CountMod \in Nat /\ CountMod > 10
  BY SizePositive
<1>2. ASSUME NEW m \in Nat, m > 10, NEW x \in 0..m - 1
      PROVE  (x + 1) % m = (IF x = m - 1 THEN 0 ELSE x + 1)
             /\ (x + m - 1) % m = (IF x = 0 THEN m - 1 ELSE x - 1)
  <2>1. \A a \in 0..m - 1 : a % m = a /\ (a + m) % m = a
    BY <1>2
  <2>2. CASE x = m - 1
    <3>1. /\ x + 1 = 0 + m /\ 0 \in 0..m - 1
          /\ x + m - 1 = (x - 1) + m /\ x - 1 \in 0..m - 1 /\ x # 0
      BY <1>2, <2>2
    <3>. QED  BY <3>1, <2>1, <2>2
  <2>3. CASE x # m - 1 /\ x = 0
    <3>1. x + 1 \in 0..m - 1 /\ x + m - 1 = m - 1 /\ m - 1 \in 0..m - 1
      BY <1>2, <2>3
    <3>. QED  BY <3>1, <2>1, <2>3
  <2>4. CASE x # m - 1 /\ x # 0
    <3>1. x + 1 \in 0..m - 1 /\ x + m - 1 = (x - 1) + m /\ x - 1 \in 0..m - 1
      BY <1>2, <2>4
    <3>. QED  BY <3>1, <2>1, <2>4
  <2>. QED  BY <2>2, <2>3, <2>4
<1>. QED  BY <1>1, <1>2

(* A whole packet inserted at once, as the interrupt does.                 *)
LEMMA PacketSteps ==
    ASSUME NEW m \in Nat, m > 5, NEW x \in 0..m - 1
    PROVE  (x + 5) % m = IF x + 5 < m THEN x + 5 ELSE x + 5 - m
<1>1. \A a \in 0..m - 1 : a % m = a /\ (a + m) % m = a
  OBVIOUS
<1>2. CASE x + 5 < m
  BY <1>1, <1>2
<1>3. CASE ~(x + 5 < m)
  <2>1. x + 5 = (x + 5 - m) + m /\ x + 5 - m \in 0..m - 1
    BY <1>3
  <2>. QED  BY <2>1, <1>1, <1>3
<1>. QED  BY <1>2, <1>3

-----------------------------------------------------------------------------
LEMMA InitInv == Init => IInv
<1>. SUFFICES ASSUME Init PROVE IInv
  OBVIOUS
<1>1. Ranges
  BY SizePositive, BufferAssumption DEF Init, Ranges, Labels
<1>2. RegHoldsIn
  BY DEF Init, RegHoldsIn
<1>3. in = 0 /\ out + count + InBetween = 0 /\ raced = FALSE
  BY DEF Init, InBetween
<1>4. Consistent
  BY <1>3, AgreeAsLaps DEF Agree, Consistent
<1>. QED  BY <1>1, <1>2, <1>3, <1>4 DEF IInv, PointersAgree

(* A step that keeps the ring and moves between labels at which nothing is  *)
(* half done keeps the invariant.                                           *)
Steady == {"uart", "drain", "midi", "load", "store", "advance"}
LEMMA SteadyStep ==
    ASSUME IInv, UNCHANGED <<in, out, count, raced>>, Ranges',
           ~raced => RegHoldsIn', pc \in Steady, pc' \in Steady
    PROVE  IInv'
<1>1. InBetween = 0 /\ InBetween' = 0
  BY DEF InBetween, Steady
<1>2. Consistent' = Consistent
  BY <1>1 DEF Consistent
<1>. QED  BY <1>2 DEF IInv, PointersAgree

LEMMA PointersStep == IInv /\ [Next]_vars => IInv'
<1>. SUFFICES ASSUME IInv, [Next]_vars PROVE IInv'
  OBVIOUS
<1>r. /\ Ranges /\ raced \in BOOLEAN
      /\ ~raced => RegHoldsIn /\ Agree(in, out + count + InBetween)
  <2>1. Ranges /\ raced \in BOOLEAN /\ (~raced => RegHoldsIn /\ Consistent)
    BY DEF IInv, PointersAgree
  <2>2. in \in Int /\ out + count + InBetween \in Int
    BY <2>1, SizePositive DEF Ranges, InBetween
  <2>. QED  BY <2>1, <2>2, AgreeAsLaps DEF Consistent
<1>q. ASSUME Ranges', raced' \in BOOLEAN,
             ~raced' => RegHoldsIn' /\ Agree(in', out' + count' + InBetween')
      PROVE  IInv'
  <2>1. in' \in Int /\ out' + count' + InBetween' \in Int
    BY <1>q, SizePositive DEF Ranges, InBetween
  <2>2. ~raced' => Consistent'
    BY <1>q, <2>1, AgreeAsLaps DEF Consistent
  <2>. QED  BY <1>q, <2>2 DEF IInv, PointersAgree
<1>1. CASE ReceivePing
  <2>1. pc \in Steady /\ pc' \in Steady /\ UNCHANGED <<in, out, count, raced>>
    BY <1>1 DEF ReceivePing, Goto, CallSend, ring, ghosts, Steady
  <2>2. Ranges'
    BY <1>r, <1>1 DEF ReceivePing, Goto, CallSend, ring, Ranges, Labels
  <2>3. ~raced => RegHoldsIn'
    BY <1>r, <1>1 DEF ReceivePing, Goto, CallSend, RegHoldsIn
  <2>. QED  BY <2>1, <2>2, <2>3, SteadyStep
<1>2. CASE TakeByte
  <2>1. CASE count = 0
    <3>1. pc \in Steady /\ pc' \in Steady /\ UNCHANGED <<in, out, count, raced>>
      BY <1>2, <2>1 DEF TakeByte, Take, Goto, ring, ghosts, Steady
    <3>2. Ranges' /\ RegHoldsIn'
      BY <1>r, <1>2, <3>1 DEF TakeByte, Take, Goto, Ranges, Labels, RegHoldsIn
    <3>. QED  BY <3>1, <3>2, SteadyStep
  <2>2. CASE count # 0
    <3>1. /\ pc = "drain" /\ pc' = "uncount" /\ out' = Wrap(out + 1)
          /\ UNCHANGED <<in, count, reg, back, ledsLeft, raced>>
      BY <1>r, <1>2, <2>2 DEF TakeByte, Take, Goto
    <3>2. Ranges' /\ RegHoldsIn'
      BY <1>r, <3>1, WrapInRange DEF Ranges, Labels, RegHoldsIn
    <3>3. InBetween = 0 /\ InBetween' = -1
      BY <3>1 DEF InBetween
    <3>4. out' = out + 1 \/ (out = Size - 1 /\ out' = 0)
      BY <1>r, <3>1, WrapInRange DEF Ranges
    <3>5. ~raced => Agree(in', out' + count' + InBetween')
      BY <1>r, <2>2, <3>1, <3>3, <3>4, SizePositive DEF Agree, Ranges
    <3>. QED  BY <1>r, <3>1, <3>2, <3>5, <1>q
  <2>. QED  BY <2>1, <2>2
<1>3. CASE Uncount
  <2>1. /\ pc = "uncount" /\ pc' = "midi" /\ count' = (count + CountMod - 1) % CountMod
        /\ UNCHANGED <<in, out, reg, back, ledsLeft, raced>>
    BY <1>r, <1>3 DEF Uncount, Goto, ghosts
  <2>2. count' = IF count = 0 THEN CountMod - 1 ELSE count - 1
    BY <1>r, <2>1, CountSteps DEF Ranges
  <2>3. Ranges' /\ RegHoldsIn'
    BY <1>r, <2>1, <2>2, SizePositive DEF Ranges, Labels, RegHoldsIn
  <2>4. InBetween = -1 /\ InBetween' = 0
    BY <2>1 DEF InBetween
  <2>5. ~raced => Agree(in', out' + count' + InBetween')
    BY <1>r, <2>1, <2>2, <2>4, SizePositive DEF Agree, Ranges
  <2>. QED  BY <1>r, <2>1, <2>3, <2>5, <1>q
<1>4. CASE ReceiveMidi
  <2>1. pc \in Steady /\ pc' \in Steady /\ UNCHANGED <<in, out, count, raced>>
    BY <1>4 DEF ReceiveMidi, Goto, CallSend, ring, ghosts, Steady
  <2>2. Ranges'
    BY <1>r, <1>4 DEF ReceiveMidi, Goto, CallSend, ring, Ranges, Labels
  <2>3. ~raced => RegHoldsIn'
    BY <1>r, <1>4 DEF ReceiveMidi, Goto, CallSend, RegHoldsIn
  <2>. QED  BY <2>1, <2>2, <2>3, SteadyStep
<1>5. CASE LoadIn
  <2>1. pc \in Steady /\ pc' \in Steady /\ UNCHANGED <<in, out, count, raced>>
    BY <1>5 DEF LoadIn, Goto, ring, ghosts, Steady
  <2>2. Ranges' /\ RegHoldsIn'
    BY <1>r, <1>5 DEF LoadIn, Goto, ring, Ranges, Labels, RegHoldsIn
  <2>. QED  BY <2>1, <2>2, SteadyStep
<1>6. CASE Store
  <2>1. pc \in Steady /\ pc' \in Steady /\ UNCHANGED <<in, out, count, raced>>
    BY <1>6 DEF Store, Goto, ghosts, Steady
  <2>2. Ranges' /\ (~raced => RegHoldsIn')
    BY <1>r, <1>6 DEF Store, Goto, Ranges, Labels, RegHoldsIn
  <2>. QED  BY <2>1, <2>2, SteadyStep
<1>7. CASE AdvanceIn
  <2>1. /\ pc = "advance" /\ pc' = "count" /\ in' = Wrap(reg + 1)
        /\ UNCHANGED <<out, count, reg, back, ledsLeft, raced>>
    BY <1>7 DEF AdvanceIn, Goto
  <2>2. Ranges' /\ RegHoldsIn'
    BY <1>r, <2>1, WrapInRange DEF Ranges, Labels, RegHoldsIn
  <2>3. InBetween = 0 /\ InBetween' = 1
    BY <2>1 DEF InBetween
  <2>4. in' = reg + 1 \/ (reg = Size - 1 /\ in' = 0)
    BY <1>r, <2>1, WrapInRange DEF Ranges
  <2>5. ASSUME ~raced PROVE Agree(in', out' + count' + InBetween')
    <3>1. reg = in
      BY <1>r, <2>1, <2>5 DEF RegHoldsIn
    <3>. QED  BY <1>r, <2>1, <2>3, <2>4, <2>5, <3>1, SizePositive DEF Agree, Ranges
  <2>. QED  BY <1>r, <2>1, <2>2, <2>5, <1>q
<1>8. CASE Count
  <2>1. /\ pc = "count" /\ pc' \in {"uart", "drain", "load"} /\ count' = (count + 1) % CountMod
        /\ UNCHANGED <<in, out, reg, back, ledsLeft, raced>>
    BY <1>r, <1>8 DEF Count, Goto, ghosts, Ranges
  <2>2. count' = IF count = CountMod - 1 THEN 0 ELSE count + 1
    BY <1>r, <2>1, CountSteps DEF Ranges
  <2>3. Ranges' /\ RegHoldsIn'
    BY <1>r, <2>1, <2>2, SizePositive DEF Ranges, Labels, RegHoldsIn
  <2>4. InBetween = 1 /\ InBetween' = 0
    BY <2>1 DEF InBetween
  <2>5. ~raced => Agree(in', out' + count' + InBetween')
    BY <1>r, <2>1, <2>2, <2>4, SizePositive DEF Agree, Ranges
  <2>. QED  BY <1>r, <2>1, <2>3, <2>5, <1>q
<1>9. CASE LedReport
  <2>1. /\ in' = (in + 5) % Size /\ count' = (count + 5) % CountMod
        /\ raced' = (raced \/ pc \in {"store", "advance"})
        /\ ledsLeft > 0 /\ ledsLeft' = ledsLeft - 1
        /\ UNCHANGED <<out, pc, reg, back>>
    BY <1>9 DEF LedReport, PacketLen
  <2>2. in' = IF in + 5 < Size THEN in + 5 ELSE in + 5 - Size
    BY <1>r, <2>1, PacketSteps, SizePositive DEF Ranges
  <2>3. count' = IF count + 5 < CountMod THEN count + 5 ELSE count + 5 - CountMod
    <3>1. CountMod \in Nat /\ CountMod > 5 /\ count \in 0..CountMod - 1
      BY <1>r, SizePositive DEF Ranges
    <3>. QED  BY <2>1, <3>1, PacketSteps
  <2>4. Ranges' /\ raced' \in BOOLEAN
    <3>1. ledsLeft' \in 0..LedReports
      BY <1>r, <2>1, BufferAssumption DEF Ranges
    <3>. QED  BY <1>r, <2>1, <2>2, <2>3, <3>1, SizePositive DEF Ranges, Labels
  <2>5. ~raced' => RegHoldsIn'
    BY <2>1 DEF RegHoldsIn
  <2>6. InBetween' = InBetween /\ InBetween \in {-1, 0, 1}
    BY <2>1 DEF InBetween
  <2>7. ASSUME ~raced PROVE Agree(in', out' + count' + InBetween')
    BY <1>r, <2>1, <2>2, <2>3, <2>6, <2>7, SizePositive DEF Agree, Ranges
  <2>. QED  BY <2>1, <2>4, <2>5, <2>7, <1>q
<1>10. CASE Pause \/ UNCHANGED vars
  <2>1. UNCHANGED <<in, out, count, pc, reg, back, ledsLeft, raced>>
    BY <1>10 DEF Pause, vars, ring, ghosts
  <2>2. IInv' = IInv
    BY <2>1 DEF IInv, Ranges, RegHoldsIn, PointersAgree, Consistent, InBetween
  <2>. QED  BY <2>2
<1>. QED
  BY <1>1, <1>2, <1>3, <1>4, <1>5, <1>6, <1>7, <1>8, <1>9, <1>10 DEF Next, MainStep

(* Whatever is inserted and however often the buffer overruns, In, Out and  *)
(* Count tell the same story until an LED report finds the main program     *)
(* with In in a register.                                                   *)
THEOREM PointersAlwaysAgree == Spec => []PointersAgree
<1>1. Init => IInv
  BY InitInv
<1>2. IInv /\ [Next]_vars => IInv'
  BY PointersStep
<1>3. IInv => PointersAgree
  BY DEF IInv
<1>. QED  BY <1>1, <1>2, <1>3, PTL DEF Spec

-----------------------------------------------------------------------------
(* Bytes leave the ring buffer in the order they were inserted, for every   *)
(* buffer size.  Until an overrun the queue is what lies in the buffer from *)
(* Out on, and Count its length, up to a byte that is half inserted or      *)
(* removed.  One more thing is needed: while an insertion is past its       *)
(* store, the byte lies where In points; if the buffer is full it has just  *)
(* destroyed the oldest one, but then the next step is an overrun.          *)

(* The place of the i-th waiting byte when Out is o.                        *)
At(o, i) == IF o + i - 1 < Size THEN o + i - 1 ELSE o + i - 1 - Size

Full == Len(queue) = Size

Kept == \A i \in 1..Len(queue) : buffer[At(out, i)] = queue[i]

Stored ==
    /\ Len(queue) <= Size
    /\ Len(queue) = count + InBetween
    /\ in = At(out, Len(queue) + 1)
    /\ Kept \/ (pc = "advance" /\ Full)
    /\ pc = "advance" => buffer[reg] = Head(todo)

OInv ==
    /\ TypeOK
    /\ ~raced => RegHoldsIn
    /\ ~raced => ~wrong
    /\ ~raced /\ ~overrun => Stored

-----------------------------------------------------------------------------
(* Places.                                                                  *)
LEMMA PlaceInRange ==
  ASSUME NEW o \in 0..Size - 1, NEW i \in 1..Size + 1
  PROVE  At(o, i) \in 0..Size - 1
  BY SizePositive DEF At

LEMMA PlacesDiffer ==
  ASSUME NEW o \in 0..Size - 1, NEW i \in 1..Size, NEW j \in 1..Size, i # j
  PROVE  At(o, i) # At(o, j)
  BY SizePositive DEF At

LEMMA NextPlace ==
  ASSUME NEW o \in 0..Size - 1, NEW i \in 1..Size
  PROVE  /\ Wrap(At(o, i) + 1) = At(o, i + 1)
         /\ At(Wrap(o + 1), i) = At(o, i + 1)
  BY SizePositive DEF At, Wrap

(* Where the interrupt puts the k-th byte of its packet.                    *)
LEMMA PacketPlace ==
  ASSUME NEW o \in 0..Size - 1, NEW n \in 0..Size, NEW k \in 1..PacketLen + 1
  PROVE  /\ (At(o, n + 1) + k - 1) % Size \in 0..Size - 1
         /\ n + k <= Size + 1 => (At(o, n + 1) + k - 1) % Size = At(o, n + k)
<1> DEFINE a == At(o, n + 1)
<1>1. a \in 0..Size - 1 /\ k \in 1..6
  BY PlaceInRange, SizePositive DEF PacketLen
<1>2. (a + k - 1) % Size = IF a + k - 1 < Size THEN a + k - 1 ELSE a + k - 1 - Size
  <2>1. Size \in Nat /\ Size > 5
    BY SizePositive
  <2>2. \A x \in 0..Size - 1 : x % Size = x /\ (x + Size) % Size = x
    BY <2>1
  <2> HIDE DEF a
  <2>3. CASE a + k - 1 < Size
    BY <1>1, <2>1, <2>2, <2>3
  <2>4. CASE ~(a + k - 1 < Size)
    <3>1. a + k - 1 = (a + k - 1 - Size) + Size /\ a + k - 1 - Size \in 0..Size - 1
      BY <1>1, <2>1, <2>4
    <3> QED
      BY <3>1, <2>2, <2>4
  <2> QED
    BY <2>3, <2>4
<1>3. (a + k - 1) % Size \in 0..Size - 1
  BY <1>1, <1>2, SizePositive
<1>4. n + k <= Size + 1 => (a + k - 1) % Size = At(o, n + k)
  BY <1>1, <1>2, SizePositive DEF At
<1> QED
  BY <1>3, <1>4

LEMMA PacketBytes ==
  ASSUME NEW s \in Senders
  PROVE  /\ PacketOf(s) \in Seq(Bytes) /\ Len(PacketOf(s)) = 5
         /\ \A i \in 1..5 : PacketOf(s)[i] = <<s, i>>
         /\ PacketOf(s) # << >>
<1>1. PacketOf(s) = [i \in 1..5 |-> <<s, i>>]
  BY DEF PacketOf, PacketLen
<1>2. \A i \in 1..5 : <<s, i>> \in Bytes
  BY DEF Bytes, PacketLen
<1>3. PacketOf(s) \in [1..5 -> Bytes]
  BY <1>1, <1>2
<1>4. PacketOf(s) \in Seq(Bytes)
  <2>1. [1..5 -> Bytes] \in {[1..n -> Bytes] : n \in Nat}
    OBVIOUS
  <2> QED
    BY <1>3, <2>1, SeqDef, Zenon
<1>5. Len(PacketOf(s)) = 5
  BY <1>1
<1>6. PacketOf(s) # << >>
  <2>1. Len(<< >>) = 0
    OBVIOUS
  <2> QED
    BY <1>5, <2>1
<1>7. \A i \in 1..5 : PacketOf(s)[i] = <<s, i>>
  BY <1>1
<1> QED
  BY <1>4, <1>5, <1>6, <1>7

(* What Record() does to the queue.                                         *)
LEMMA RecordStep ==
  ASSUME NEW bs \in Seq(Bytes), TypeOK, Record(bs)
  PROVE  /\ queue' \in Seq(Bytes) /\ overrun' \in BOOLEAN /\ wrong' = wrong
         /\ ~overrun' => /\ ~overrun /\ queue' = queue \o bs
                         /\ Len(queue') = Len(queue) + Len(bs) /\ Len(queue') <= Size
<1>1. queue \o bs \in Seq(Bytes) /\ Len(queue \o bs) = Len(queue) + Len(bs)
  BY DEF TypeOK
<1>2. << >> \in Seq(Bytes) /\ Len(queue \o bs) \in Nat /\ Size \in Nat
  BY <1>1, EmptySeq, LenProperties, SizePositive
<1>3. overrun \in BOOLEAN
  BY DEF TypeOK
<1>4. CASE overrun \/ Len(queue \o bs) > Size
  BY <1>2, <1>4 DEF Record
<1>5. CASE ~(overrun \/ Len(queue \o bs) > Size)
  <2>1. queue' = queue \o bs /\ overrun' = FALSE /\ wrong' = wrong
    BY <1>5, <1>3 DEF Record
  <2>2. Len(queue \o bs) <= Size
    BY <1>2, <1>5
  <2> QED
    BY <1>1, <1>5, <2>1, <2>2
<1> QED
  BY <1>4, <1>5

-----------------------------------------------------------------------------
LEMMA InitType == Init => TypeOK
<1> SUFFICES ASSUME Init PROVE TypeOK
  OBVIOUS
<1>1. <<"status", 1>> \in Bytes
  BY DEF Bytes, Senders, PacketLen
<1>2. buffer \in [0..Size - 1 -> Bytes]
  BY <1>1 DEF Init
<1>3. todo \in Seq(Bytes) /\ todo # << >>
  BY PacketBytes DEF Init, Senders
<1>4. queue \in Seq(Bytes)
  BY EmptySeq DEF Init
<1>5. /\ in \in 0..Size - 1 /\ out \in 0..Size - 1 /\ reg \in 0..Size - 1
      /\ count \in 0..CountMod - 1 /\ ledsLeft \in 0..LedReports
  BY SizePositive, BufferAssumption DEF Init
<1>6. pc = "load" /\ back = "uart" /\ pause = FALSE /\ overrun = FALSE /\ wrong = FALSE /\ raced = FALSE
  BY DEF Init
<1> QED
  BY <1>2, <1>3, <1>4, <1>5, <1>6 DEF TypeOK, Labels

LEMMA TypeStep == TypeOK /\ [Next]_vars => TypeOK'
<1> SUFFICES ASSUME TypeOK, [Next]_vars PROVE TypeOK'
  OBVIOUS
<1> USE DEF Goto
<1>0. \A s \in Senders : PacketOf(s) \in Seq(Bytes) /\ PacketOf(s) # << >>
  BY PacketBytes
<1>1. CASE ReceivePing
  <2>1. CASE CallSend("pong", "drain")
    <3>1. todo' \in Seq(Bytes) /\ todo' # << >> /\ back' = "drain" /\ pc' = "load"
      BY <1>0, <2>1 DEF CallSend, Senders
    <3> QED
      BY <1>1, <3>1 DEF ReceivePing, TypeOK, ring, ghosts, Labels
  <2>2. CASE ~CallSend("pong", "drain")
    BY <1>1, <2>2 DEF ReceivePing, TypeOK, ring, ghosts, Labels
  <2> QED
    BY <2>1, <2>2
<1>2. CASE TakeByte
  <2>1. UNCHANGED <<buffer, in, count, todo, back, reg, ledsLeft, pause, overrun, raced>>
    BY <1>2 DEF TakeByte, Take, ring, ghosts
  <2>2. out' \in 0..Size - 1 /\ pc' \in {"midi", "uncount"}
    BY <1>2, WrapInRange DEF TakeByte, Take, TypeOK, ring
  <2>3. queue' \in Seq(Bytes)
    <3>1. queue' = queue \/ (queue = << >> /\ queue' = << >>) \/ (queue # << >> /\ queue' = Tail(queue))
      BY <1>2 DEF TakeByte, Take, ghosts
    <3>2. queue \in Seq(Bytes)
      BY DEF TypeOK
    <3> QED
      BY <3>1, <3>2, HeadTailProperties
  <2>4. wrong' \in BOOLEAN
    BY <1>2, Zenon DEF TakeByte, Take, TypeOK, ghosts
  <2> QED
    BY <2>1, <2>2, <2>3, <2>4 DEF TypeOK, Labels
<1>3. CASE Uncount
  <2>1. count' \in 0..CountMod - 1
    <3>1. count' = IF count = 0 THEN CountMod - 1 ELSE count - 1
      BY <1>3, CountSteps DEF Uncount, TypeOK
    <3> QED
      BY <3>1, SizePositive DEF TypeOK
  <2> QED
    BY <1>3, <2>1 DEF Uncount, TypeOK, ghosts, Labels
<1>4. CASE ReceiveMidi
  <2>1. CASE CallSend("midi", "uart")
    <3>1. todo' \in Seq(Bytes) /\ todo' # << >> /\ back' = "uart" /\ pc' = "load"
      BY <1>0, <2>1 DEF CallSend, Senders
    <3> QED
      BY <1>4, <3>1 DEF ReceiveMidi, TypeOK, ring, ghosts, Labels
  <2>2. CASE ~CallSend("midi", "uart")
    BY <1>4, <2>2 DEF ReceiveMidi, TypeOK, ring, ghosts, Labels
  <2> QED
    BY <2>1, <2>2
<1>5. CASE LoadIn
  BY <1>5 DEF LoadIn, TypeOK, ring, ghosts, Labels
<1>6. CASE Store
  <2>1. Head(todo) \in Bytes
    BY <1>6 DEF Store, TypeOK
  <2>2. buffer' \in [0..Size - 1 -> Bytes]
    BY <1>6, <2>1 DEF Store, TypeOK
  <2> QED
    BY <1>6, <2>2 DEF Store, TypeOK, ghosts, Labels
<1>7. CASE AdvanceIn
  <2>1. <<Head(todo)>> \in Seq(Bytes)
    BY <1>7 DEF AdvanceIn, TypeOK
  <2>2. in' \in 0..Size - 1
    BY <1>7, WrapInRange DEF AdvanceIn, TypeOK
  <2>3. queue' \in Seq(Bytes) /\ overrun' \in BOOLEAN /\ wrong' = wrong
    BY <1>7, <2>1, RecordStep DEF AdvanceIn
  <2> QED
    BY <1>7, <2>2, <2>3 DEF AdvanceIn, TypeOK, Labels
<1>8. CASE Count
  <2>1. count' \in 0..CountMod - 1
    <3>1. count' = IF count = CountMod - 1 THEN 0 ELSE count + 1
      BY <1>8, CountSteps DEF Count, TypeOK
    <3> QED
      BY <3>1, SizePositive DEF TypeOK
  <2>2. todo' \in Seq(Bytes) /\ (Len(todo) # 1 => todo' # << >>)
    <3>1. todo \in Seq(Bytes) /\ todo # << >> /\ todo' = Tail(todo)
      BY <1>8 DEF Count, TypeOK
    <3>2. Tail(todo) \in Seq(Bytes) /\ Len(Tail(todo)) = Len(todo) - 1
      BY <3>1, HeadTailProperties
    <3>3. ASSUME todo' = << >> PROVE Len(todo) = 1
      <4>1. Tail(todo) = << >>
        BY <3>1, <3>3, Zenon
      <4>2. Len(<< >>) = 0
        OBVIOUS
      <4>3. Len(Tail(todo)) = 0
        BY <4>1, <4>2, Zenon
      <4>4. Len(todo) \in Nat
        BY <3>1, LenProperties
      <4>5. \A n \in Nat : 0 = n - 1 => n = 1
        OBVIOUS
      <4>6. 0 = Len(todo) - 1
        BY <3>2, <4>3, Zenon
      <4> QED
        BY <4>4, <4>5, <4>6, Zenon
    <3> QED
      BY <3>1, <3>2, <3>3
  <2>3. pc' \in {"uart", "drain", "load"} /\ (pc' = "load" => Len(todo) # 1)
    BY <1>8 DEF Count, TypeOK
  <2> QED
    BY <1>8, <2>1, <2>2, <2>3 DEF Count, TypeOK, ghosts, Labels
<1>9. CASE LedReport
  <2>1. buffer' \in [0..Size - 1 -> Bytes]
    <3> DEFINE place(i) == (in + i - 1) % Size
               landed(j) == <<"led", CHOOSE i \in 1..PacketLen : place(i) = j>>
    <3>1. buffer' = [j \in DOMAIN buffer |->
                       IF \E i \in 1..PacketLen : place(i) = j THEN landed(j) ELSE buffer[j]]
      BY <1>9 DEF LedReport
    <3>2. ASSUME NEW j, \E i \in 1..PacketLen : place(i) = j PROVE landed(j) \in Bytes
      <4> DEFINE i0 == CHOOSE i \in 1..PacketLen : place(i) = j
      <4>1. i0 \in 1..PacketLen
        BY <3>2
      <4>2. landed(j) = <<"led", i0>>
        OBVIOUS
      <4> HIDE DEF i0, landed
      <4> QED
        BY <4>1, <4>2 DEF Bytes, Senders
    <3> HIDE DEF place, landed
    <3> QED
      BY <3>1, <3>2 DEF TypeOK
  <2>2. in' \in 0..Size - 1 /\ count' \in 0..CountMod - 1 /\ ledsLeft' \in 0..LedReports
    <3>1. in' = IF in + 5 < Size THEN in + 5 ELSE in + 5 - Size
      BY <1>9, PacketSteps, SizePositive DEF LedReport, TypeOK, PacketLen
    <3>2. CountMod \in Nat /\ CountMod > 5 /\ count' = (count + 5) % CountMod
      BY <1>9, SizePositive DEF LedReport, PacketLen
    <3>3. count' = IF count + 5 < CountMod THEN count + 5 ELSE count + 5 - CountMod
      BY <3>2, PacketSteps DEF TypeOK
    <3>4. ledsLeft' \in 0..LedReports
      BY <1>9, BufferAssumption DEF LedReport, TypeOK
    <3> QED
      BY <3>1, <3>2, <3>3, <3>4, SizePositive DEF TypeOK
  <2>3. queue' \in Seq(Bytes) /\ overrun' \in BOOLEAN /\ wrong' = wrong
    BY <1>9, <1>0, RecordStep DEF LedReport, Senders
  <2>4. raced' \in BOOLEAN
    BY <1>9 DEF LedReport, TypeOK
  <2> QED
    BY <1>9, <2>1, <2>2, <2>3, <2>4 DEF LedReport, TypeOK
<1>10. CASE Pause \/ UNCHANGED vars
  BY <1>10 DEF Pause, vars, ring, ghosts, TypeOK
<1> QED
  BY <1>1, <1>2, <1>3, <1>4, <1>5, <1>6, <1>7, <1>8, <1>9, <1>10 DEF Next, MainStep

(* The buffer keeps its types through overruns and races.                   *)
THEOREM TypeCorrect == Spec => []TypeOK
  BY InitType, TypeStep, PTL DEF Spec

-----------------------------------------------------------------------------
LEMMA InitOrder == Init => OInv
<1> SUFFICES ASSUME Init PROVE OInv
  OBVIOUS
<1>1. TypeOK
  BY InitType
<1>2. Len(queue) = 0 /\ Size \in Nat /\ Size > 5
  BY SizePositive DEF Init
<1>3. pc = "load" /\ in = 0 /\ out = 0 /\ count = 0 /\ wrong = FALSE
  BY DEF Init
<1>4. RegHoldsIn /\ InBetween = 0
  BY <1>3 DEF RegHoldsIn, InBetween
<1>5. Kept
  BY <1>2 DEF Kept
<1>6. in = At(out, Len(queue) + 1)
  BY <1>2, <1>3 DEF At
<1> QED
  BY <1>1, <1>2, <1>3, <1>4, <1>5, <1>6 DEF OInv, Stored

(* A step that changes neither the buffer nor the queue.                    *)
LEMMA SameRing ==
  ASSUME OInv, TypeOK', UNCHANGED <<ring, ghosts>>, ~raced => RegHoldsIn',
         InBetween' = InBetween, pc # "advance", pc' # "advance"
  PROVE  OInv'
<1>1. Kept' = Kept /\ At(out, Len(queue) + 1)' = At(out, Len(queue) + 1)
  BY DEF Kept, At, ring, ghosts
<1> QED
  BY <1>1 DEF OInv, Stored, ring, ghosts

LEMMA OrderStep == OInv /\ [Next]_vars => OInv'
<1> SUFFICES ASSUME OInv, [Next]_vars PROVE OInv'
  OBVIOUS
<1>t. TypeOK /\ TypeOK'
  BY TypeStep DEF OInv
<1>u. /\ out \in 0..Size - 1 /\ in \in 0..Size - 1 /\ count \in 0..CountMod - 1
      /\ queue \in Seq(Bytes) /\ Len(queue) \in Nat /\ Size \in Nat /\ Size > 5
      /\ buffer \in [0..Size - 1 -> Bytes]
  BY <1>t, LenProperties, SizePositive DEF TypeOK
<1>1. CASE ReceivePing
  <2>1. pc = "uart" /\ pc' \in {"load", "drain"} /\ UNCHANGED <<ring, ghosts>>
    BY <1>1 DEF ReceivePing, CallSend, Goto
  <2>2. RegHoldsIn' /\ InBetween' = InBetween
    BY <2>1 DEF RegHoldsIn, InBetween
  <2> QED
    BY <1>t, <2>1, <2>2, SameRing
<1>2. CASE TakeByte
  <2>1. CASE count = 0
    <3>1. pc = "drain" /\ pc' = "midi" /\ UNCHANGED <<ring, ghosts>>
      BY <1>2, <2>1 DEF TakeByte, Take, Goto
    <3>2. RegHoldsIn' /\ InBetween' = InBetween
      BY <3>1 DEF RegHoldsIn, InBetween
    <3> QED
      BY <1>t, <3>1, <3>2, SameRing
  <2>2. CASE count # 0
    <3>1. /\ pc = "drain" /\ pc' = "uncount" /\ out' = Wrap(out + 1)
          /\ wrong' = (wrong \/ (~overrun /\ (queue = << >> \/ buffer[out] # Head(queue))))
          /\ queue' = IF queue = << >> THEN << >> ELSE Tail(queue)
          /\ UNCHANGED <<buffer, in, count, overrun, raced>>
      BY <1>2, <2>2 DEF TakeByte, Take, Goto
    <3>2. RegHoldsIn' /\ InBetween = 0 /\ InBetween' = -1
      BY <3>1 DEF RegHoldsIn, InBetween
    <3>3. ASSUME ~raced, ~overrun PROVE Stored' /\ ~wrong'
      <4>1. Stored /\ ~wrong /\ Kept
        BY <3>1, <3>3 DEF OInv, Stored
      <4>2. Len(queue) = count /\ Len(queue) > 0 /\ Len(queue) <= Size
        BY <1>u, <2>2, <3>2, <4>1 DEF Stored
      <4>3. queue # << >>
        BY <4>2
      <4>4. queue' = Tail(queue)
        BY <3>1, <4>3
      <4>5. /\ Len(queue') = Len(queue) - 1 /\ queue' \in Seq(Bytes)
            /\ \A i \in 1..Len(queue') : queue'[i] = queue[i + 1]
        BY <1>u, <4>3, <4>4, HeadTailProperties
      <4>6. At(out, 1) = out
        BY <1>u DEF At
      <4>7. buffer[out] = Head(queue)
        BY <1>u, <4>1, <4>2, <4>6 DEF Kept
      <4>8. ~wrong'
        BY <3>1, <4>1, <4>3, <4>7
      <4>9. \A i \in 1..Size : At(out', i) = At(out, i + 1)
        BY <1>u, <3>1, NextPlace
      <4>10. in' = At(out', Len(queue') + 1)
        <5>1. in = At(out, Len(queue) + 1)
          BY <4>1 DEF Stored
        <5>2. Len(queue') + 1 = Len(queue) /\ Len(queue) \in 1..Size
          BY <1>u, <4>2, <4>5
        <5> QED
          BY <3>1, <4>9, <5>1, <5>2
      <4>11. Kept'
        <5> SUFFICES ASSUME NEW i \in 1..Len(queue') PROVE buffer'[At(out', i)] = queue'[i]
          BY DEF Kept
        <5>1. i \in 1..Size /\ i + 1 \in 1..Len(queue)
          BY <1>u, <4>2, <4>5
        <5>2. buffer[At(out, i + 1)] = queue[i + 1]
          BY <4>1, <5>1 DEF Kept
        <5> QED
          BY <3>1, <4>5, <4>9, <5>1, <5>2
      <4>12. Len(queue') <= Size /\ Len(queue') = count' + InBetween'
        BY <1>u, <3>1, <3>2, <4>2, <4>5
      <4> QED
        BY <3>1, <4>8, <4>10, <4>11, <4>12 DEF Stored
    <3>4. ASSUME ~raced PROVE ~wrong'
      BY <3>1, <3>3, <3>4 DEF OInv
    <3> QED
      BY <1>t, <3>1, <3>2, <3>3, <3>4 DEF OInv
  <2> QED
    BY <2>1, <2>2
<1>3. CASE Uncount
  <2>1. /\ pc = "uncount" /\ pc' = "midi" /\ count' = (count + CountMod - 1) % CountMod
        /\ UNCHANGED <<buffer, in, out, queue, overrun, wrong, raced>>
    BY <1>3 DEF Uncount, Goto, ghosts
  <2>2. count' = IF count = 0 THEN CountMod - 1 ELSE count - 1
    BY <1>u, <2>1, CountSteps
  <2>3. RegHoldsIn' /\ InBetween = -1 /\ InBetween' = 0
    BY <2>1 DEF RegHoldsIn, InBetween
  <2>4. ASSUME Stored PROVE Stored'
    <3>1. Len(queue') = count' + InBetween'
      BY <1>u, <2>1, <2>2, <2>3, <2>4 DEF Stored
    <3>2. Kept'
      BY <2>1, <2>4 DEF Stored, Kept
    <3> QED
      BY <2>1, <2>4, <3>1, <3>2 DEF Stored
  <2> QED
    BY <1>t, <2>1, <2>3, <2>4 DEF OInv
<1>4. CASE ReceiveMidi
  <2>1. pc = "midi" /\ pc' \in {"load", "uart"} /\ UNCHANGED <<ring, ghosts>>
    BY <1>4 DEF ReceiveMidi, CallSend, Goto
  <2>2. RegHoldsIn' /\ InBetween' = InBetween
    BY <2>1 DEF RegHoldsIn, InBetween
  <2> QED
    BY <1>t, <2>1, <2>2, SameRing
<1>5. CASE LoadIn
  <2>1. pc = "load" /\ pc' = "store" /\ reg' = in /\ UNCHANGED <<ring, ghosts>>
    BY <1>5 DEF LoadIn, Goto
  <2>2. RegHoldsIn' /\ InBetween' = InBetween
    BY <2>1 DEF RegHoldsIn, InBetween, ring
  <2> QED
    BY <1>t, <2>1, <2>2, SameRing
<1>6. CASE Store
  <2>1. /\ pc = "store" /\ pc' = "advance" /\ buffer' = [buffer EXCEPT ![reg] = Head(todo)]
        /\ UNCHANGED <<in, out, count, todo, reg, queue, overrun, wrong, raced>>
    BY <1>6 DEF Store, Goto, ghosts
  <2>2. InBetween = 0 /\ InBetween' = 0 /\ (RegHoldsIn => RegHoldsIn')
    BY <2>1 DEF RegHoldsIn, InBetween
  <2>3. ASSUME Stored, RegHoldsIn PROVE Stored'
    <3>1. reg = in /\ in = At(out, Len(queue) + 1) /\ Kept /\ Len(queue) <= Size
      BY <2>1, <2>3 DEF Stored, RegHoldsIn
    <3>2. buffer'[reg'] = Head(todo')
      BY <1>u, <2>1, <3>1
    <3>3. ASSUME ~Full, NEW i \in 1..Len(queue') PROVE buffer'[At(out', i)] = queue'[i]
      <4>1. i \in 1..Size /\ Len(queue) + 1 \in 1..Size /\ i # Len(queue) + 1
        BY <1>u, <2>1, <3>1, <3>3 DEF Full
      <4>2. At(out, i) # reg /\ At(out, i) \in 0..Size - 1
        <5>1. At(out, i) # At(out, Len(queue) + 1)
          BY <1>u, <4>1, PlacesDiffer
        <5>2. At(out, i) \in 0..Size - 1
          BY <1>u, <4>1, SizePositive DEF At
        <5> QED
          BY <3>1, <5>1, <5>2
      <4>3. buffer[At(out, i)] = queue[i]
        BY <2>1, <3>1, <3>3 DEF Kept
      <4>4. buffer'[At(out, i)] = buffer[At(out, i)]
        BY <1>u, <2>1, <4>2
      <4>5. At(out', i) = At(out, i) /\ queue' = queue
        BY <2>1
      <4> QED
        BY <4>3, <4>4, <4>5
    <3>4. Full' = Full /\ (~Full => Kept')
      BY <2>1, <3>3 DEF Full, Kept
    <3>5. At(out', Len(queue') + 1) = At(out, Len(queue) + 1)
      BY <2>1
    <3> QED
      BY <2>1, <2>2, <2>3, <3>1, <3>2, <3>4, <3>5 DEF Stored
  <2> QED
    BY <1>t, <2>1, <2>2, <2>3 DEF OInv
<1>7. CASE AdvanceIn
  <2>1. /\ pc = "advance" /\ pc' = "count" /\ in' = Wrap(reg + 1) /\ Record(<<Head(todo)>>)
        /\ UNCHANGED <<buffer, out, count, reg, raced>>
    BY <1>7 DEF AdvanceIn, Goto
  <2>2. <<Head(todo)>> \in Seq(Bytes) /\ Len(<<Head(todo)>>) = 1
    BY <1>t, <2>1 DEF TypeOK
  <2>3. RegHoldsIn' /\ InBetween = 0 /\ InBetween' = 1
    BY <2>1 DEF RegHoldsIn, InBetween
  <2>4. wrong' = wrong
    BY <1>t, <2>1, <2>2, RecordStep
  <2>5. ASSUME ~raced, ~overrun' PROVE Stored'
    <3>1. /\ ~overrun /\ queue' = queue \o <<Head(todo)>>
          /\ Len(queue') = Len(queue) + 1 /\ Len(queue') <= Size
      BY <1>t, <2>1, <2>2, <2>5, RecordStep
    <3>2. Stored /\ reg = in /\ ~Full
      BY <1>u, <2>1, <2>5, <3>1 DEF OInv, RegHoldsIn, Full
    <3>3. Kept /\ buffer[in] = Head(todo) /\ in = At(out, Len(queue) + 1)
      BY <2>1, <3>2 DEF Stored
    <3>4. Len(queue) + 1 \in 1..Size
      BY <1>u, <3>1
    <3>5. in' = At(out', Len(queue') + 1)
      BY <1>u, <2>1, <3>1, <3>2, <3>3, <3>4, NextPlace
    <3>6. \A i \in 1..Len(queue) + 1 :
            queue'[i] = IF i <= Len(queue) THEN queue[i] ELSE Head(todo)
      <4>1. \A i \in 1..Len(queue) + Len(<<Head(todo)>>) :
              queue'[i] = IF i <= Len(queue) THEN queue[i] ELSE <<Head(todo)>>[i - Len(queue)]
        BY <1>u, <2>2, <3>1, ConcatProperties
      <4>2. ASSUME NEW i \in 1..Len(queue) + 1, ~(i <= Len(queue)) PROVE i - Len(queue) = 1
        BY <1>u, <4>2
      <4>3. <<Head(todo)>>[1] = Head(todo)
        OBVIOUS
      <4> QED
        BY <2>2, <4>1, <4>2, <4>3
    <3>7. Kept'
      <4> SUFFICES ASSUME NEW i \in 1..Len(queue') PROVE buffer'[At(out', i)] = queue'[i]
        BY DEF Kept
      <4>1. CASE i <= Len(queue)
        BY <1>u, <2>1, <3>1, <3>3, <3>6, <4>1 DEF Kept
      <4>2. CASE ~(i <= Len(queue))
        <5>1. i = Len(queue) + 1
          BY <1>u, <3>1, <4>2
        <5> QED
          BY <1>u, <2>1, <3>1, <3>3, <3>6, <5>1
      <4> QED
        BY <4>1, <4>2
    <3>8. Len(queue') = count' + InBetween'
      BY <1>u, <2>1, <2>3, <3>1, <3>2 DEF Stored
    <3> QED
      BY <2>1, <3>1, <3>5, <3>7, <3>8 DEF Stored
  <2> QED
    BY <1>t, <2>1, <2>3, <2>4, <2>5 DEF OInv
<1>8. CASE Count
  <2>1. /\ pc = "count" /\ pc' \in {"uart", "drain", "load"} /\ count' = (count + 1) % CountMod
        /\ UNCHANGED <<buffer, in, out, queue, overrun, wrong, raced>>
    BY <1>t, <1>8 DEF Count, Goto, ghosts, TypeOK
  <2>2. count' = IF count = CountMod - 1 THEN 0 ELSE count + 1
    BY <1>u, <2>1, CountSteps
  <2>3. RegHoldsIn' /\ InBetween = 1 /\ InBetween' = 0
    BY <2>1 DEF RegHoldsIn, InBetween
  <2>4. ASSUME Stored PROVE Stored'
    <3>1. Len(queue') = count' + InBetween'
      BY <1>u, <2>1, <2>2, <2>3, <2>4, SizePositive DEF Stored
    <3>2. Kept'
      BY <2>1, <2>4 DEF Stored, Kept
    <3> QED
      BY <2>1, <2>4, <3>1, <3>2 DEF Stored
  <2> QED
    BY <1>t, <2>1, <2>3, <2>4 DEF OInv
<1>9. CASE LedReport
  <2>1. /\ in' = (in + 5) % Size /\ count' = (count + 5) % CountMod
        /\ Record(PacketOf("led"))
        /\ raced' = (raced \/ pc \in {"store", "advance"})
        /\ UNCHANGED <<out, pc, reg>>
    BY <1>9 DEF LedReport, PacketLen
  <2>2. /\ PacketOf("led") \in Seq(Bytes) /\ Len(PacketOf("led")) = 5
        /\ \A i \in 1..5 : PacketOf("led")[i] = <<"led", i>>
    BY PacketBytes DEF Senders
  <2>3. wrong' = wrong
    BY <1>t, <2>1, <2>2, RecordStep
  <2>4. ~raced' => RegHoldsIn'
    BY <2>1 DEF RegHoldsIn
  <2>5. ASSUME ~raced', ~overrun' PROVE Stored'
    <3>1. /\ ~overrun /\ queue' = queue \o PacketOf("led")
          /\ Len(queue') = Len(queue) + 5 /\ Len(queue') <= Size
      BY <1>t, <2>1, <2>2, <2>5, RecordStep
    <3>2. ~raced /\ pc \notin {"store", "advance"} /\ pc' = pc
      BY <2>1, <2>5
    <3>3. Stored /\ Kept
      BY <3>1, <3>2 DEF OInv, Stored
    <3>4. Len(queue) = count + InBetween /\ in = At(out, Len(queue) + 1) /\ Len(queue) \in 0..Size - 5
      BY <1>u, <3>1, <3>3 DEF Stored
    <3>5. InBetween' = InBetween /\ InBetween \in {-1, 0, 1}
      BY <3>2 DEF InBetween
    <3>6. Len(queue') = count' + InBetween'
      <4>1. CountMod \in Nat /\ CountMod > 5 /\ CountMod = 2 * Size
        BY SizePositive
      <4>2. count' = IF count + 5 < CountMod THEN count + 5 ELSE count + 5 - CountMod
        BY <1>u, <2>1, <4>1, PacketSteps
      <4> QED
        BY <1>u, <3>1, <3>4, <3>5, <4>1, <4>2
    <3> DEFINE place(k) == (in + k - 1) % Size
    <3>7. \A k \in 1..5 : place(k) = At(out, Len(queue) + k) /\ Len(queue) + k \in 1..Size
      <4> SUFFICES ASSUME NEW k \in 1..5
                   PROVE  place(k) = At(out, Len(queue) + k) /\ Len(queue) + k \in 1..Size
        OBVIOUS
      <4>1. k \in 1..PacketLen + 1 /\ Len(queue) \in 0..Size /\ Len(queue) + k \in 1..Size
        BY <1>u, <3>4 DEF PacketLen
      <4>2. Len(queue) + k <= Size + 1
        BY <1>u, <4>1
      <4> QED
        BY <1>u, <3>4, <4>1, <4>2, PacketPlace
    <3>8. in' = At(out', Len(queue') + 1)
      <4>1. 6 \in 1..PacketLen + 1 /\ Len(queue) \in 0..Size /\ Len(queue) + 6 <= Size + 1
        BY <1>u, <3>4 DEF PacketLen
      <4>2. (At(out, Len(queue) + 1) + 6 - 1) % Size = At(out, Len(queue) + 6)
        BY <1>u, <4>1, PacketPlace
      <4>3. At(out, Len(queue) + 1) + 6 - 1 = in + 5 /\ Len(queue') + 1 = Len(queue) + 6
        BY <1>u, <3>1, <3>4
      <4> QED
        BY <2>1, <4>2, <4>3
    <3>9. buffer' = [j \in DOMAIN buffer |->
                       IF \E k \in 1..5 : place(k) = j
                       THEN <<"led", CHOOSE k \in 1..5 : place(k) = j>> ELSE buffer[j]]
      BY <1>9 DEF LedReport, PacketLen
    <3> HIDE DEF place
    <3>10. Kept'
      <4> SUFFICES ASSUME NEW i \in 1..Len(queue') PROVE buffer'[At(out', i)] = queue'[i]
        BY DEF Kept
      <4>0. /\ i \in 1..Size /\ At(out, i) \in DOMAIN buffer /\ out' = out
            /\ queue'[i] = IF i <= Len(queue) THEN queue[i] ELSE PacketOf("led")[i - Len(queue)]
        <5>1. i \in 1..Len(queue) + Len(PacketOf("led")) /\ i \in 1..Size
          BY <1>u, <2>2, <3>1
        <5>2. At(out, i) \in DOMAIN buffer
          BY <1>u, <5>1, PlaceInRange
        <5>3. queue'[i] = IF i <= Len(queue) THEN queue[i] ELSE PacketOf("led")[i - Len(queue)]
          BY <1>u, <2>2, <3>1, <5>1, ConcatProperties
        <5> QED
          BY <2>1, <5>1, <5>2, <5>3
      <4>1. CASE i <= Len(queue)
        <5>1. ~\E k \in 1..5 : place(k) = At(out, i)
          BY <1>u, <3>7, <4>0, <4>1, PlacesDiffer
        <5>2. buffer[At(out, i)] = queue[i]
          BY <1>u, <3>3, <4>0, <4>1 DEF Kept
        <5> QED
          BY <3>9, <4>0, <4>1, <5>1, <5>2
      <4>2. CASE ~(i <= Len(queue))
        <5> DEFINE m == i - Len(queue)
        <5>1. m \in 1..5 /\ i = Len(queue) + m
          BY <1>u, <3>1, <4>0, <4>2
        <5> HIDE DEF m
        <5>2. place(m) = At(out, i)
          BY <3>7, <5>1
        <5>3. \A k \in 1..5 : place(k) = At(out, i) => k = m
          <6> SUFFICES ASSUME NEW k \in 1..5, k # m PROVE place(k) # At(out, i)
            OBVIOUS
          <6>1. Len(queue) + k # i /\ Len(queue) + k \in 1..Size
            BY <1>u, <3>7, <5>1
          <6> QED
            BY <1>u, <3>7, <4>0, <6>1, PlacesDiffer
        <5>4. (CHOOSE k \in 1..5 : place(k) = At(out, i)) = m
          BY <5>1, <5>2, <5>3
        <5>5. buffer'[At(out, i)] = <<"led", m>>
          BY <3>9, <4>0, <5>1, <5>2, <5>4
        <5>6. queue'[i] = <<"led", m>>
          BY <2>2, <4>0, <4>2, <5>1 DEF m
        <5> QED
          BY <4>0, <5>5, <5>6
      <4> QED
        BY <4>1, <4>2
    <3> QED
      BY <3>1, <3>2, <3>6, <3>8, <3>10 DEF Stored
  <2> QED
    BY <1>t, <2>1, <2>3, <2>4, <2>5 DEF OInv
<1>10. CASE Pause \/ UNCHANGED vars
  <2>1. UNCHANGED <<buffer, in, out, count, pc, todo, reg, queue, overrun, wrong, raced>>
    BY <1>10 DEF Pause, vars, ring, ghosts
  <2>2. RegHoldsIn' = RegHoldsIn /\ InBetween' = InBetween /\ Kept' = Kept /\ Full' = Full
    BY <2>1 DEF RegHoldsIn, InBetween, Kept, Full
  <2>3. Stored' = Stored
    BY <2>1, <2>2 DEF Stored
  <2> QED
    BY <1>t, <2>1, <2>2, <2>3 DEF OInv
<1> QED
  BY <1>1, <1>2, <1>3, <1>4, <1>5, <1>6, <1>7, <1>8, <1>9, <1>10 DEF Next, MainStep

(* Bytes leave in the order they were inserted until the buffer overruns or *)
(* an LED report finds the main program with In in a register.              *)
THEOREM BytesStayInOrder == Spec => []FifoUntilOverrun
<1>1. OInv => FifoUntilOverrun
  BY DEF OInv, FifoUntilOverrun
<1> QED
  BY <1>1, InitOrder, OrderStep, PTL DEF Spec

=============================================================================
