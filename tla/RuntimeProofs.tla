--------------------------- MODULE RuntimeProofs ---------------------------
(***************************************************************************)
(* Proofs about what runs tasks and programs: the ring buffer and the      *)
(* scheduler of the concurrent runtime, and the virtual machine.           *)
(*                                                                         *)
(* The ring buffer, for every length N and every set of values: the        *)
(* indexes stay in range, the slots are never raced for, and the buffer is *)
(* a bounded FIFO queue.  All three rest on one order.  Seen from the head *)
(* the producer has acquired, the indexes follow each other around the     *)
(* ring: the head it may see next, the head, the tail the consumer has     *)
(* acquired, the one it may see next, the tail.  RaceFree compares two     *)
(* neighbours at a time and is not inductive without the rest.             *)
(*                                                                         *)
(* The scheduler, for any number of workers, submitters and tasks, any     *)
(* panics and any moment of shutdown.  That every task is in one place is  *)
(* not inductive by itself.  The invariant gives every task one kind of    *)
(* place, which its step from the submitter to a queue, to a worker and to *)
(* its end changes, and says of every kind that no two places of it hold   *)
(* the same task.                                                          *)
(*                                                                         *)
(* The virtual machine, for all bytecode, any number of contexts over the  *)
(* storage and any gas limits: what an execution is billed, and what the   *)
(* storage holds.  The bill rests on an invariant of the meter.  The       *)
(* storage is not inductive by itself: what a success commits is the       *)
(* context's journal, so that journal and what the running execution has   *)
(* written must always amount to the same storage.                         *)
(***************************************************************************)
EXTENDS RingBuffer, Scheduler, SatoshiVM, FiniteSetTheorems, SequenceTheorems, TLAPS

----------------------------------------------------------------------------
(* The ring buffer *)

(* Steps from a to b around the ring. *)
Dist(a, b) == IF a <= b THEN b - a ELSE b - a + N

InOrder(s, a, b, c, d, e) ==
  /\ Dist(s, a) <= Dist(s, b) /\ Dist(s, b) <= Dist(s, c)
  /\ Dist(s, c) <= Dist(s, d) /\ Dist(s, d) <= Dist(s, e)

Order == InOrder(synced.head, view.head, head, synced.tail, view.tail, tail)

(* A thread goes on only if the index it has acquired leaves it room.      *)
Room ==
  /\ pc.producer # "idle" => Succ(tail) # synced.head
  /\ pc.consumer # "idle" => head # synced.tail

RingIInv == TypeOK /\ Order /\ Room

----------------------------------------------------------------------------
LEMMA SuccCases ==
  ASSUME NEW i \in Slot
  PROVE  Succ(i) \in Slot /\ Succ(i) = IF i + 1 = N THEN 0 ELSE i + 1
<1>1. N \in Nat /\ N > 0 /\ i \in Nat /\ i < N  BY RingAssumption DEF Slot
<1>2. CASE i + 1 = N
  <2>1. (i + 1) % N = 0  BY <1>1, <1>2
  <2>. QED  BY <1>1, <1>2, <2>1 DEF Succ, Slot
<1>3. CASE i + 1 < N
  <2>1. (i + 1) % N = i + 1  BY <1>1, <1>3
  <2>. QED  BY <1>1, <1>3, <2>1 DEF Succ, Slot
<1>. QED  BY <1>1, <1>2, <1>3

(* Each index but the last may move up to the next one, ... *)
LEMMA OrderSteps ==
  ASSUME NEW s \in Slot, NEW a \in Slot, NEW b \in Slot, NEW c \in Slot,
         NEW d \in Slot, NEW e \in Slot, InOrder(s, a, b, c, d, e)
  PROVE  /\ a # b => InOrder(s, Succ(a), b, c, d, e)
         /\ b # c => InOrder(s, a, Succ(b), c, d, e)
         /\ InOrder(s, a, b, d, d, e)
         /\ d # e => InOrder(s, a, b, c, Succ(d), e)
         /\ Succ(e) # s => InOrder(s, a, b, c, d, Succ(e))
         /\ InOrder(a, a, b, c, d, e)
<1>1. \A i \in Slot : Succ(i) \in Slot /\ Succ(i) = IF i + 1 = N THEN 0 ELSE i + 1
  BY SuccCases
<1>2. N \in Nat /\ N > 0 /\ \A i \in Slot : i \in Nat /\ i < N
  BY RingAssumption DEF Slot
<1>3. a # b => InOrder(s, Succ(a), b, c, d, e)  BY <1>1, <1>2 DEF InOrder, Dist
<1>4. b # c => InOrder(s, a, Succ(b), c, d, e)  BY <1>1, <1>2 DEF InOrder, Dist
<1>5. InOrder(s, a, b, d, d, e)  BY <1>2 DEF InOrder, Dist
<1>6. ASSUME d # e PROVE InOrder(s, a, b, c, Succ(d), e)
  <2>1. Dist(s, d) < Dist(s, e)  BY <1>2, <1>6 DEF InOrder, Dist
  <2>2. Dist(s, e) < N  BY <1>2 DEF Dist
  <2>3. Dist(s, Succ(d)) = Dist(s, d) + 1  BY <1>1, <1>2, <2>1, <2>2 DEF Dist
  <2>4. \A i \in Slot : Dist(s, i) \in Int  BY <1>2 DEF Dist
  <2>. QED  BY <2>1, <2>3, <2>4 DEF InOrder
<1>7. Succ(e) # s => InOrder(s, a, b, c, d, Succ(e))  BY <1>1, <1>2 DEF InOrder, Dist
<1>8. InOrder(a, a, b, c, d, e)  BY <1>2 DEF InOrder, Dist
<1>. QED  BY <1>3, <1>4, <1>5, <1>6, <1>7, <1>8

LEMMA InitRing == RingInit => RingIInv
<1>. SUFFICES ASSUME RingInit PROVE RingIInv  OBVIOUS
<1>1. 0 \in Slot  BY RingAssumption DEF Slot
<1>2. TypeOK  BY <1>1 DEF RingInit, TypeOK
<1>3. Order  BY <1>1, RingAssumption DEF RingInit, Order, InOrder, Dist
<1>4. Room  BY DEF RingInit, Room
<1>. QED  BY <1>2, <1>3, <1>4 DEF RingIInv

LEMMA OrderHolds ==
  ASSUME RingIInv
  PROVE  /\ {head, tail, view.head, view.tail, synced.head, synced.tail} \subseteq Slot
         /\ InOrder(synced.head, view.head, head, synced.tail, view.tail, tail)
BY DEF RingIInv, TypeOK, Order

LEMMA PropagateIInv ==
  ASSUME RingIInv, Propagate
  PROVE  RingIInv'
<1>. USE OrderHolds DEF RingIInv
<1>1. CASE view.head # head /\ view' = [view EXCEPT !.head = Succ(@)]
  <2>1. Succ(view.head) \in Slot  BY SuccCases
  <2>2. view'.head = Succ(view.head) /\ view'.tail = view.tail  BY <1>1 DEF TypeOK
  <2>3. TypeOK'  BY <1>1, <2>1 DEF TypeOK, Propagate
  <2>4. Order'
    <3>1. InOrder(synced.head, Succ(view.head), head, synced.tail, view.tail, tail)
      BY <1>1, OrderSteps
    <3>2. UNCHANGED <<head, tail, synced>>  BY DEF Propagate
    <3>. QED  BY <2>2, <3>1, <3>2 DEF Order
  <2>5. Room'  BY DEF Room, Propagate
  <2>. QED  BY <2>3, <2>4, <2>5
<1>2. CASE view.tail # tail /\ view' = [view EXCEPT !.tail = Succ(@)]
  <2>1. Succ(view.tail) \in Slot  BY SuccCases
  <2>2. view'.tail = Succ(view.tail) /\ view'.head = view.head  BY <1>2 DEF TypeOK
  <2>3. TypeOK'  BY <1>2, <2>1 DEF TypeOK, Propagate
  <2>4. Order'
    <3>1. InOrder(synced.head, view.head, head, synced.tail, Succ(view.tail), tail)
      BY <1>2, OrderSteps
    <3>2. UNCHANGED <<head, tail, synced>>  BY DEF Propagate
    <3>. QED  BY <2>2, <3>1, <3>2 DEF Order
  <2>5. Room'  BY DEF Room, Propagate
  <2>. QED  BY <2>3, <2>4, <2>5
<1>. QED  BY <1>1, <1>2 DEF Propagate

LEMMA PushIInv ==
  ASSUME RingIInv, Push
  PROVE  RingIInv'
<1>. USE OrderHolds DEF RingIInv
<1>1. ASSUME NEW v \in Value, PushCheck(v) PROVE RingIInv'
  <2>1. synced'.head = view.head /\ synced'.tail = synced.tail
    BY <1>1 DEF PushCheck, Acquired, TypeOK
  <2>2. UNCHANGED <<buffer, head, tail, view, taken, got>>  BY <1>1 DEF PushCheck
  <2>3. TypeOK'  BY <1>1 DEF TypeOK, PushCheck, Acquired
  <2>4. Order'  BY <2>1, <2>2, OrderSteps DEF Order
  <2>5. Room'
    <3>1. pc'.consumer = pc.consumer  BY <1>1 DEF PushCheck, TypeOK
    <3>2. pc'.producer # "idle" => Succ(tail) # view.head
      BY <1>1 DEF PushCheck, TypeOK, Full
    <3>3. Succ(tail)' = Succ(tail)  BY <2>2
    <3>. QED  BY <2>1, <2>2, <3>1, <3>2, <3>3 DEF Room
  <2>. QED  BY <2>3, <2>4, <2>5
<1>2. CASE PushWrite
  <2>1. TypeOK'  BY <1>2 DEF TypeOK, PushWrite
  <2>2. Order'  BY <1>2 DEF Order, PushWrite
  <2>3. Room'  BY <1>2 DEF Room, PushWrite, TypeOK
  <2>. QED  BY <2>1, <2>2, <2>3
<1>3. CASE PushPublish
  <2>1. Succ(tail) \in Slot  BY SuccCases
  <2>2. Succ(tail) # synced.head  BY <1>3 DEF Room, PushPublish
  <2>3. TypeOK'  BY <1>3, <2>1 DEF TypeOK, PushPublish
  <2>4. Order'  BY <1>3, <2>2, OrderSteps DEF Order, PushPublish
  <2>5. Room'  BY <1>3 DEF Room, PushPublish, TypeOK
  <2>. QED  BY <2>3, <2>4, <2>5
<1>. QED  BY <1>1, <1>2, <1>3 DEF Push

LEMMA PopIInv ==
  ASSUME RingIInv, Pop
  PROVE  RingIInv'
<1>. USE OrderHolds DEF RingIInv
<1>1. CASE PopCheck
  <2>1. synced'.tail = view.tail /\ synced'.head = synced.head
    BY <1>1 DEF PopCheck, Acquired, TypeOK
  <2>2. UNCHANGED <<buffer, head, tail, view, val, taken, got>>  BY <1>1 DEF PopCheck
  <2>3. TypeOK'  BY <1>1 DEF TypeOK, PopCheck, Acquired
  <2>4. Order'  BY <2>1, <2>2, OrderSteps DEF Order
  <2>5. Room'
    <3>1. pc'.producer = pc.producer  BY <1>1 DEF PopCheck, TypeOK
    <3>2. pc'.consumer # "idle" => head # view.tail
      BY <1>1 DEF PopCheck, TypeOK
    <3>3. Succ(tail)' = Succ(tail)  BY <2>2
    <3>. QED  BY <2>1, <2>2, <3>1, <3>2, <3>3 DEF Room
  <2>. QED  BY <2>3, <2>4, <2>5
<1>2. CASE PopTake
  <2>1. TypeOK'  BY <1>2 DEF TypeOK, PopTake
  <2>2. Order'  BY <1>2 DEF Order, PopTake
  <2>3. Room'  BY <1>2 DEF Room, PopTake, TypeOK
  <2>. QED  BY <2>1, <2>2, <2>3
<1>3. CASE PopAdvance
  <2>1. Succ(head) \in Slot  BY SuccCases
  <2>2. head # synced.tail  BY <1>3 DEF Room, PopAdvance
  <2>3. TypeOK'  BY <1>3, <2>1 DEF TypeOK, PopAdvance
  <2>4. Order'  BY <1>3, <2>2, OrderSteps DEF Order, PopAdvance
  <2>5. Room'  BY <1>3 DEF Room, PopAdvance, TypeOK
  <2>. QED  BY <2>3, <2>4, <2>5
<1>. QED  BY <1>1, <1>2, <1>3 DEF Pop

LEMMA NextRing == RingIInv /\ [RingNext]_ringVars => RingIInv'
<1>1. RingIInv /\ UNCHANGED ringVars => RingIInv'
  BY DEF ringVars, RingIInv, TypeOK, Order, Room
<1>. QED  BY <1>1, PropagateIInv, PushIInv, PopIInv DEF RingNext

LEMMA SpecRing == RingSpec => []RingIInv
BY InitRing, NextRing, PTL DEF RingSpec

(* Whatever N is, the indexes stay within the array and slots hold values. *)
THEOREM TypeCorrect == RingSpec => []TypeOK
<1>1. RingIInv => TypeOK  BY DEF RingIInv
<1>. QED  BY <1>1, SpecRing, PTL

(* No slot is ever accessed by both threads at a time, nor by one before   *)
(* it has acquired the other's last access.                                *)
THEOREM AlwaysRaceFree == RingSpec => []RaceFree
<1>1. ASSUME RingIInv PROVE RaceFree
  <2>1. pc.producer = "write" => Succ(tail) # synced.head  BY <1>1 DEF RingIInv, Room
  <2>2. pc.consumer = "take" => head # synced.tail  BY <1>1 DEF RingIInv, Room
  <2>3. head = tail => head = synced.tail
    <3>1. \A i \in Slot : i \in Int  BY RingAssumption DEF Slot
    <3>2. Dist(synced.head, head) <= Dist(synced.head, synced.tail)
          /\ Dist(synced.head, synced.tail) <= Dist(synced.head, tail)
      BY <1>1, <3>1, OrderHolds, RingAssumption DEF InOrder, Dist
    <3>. QED  BY <1>1, <3>1, <3>2, OrderHolds, RingAssumption DEF Dist, Slot
  <2>. QED  BY <2>1, <2>2, <2>3 DEF RaceFree
<1>. QED  BY <1>1, SpecRing, PTL

----------------------------------------------------------------------------
(* Refinement.  The push takes effect when tail moves, the pop when head   *)
(* does.  What has been written but not published is at tail.              *)

Written ==
  /\ pc.producer # "idle" => val \in Value
  /\ pc.producer = "publish" => buffer[tail] = val

FInv == RingIInv /\ Written

(* The slots of the values held are not the free one at tail, and those of *)
(* different values are different.                                         *)
LEMMA SlotFacts ==
  ASSUME TypeOK
  PROVE  /\ N \in Nat /\ Count \in Nat /\ Count < N
         /\ Count = 0 <=> head = tail
         /\ SlotOf(1) = head /\ SlotOf(Count + 1) = tail
         /\ \A k \in 1 .. Count : SlotOf(k) \in Slot /\ SlotOf(k) # tail
         /\ \A k \in 2 .. Count : SlotOf(k) # head
BY RingAssumption DEF TypeOK, Slot, Count, SlotOf

(* What Contents is, as a sequence. *)
Shape ==
  /\ Contents \in Seq(Value \cup {Nothing})
  /\ Len(Contents) = Count
  /\ DOMAIN Contents = 1 .. Count
  /\ \A k \in 1 .. Count :
       Contents[k] = IF k = 1 /\ pc.consumer = "advance" THEN taken
                     ELSE buffer[SlotOf(k)]

LEMMA ContentsShape == TypeOK => Shape
<1>. SUFFICES ASSUME TypeOK PROVE Shape  OBVIOUS
<1>1. Count \in Nat /\ \A k \in 1 .. Count : SlotOf(k) \in Slot  BY SlotFacts
<1>2. \A k \in 1 .. Count :
        (IF k = 1 /\ pc.consumer = "advance" THEN taken ELSE buffer[SlotOf(k)])
          \in Value \cup {Nothing}
  BY <1>1 DEF TypeOK
<1>3. Contents \in [1 .. Count -> Value \cup {Nothing}]  BY <1>2 DEF Contents
<1>4. Contents \in Seq(Value \cup {Nothing}) /\ Len(Contents) = Count  BY <1>1, <1>3
<1>. QED  BY <1>3, <1>4 DEF Contents, Shape

LEMMA ContentsShapeNext == TypeOK' => Shape'
BY ContentsShape, PTL

(* Steps that leave indexes and values alone leave the queue alone.        *)
LEMMA ContentsKept ==
  ASSUME TypeOK, TypeOK', UNCHANGED <<head, tail>>,
         \A k \in 1 .. Count : Contents'[k] = Contents[k]
  PROVE  Contents' = Contents
<1>1. Count' = Count  BY DEF Count
<1>2. Contents' = [k \in 1 .. Count' |-> Contents'[k]]  BY DEF Contents
<1>3. Contents = [k \in 1 .. Count |-> Contents[k]]  BY DEF Contents
<1>. QED  BY <1>1, <1>2, <1>3

LEMMA RoomForOne ==
  ASSUME RingIInv
  PROVE  /\ pc.consumer # "idle" => head # tail
         /\ pc.producer # "idle" => Succ(tail) # head
<1>1. N \in Nat /\ N > 0 /\ \A i \in Slot : i \in Nat /\ i < N
  BY RingAssumption DEF Slot
<1>2. /\ Dist(synced.head, head) <= Dist(synced.head, synced.tail)
      /\ Dist(synced.head, synced.tail) <= Dist(synced.head, tail)
      /\ Dist(synced.head, head) <= Dist(synced.head, tail)
  BY <1>1, OrderHolds DEF InOrder, Dist
<1>3. head = tail => head = synced.tail
  BY <1>1, <1>2, OrderHolds DEF Dist
<1>4. Succ(tail) = head => Succ(tail) = synced.head
  BY <1>1, <1>2, OrderHolds, SuccCases DEF Dist
<1>. QED  BY <1>3, <1>4 DEF RingIInv, Room

LEMMA NextFInv == FInv /\ [RingNext]_ringVars => FInv'
<1>. SUFFICES ASSUME FInv, [RingNext]_ringVars PROVE FInv'  OBVIOUS
<1>1. RingIInv'  BY NextRing DEF FInv
<1>2. Written'
  <2>1. CASE UNCHANGED ringVars  BY <2>1 DEF ringVars, FInv, Written
  <2>2. CASE Propagate  BY <2>2 DEF Propagate, FInv, Written
  <2>3. ASSUME NEW v \in Value, PushCheck(v) PROVE Written'
    BY <2>3 DEF PushCheck, FInv, Written, RingIInv, TypeOK
  <2>4. CASE PushWrite  BY <2>4 DEF PushWrite, FInv, Written, RingIInv, TypeOK
  <2>5. CASE PushPublish  BY <2>5 DEF PushPublish, FInv, Written, RingIInv, TypeOK
  <2>6. CASE PopCheck
    <3>1. pc'.producer = pc.producer  BY <2>6 DEF PopCheck, FInv, RingIInv, TypeOK
    <3>. QED  BY <2>6, <3>1 DEF PopCheck, FInv, Written
  <2>7. CASE PopTake
    <3>1. pc'.producer = pc.producer  BY <2>7 DEF PopTake, FInv, RingIInv, TypeOK
    <3>2. head # tail  BY <2>7, RoomForOne DEF PopTake, FInv
    <3>3. buffer'[tail] = buffer[tail]  BY <2>7, <3>2 DEF PopTake, FInv, RingIInv, TypeOK
    <3>. QED  BY <2>7, <3>1, <3>3 DEF PopTake, FInv, Written
  <2>8. CASE PopAdvance
    <3>1. pc'.producer = pc.producer  BY <2>8 DEF PopAdvance, FInv, RingIInv, TypeOK
    <3>. QED  BY <2>8, <3>1 DEF PopAdvance, FInv, Written
  <2>. QED  BY <2>1, <2>2, <2>3, <2>4, <2>5, <2>6, <2>7, <2>8 DEF RingNext, Push, Pop
<1>. QED  BY <1>1, <1>2 DEF FInv

LEMMA InitFInv == RingInit => FInv /\ Fifo!Init
<1>. SUFFICES ASSUME RingInit PROVE FInv /\ Fifo!Init  OBVIOUS
<1>1. FInv  BY InitRing DEF FInv, RingInit, Written
<1>2. Count = 0 /\ TypeOK  BY <1>1, RingAssumption DEF RingInit, Count, FInv, RingIInv
<1>3. Contents = <<>>  BY <1>2, ContentsShape, EmptySeq DEF Shape
<1>. QED  BY <1>1, <1>3 DEF Fifo!Init, RingInit

(* A published value has been put at the end of the queue. *)
LEMMA PublishPuts ==
  ASSUME FInv, FInv', PushPublish
  PROVE  \E v \in Value : Fifo!Put(v)
<1>1. TypeOK /\ TypeOK'  BY DEF FInv, RingIInv
<1>2. /\ head' = head /\ tail' = Succ(tail) /\ buffer' = buffer /\ taken' = taken
      /\ pc'.consumer = pc.consumer /\ got' = got
  BY <1>1 DEF PushPublish, TypeOK
<1>3. val \in Value /\ buffer[tail] = val  BY DEF PushPublish, FInv, Written
<1>4. Succ(tail) # head  BY RoomForOne DEF FInv, PushPublish
<1>5. Count' = Count + 1 /\ Count < N - 1 /\ Count \in Nat
  <2>1. head \in Nat /\ head < N /\ tail \in Nat /\ tail < N /\ N \in Nat
    BY <1>1, RingAssumption DEF TypeOK, Slot
  <2>2. tail' = IF tail + 1 = N THEN 0 ELSE tail + 1
    BY <1>1, <1>2, SuccCases DEF TypeOK
  <2>3. Count' = IF head <= tail' THEN tail' - head ELSE tail' - head + N
    BY <1>2 DEF Count
  <2>. QED  BY <1>2, <1>4, <2>1, <2>2, <2>3 DEF Count
<1>6. \A k \in Nat : SlotOf(k)' = SlotOf(k)  BY <1>2 DEF SlotOf
<1>7. Contents' \in Seq(Value \cup {Nothing}) /\ Len(Contents') = Count + 1
      /\ \A k \in 1 .. Count + 1 :
            Contents'[k] = IF k = 1 /\ pc.consumer = "advance" THEN taken
                           ELSE buffer[SlotOf(k)]
  <2>1. /\ Contents' \in Seq(Value \cup {Nothing}) /\ Len(Contents') = Count'
        /\ \A k \in 1 .. Count' :
              Contents'[k] = IF k = 1 /\ pc'.consumer = "advance" THEN taken'
                             ELSE buffer'[SlotOf(k)']
    BY <1>1, ContentsShapeNext DEF Shape
  <2>. QED  BY <2>1, <1>2, <1>5, <1>6
<1>8. Contents'[Count + 1] = val
  <2>1. SlotOf(Count + 1) = tail  BY <1>1, SlotFacts
  <2>2. CASE Count = 0
    <3>1. pc.consumer = "idle"
      BY <1>1, <2>2, SlotFacts, RoomForOne DEF FInv
    <3>. QED  BY <1>3, <1>5, <1>7, <2>1, <3>1
  <2>3. CASE Count # 0  BY <1>3, <1>5, <1>7, <2>1, <2>3
  <2>. QED  BY <2>2, <2>3
<1>9. /\ Contents \in Seq(Value \cup {Nothing}) /\ Len(Contents) = Count
      /\ \A k \in 1 .. Count : Contents'[k] = Contents[k]
  BY <1>1, <1>5, <1>7, ContentsShape DEF Shape
<1>10. Contents' = Append(Contents, val)
  <2> DEFINE c == Contents
             d == Contents'
             S == Value \cup {Nothing}
  <2>1. /\ c \in Seq(S) /\ d \in Seq(S) /\ val \in S /\ Len(d) = Len(c) + 1
        /\ \A k \in 1 .. Len(c) : d[k] = c[k]
        /\ d[Len(c) + 1] = val
    BY <1>3, <1>7, <1>8, <1>9
  <2>. HIDE DEF c, d, S
  <2>2. Append(c, val) \in Seq(S) /\ Len(Append(c, val)) = Len(c) + 1 /\ Len(c) \in Nat
        /\ \A k \in 1 .. Len(c) + 1 : Append(c, val)[k] = d[k]
    BY <2>1
  <2>3. d = Append(c, val)  BY <2>1, <2>2, SeqEqual
  <2>. QED  BY <2>3 DEF c, d
<1>. QED  BY <1>2, <1>3, <1>5, <1>9, <1>10 DEF Fifo!Put

(* Advancing head takes the oldest value. *)
LEMMA AdvanceGets ==
  ASSUME FInv, FInv', PopAdvance
  PROVE  Fifo!Get
<1>1. TypeOK /\ TypeOK'  BY DEF FInv, RingIInv
<1>2. /\ head' = Succ(head) /\ tail' = tail /\ buffer' = buffer /\ got' = taken
      /\ pc.consumer = "advance" /\ pc'.consumer = "idle"
  BY <1>1 DEF PopAdvance, TypeOK
<1>3. head # tail  BY <1>2, RoomForOne DEF FInv
<1>4. Count' = Count - 1 /\ Count \in Nat /\ Count > 0
  <2>1. head \in Nat /\ head < N /\ tail \in Nat /\ tail < N /\ N \in Nat
    BY <1>1, RingAssumption DEF TypeOK, Slot
  <2>2. head' = IF head + 1 = N THEN 0 ELSE head + 1
    BY <1>1, <1>2, SuccCases DEF TypeOK
  <2>3. Count' = IF head' <= tail THEN tail - head' ELSE tail - head' + N
    BY <1>2 DEF Count
  <2>. QED  BY <1>3, <2>1, <2>2, <2>3 DEF Count
<1>5. \A k \in 1 .. Count - 1 : SlotOf(k)' = SlotOf(k + 1)
  <2>1. head \in Nat /\ head < N /\ N \in Nat /\ Count \in Nat /\ Count < N
    BY <1>1, SlotFacts, RingAssumption DEF TypeOK, Slot
  <2>2. head' = IF head + 1 = N THEN 0 ELSE head + 1
    BY <1>1, <1>2, SuccCases DEF TypeOK
  <2>3. \A k \in Nat :
          SlotOf(k)' = IF head' + k - 1 < N THEN head' + k - 1 ELSE head' + k - 1 - N
    BY DEF SlotOf
  <2>. QED  BY <2>1, <2>2, <2>3 DEF SlotOf
<1>6. /\ Contents \in Seq(Value \cup {Nothing}) /\ Len(Contents) = Count
      /\ Contents[1] = taken
      /\ \A k \in 2 .. Count : Contents[k] = buffer[SlotOf(k)]
  BY <1>1, <1>2, <1>4, ContentsShape DEF Shape
<1>7. Contents' \in Seq(Value \cup {Nothing}) /\ Len(Contents') = Count - 1
      /\ \A k \in 1 .. Count - 1 : Contents'[k] = buffer[SlotOf(k + 1)]
  <2>1. /\ Contents' \in Seq(Value \cup {Nothing}) /\ Len(Contents') = Count'
        /\ \A k \in 1 .. Count' :
              Contents'[k] = IF k = 1 /\ pc'.consumer = "advance" THEN taken'
                             ELSE buffer'[SlotOf(k)']
    BY <1>1, ContentsShapeNext DEF Shape
  <2>. QED  BY <2>1, <1>2, <1>4, <1>5
<1>8. Contents # <<>> /\ Head(Contents) = taken /\ Contents' = Tail(Contents)
  <2> DEFINE c == Contents
             d == Contents'
             S == Value \cup {Nothing}
  <2>1. /\ c \in Seq(S) /\ d \in Seq(S) /\ Len(d) = Len(c) - 1 /\ Len(c) > 0
        /\ c[1] = taken
        /\ \A k \in 1 .. Len(d) : d[k] = c[k + 1]
    BY <1>4, <1>6, <1>7
  <2>. HIDE DEF c, d, S
  <2>2. c # <<>>  BY <2>1
  <2>3. /\ Tail(c) \in Seq(S) /\ Len(Tail(c)) = Len(c) - 1
        /\ \A k \in 1 .. Len(Tail(c)) : Tail(c)[k] = c[k + 1]
    BY <2>1, <2>2, HeadTailProperties
  <2>4. d = Tail(c)  BY <2>1, <2>3, SeqEqual
  <2>5. Head(c) = taken  BY <2>1, <2>2
  <2>. QED  BY <2>2, <2>4, <2>5 DEF c, d
<1>. QED  BY <1>2, <1>8 DEF Fifo!Get

(* The other steps do not show. *)
LEMMA OthersStutter ==
  ASSUME FInv, FInv',
         \/ Propagate \/ PushWrite \/ PopCheck \/ PopTake
         \/ \E v \in Value : PushCheck(v)
  PROVE  UNCHANGED <<Contents, got>>
<1>1. TypeOK /\ TypeOK'  BY DEF FInv, RingIInv
<1>2. UNCHANGED <<head, tail, got>>
  BY DEF Propagate, PushWrite, PopCheck, PopTake, PushCheck
<1>3. Count' = Count /\ \A k \in Nat : SlotOf(k)' = SlotOf(k)
  BY <1>2 DEF Count, SlotOf
<1>4. \A k \in 1 .. Count :
        /\ Contents[k] = IF k = 1 /\ pc.consumer = "advance" THEN taken
                         ELSE buffer[SlotOf(k)]
        /\ Contents'[k] = IF k = 1 /\ pc'.consumer = "advance" THEN taken'
                          ELSE buffer'[SlotOf(k)]
  BY <1>1, <1>3, SlotFacts, ContentsShape, ContentsShapeNext DEF Shape
<1>5. \A k \in 1 .. Count : Contents'[k] = Contents[k]
  <2>1. CASE Propagate \/ PopCheck \/ \E v \in Value : PushCheck(v)
    <3>1. /\ UNCHANGED <<buffer, taken>>
          /\ pc'.consumer = "advance" <=> pc.consumer = "advance"
      BY <1>1, <2>1 DEF Propagate, PopCheck, PushCheck, TypeOK
    <3>. QED  BY <1>4, <3>1
  <2>2. CASE PushWrite
    <3>1. /\ buffer' = [buffer EXCEPT ![tail] = val] /\ taken' = taken
          /\ pc'.consumer = pc.consumer
      BY <1>1, <2>2 DEF PushWrite, TypeOK
    <3>2. \A k \in 1 .. Count : buffer'[SlotOf(k)] = buffer[SlotOf(k)]
      BY <1>1, <3>1, SlotFacts DEF TypeOK
    <3>. QED  BY <1>4, <3>1, <3>2
  <2>3. CASE PopTake
    <3>1. /\ buffer' = [buffer EXCEPT ![head] = Nothing] /\ taken' = buffer[head]
          /\ pc.consumer = "take" /\ pc'.consumer = "advance"
      BY <1>1, <2>3 DEF PopTake, TypeOK
    <3>2. \A k \in 2 .. Count : buffer'[SlotOf(k)] = buffer[SlotOf(k)]
      BY <1>1, <3>1, SlotFacts DEF TypeOK
    <3>3. SlotOf(1) = head /\ Count \in Nat  BY <1>1, SlotFacts
    <3>. QED  BY <1>4, <3>1, <3>2, <3>3
  <2>. QED  BY <2>1, <2>2, <2>3
<1>. QED  BY <1>1, <1>2, <1>5, ContentsKept

(* For every length and every set of values, the ring buffer implements a  *)
(* FIFO queue of N - 1 places.                                             *)
THEOREM RingIsFifo == RingSpec => ImplementsFifo
<1>1. RingInit => FInv /\ Fifo!Init  BY InitFInv
<1>2. FInv /\ [RingNext]_ringVars => FInv'  BY NextFInv
<1>3. FInv /\ FInv' /\ [RingNext]_ringVars => [Fifo!Next]_<<Contents, got>>
  <2>. SUFFICES ASSUME FInv, FInv', [RingNext]_ringVars PROVE [Fifo!Next]_<<Contents, got>>
    OBVIOUS
  <2>1. CASE UNCHANGED ringVars  BY <2>1 DEF ringVars, Contents, Count, SlotOf
  <2>2. CASE PushPublish  BY <2>2, PublishPuts DEF Fifo!Next
  <2>3. CASE PopAdvance  BY <2>3, AdvanceGets DEF Fifo!Next
  <2>4. CASE Propagate \/ PushWrite \/ PopCheck \/ PopTake
             \/ \E v \in Value : PushCheck(v)
    BY <2>4, OthersStutter
  <2>. QED  BY <2>1, <2>2, <2>3, <2>4 DEF RingNext, Push, Pop
<1>. QED  BY <1>1, <1>2, <1>3, PTL DEF RingSpec, ImplementsFifo, Fifo!Spec

----------------------------------------------------------------------------
(* The scheduler *)

WorkerStates == {"check", "own", "steal", "stolen", "run", "count", "park", "parked", "wake",
                 "stopped", "dead"}
SubmitterStates == {"idle", "scan", "push", "notify", "count"}

Types ==
  /\ queues \in [Worker -> Seq(Task)]
  /\ metrics \in [submitted : Nat, executed : Nat, stolen : Nat]
  /\ wpc \in [Worker -> WorkerStates] /\ spc \in [Submitter -> SubmitterStates]
  /\ held \in [Worker -> Task \cup {NoTask}] /\ arg \in [Submitter -> Task \cup {NoTask}]
  /\ victim \in [Worker -> 0 .. NumWorkers]
  /\ scan \in [Submitter -> [at : Nat, best : Worker, len : Nat]]
  /\ next_id \in Nat \ {0} /\ ran \subseteq Task /\ panicked \subseteq Task

(* A thread has a task in hand exactly where its state says so. *)
InHand ==
  /\ \A s \in Submitter : /\ arg[s] # NoTask <=> spc[s] \in {"scan", "push"}
                          /\ spc[s] = "scan" => scan[s].at \in Worker
                          /\ spc[s] \notin {"scan", "push"} => scan[s] = NoScan
  /\ \A w \in Worker : held[w] # NoTask <=> wpc[w] \in {"stolen", "run"}

(* Position and queue of a task. *)
In(q, t) == \E i \in 1 .. Len(q) : q[i] = t
NoDup(q) == \A i, j \in 1 .. Len(q) : q[i] = q[j] => i = j

Once ==
  /\ \A s, r \in Submitter : arg[s] = arg[r] /\ arg[s] # NoTask => s = r
  /\ \A w, v \in Worker : held[w] = held[v] /\ held[w] # NoTask => w = v
  /\ \A w \in Worker : NoDup(queues[w])
  /\ \A w, v \in Worker : \A t \in Task : In(queues[w], t) /\ In(queues[v], t) => w = v

Kinds == {"fresh", "submitting", "queued", "held", "ran", "panicked"}

(* st says of every task what kind of place it is in. *)
Sorted(st) ==
  /\ st \in [Task -> Kinds]
  /\ \A t \in Task : t >= next_id <=> st[t] = "fresh"
  /\ \A t \in Task : (\E s \in Submitter : arg[s] = t) <=> st[t] = "submitting"
  /\ \A t \in Task : (\E w \in Worker : In(queues[w], t)) <=> st[t] = "queued"
  /\ \A t \in Task : (\E w \in Worker : held[w] = t) <=> st[t] = "held"
  /\ \A t \in Task : t \in ran <=> st[t] = "ran"
  /\ \A t \in Task : t \in panicked <=> st[t] = "panicked"

Placed == Once /\ \E st : Sorted(st)

LEMMA Numbers ==
  /\ Task \subseteq Nat \ {0} /\ NoTask \notin Task /\ IsFiniteSet(Task)
  /\ 0 \in Worker /\ Worker \subseteq Nat /\ NumWorkers \in Nat \ {0} /\ IsFiniteSet(Worker)
  /\ \A w \in Worker : w + 1 \in 0 .. NumWorkers /\ (w + 1 # NumWorkers => w + 1 \in Worker)
  /\ \A i \in 0 .. NumWorkers : i # NumWorkers => i \in Worker
<1>1. NumWorkers \in Nat \ {0} /\ MaxTasks \in Nat  BY SchedulerAssumption
<1>2. IsFiniteSet(Task)  BY <1>1, FS_Interval DEF Task
<1>3. IsFiniteSet(Worker)
  <2>1. 0 \in Int /\ NumWorkers - 1 \in Int  BY <1>1
  <2>. QED  BY <2>1, FS_Interval DEF Worker
<1>. QED  BY <1>1, <1>2, <1>3 DEF Task, Worker, NoTask
----------------------------------------------------------------------------
(* Queues. *)

LEMMA InAppend ==
  ASSUME NEW q \in Seq(Task), NEW x \in Task
  PROVE  /\ Append(q, x) \in Seq(Task)
         /\ \A t : In(Append(q, x), t) <=> In(q, t) \/ t = x
         /\ NoDup(q) /\ ~In(q, x) => NoDup(Append(q, x))
<1>1. /\ Append(q, x) \in Seq(Task) /\ Len(Append(q, x)) = Len(q) + 1 /\ Len(q) \in Nat
      /\ Append(q, x)[Len(q) + 1] = x /\ \A i \in 1 .. Len(q) : Append(q, x)[i] = q[i]
  OBVIOUS
<1>2. ASSUME NEW t PROVE In(Append(q, x), t) <=> In(q, t) \/ t = x
  <2>1. ASSUME In(Append(q, x), t) PROVE In(q, t) \/ t = x
    <3>1. PICK i \in 1 .. Len(q) + 1 : Append(q, x)[i] = t  BY <1>1, <2>1 DEF In
    <3>2. CASE i = Len(q) + 1  BY <1>1, <3>1, <3>2
    <3>3. CASE i # Len(q) + 1  BY <1>1, <3>1, <3>3 DEF In
    <3>. QED  BY <3>2, <3>3
  <2>2. ASSUME In(q, t) PROVE In(Append(q, x), t)  BY <1>1, <2>2 DEF In
  <2>3. In(Append(q, x), x)  BY <1>1 DEF In
  <2>. QED  BY <2>1, <2>2, <2>3
<1>3. NoDup(q) /\ ~In(q, x) => NoDup(Append(q, x))
  <2>. SUFFICES ASSUME NoDup(q), ~In(q, x), NEW i \in 1 .. Len(q) + 1, NEW j \in 1 .. Len(q) + 1,
                       Append(q, x)[i] = Append(q, x)[j]
                PROVE  i = j
    BY <1>1 DEF NoDup
  <2>1. CASE i = Len(q) + 1 \/ j = Len(q) + 1  BY <1>1, <2>1 DEF In
  <2>2. CASE i # Len(q) + 1 /\ j # Len(q) + 1  BY <1>1, <2>2 DEF NoDup
  <2>. QED  BY <2>1, <2>2
<1>. QED  BY <1>1, <1>2, <1>3

(* Taking the first or the last task. *)
LEMMA InTail ==
  ASSUME NEW q \in Seq(Task), q # << >>, NoDup(q)
  PROVE  /\ Tail(q) \in Seq(Task) /\ NoDup(Tail(q)) /\ Head(q) \in Task /\ In(q, Head(q))
         /\ \A t : In(Tail(q), t) <=> In(q, t) /\ t # Head(q)
<1>1. /\ Tail(q) \in Seq(Task) /\ Len(Tail(q)) = Len(q) - 1 /\ Len(q) \in Nat /\ Len(q) > 0
      /\ Head(q) = q[1] /\ q[1] \in Task /\ \A i \in 1 .. Len(q) - 1 : Tail(q)[i] = q[i + 1]
  OBVIOUS
<1>2. NoDup(Tail(q))
  <2>. SUFFICES ASSUME NEW i \in 1 .. Len(q) - 1, NEW j \in 1 .. Len(q) - 1, Tail(q)[i] = Tail(q)[j]
                PROVE  i = j
    BY <1>1 DEF NoDup
  <2>1. i + 1 \in 1 .. Len(q) /\ j + 1 \in 1 .. Len(q)  BY <1>1
  <2>. QED  BY <1>1, <2>1 DEF NoDup
<1>3. ASSUME NEW t PROVE In(Tail(q), t) <=> In(q, t) /\ t # Head(q)
  <2>1. ASSUME NEW i \in 1 .. Len(q) - 1, Tail(q)[i] = t PROVE In(q, t) /\ t # Head(q)
    <3>1. i + 1 \in 1 .. Len(q) /\ 1 \in 1 .. Len(q) /\ i + 1 # 1  BY <1>1
    <3>. QED  BY <1>1, <2>1, <3>1 DEF In, NoDup
  <2>2. ASSUME NEW i \in 1 .. Len(q), q[i] = t, t # Head(q) PROVE In(Tail(q), t)
    <3>1. i - 1 \in 1 .. Len(q) - 1 /\ Tail(q)[i - 1] = q[i]  BY <1>1, <2>2
    <3>. QED  BY <1>1, <2>2, <3>1 DEF In
  <2>. QED  BY <1>1, <2>1, <2>2 DEF In
<1>. QED  BY <1>1, <1>2, <1>3 DEF In

LEMMA InStolen ==
  ASSUME NEW q \in Seq(Task), q # << >>, NoDup(q)
  PROVE  /\ StolenFrom(q) \in Seq(Task) /\ NoDup(StolenFrom(q)) /\ Last(q) \in Task /\ In(q, Last(q))
         /\ \A t : In(StolenFrom(q), t) <=> In(q, t) /\ t # Last(q)
<1>1. /\ StolenFrom(q) \in Seq(Task) /\ Len(StolenFrom(q)) = Len(q) - 1
      /\ Len(q) \in Nat /\ Len(q) > 0 /\ Last(q) = q[Len(q)] /\ q[Len(q)] \in Task
      /\ \A i \in 1 .. Len(q) - 1 : StolenFrom(q)[i] = q[i]
  <2>1. Len(q) \in Nat /\ Len(q) > 0 /\ \A i \in 1 .. Len(q) : q[i] \in Task  OBVIOUS
  <2>2. 1 \in Int /\ Len(q) - 1 \in Int /\ \A i \in 1 .. Len(q) - 1 : q[i] \in Task  BY <2>1
  <2>3. /\ StolenFrom(q) \in Seq(Task)
        /\ Len(StolenFrom(q)) = IF 1 <= Len(q) - 1 THEN Len(q) - 1 - 1 + 1 ELSE 0
        /\ \A i \in 1 .. Len(q) - 1 - 1 + 1 : StolenFrom(q)[i] = q[1 + i - 1]
    BY <2>2, SubSeqProperties DEF StolenFrom, Front
  <2>4. \A i \in 1 .. Len(q) - 1 : i \in 1 .. Len(q) - 1 - 1 + 1 /\ 1 + i - 1 = i  BY <2>1
  <2>5. \A i \in 1 .. Len(q) - 1 : StolenFrom(q)[i] = q[i]  BY <2>3, <2>4
  <2>6. Len(StolenFrom(q)) = Len(q) - 1
    <3>1. Len(StolenFrom(q)) = IF 1 <= Len(q) - 1 THEN Len(q) - 1 - 1 + 1 ELSE 0  BY <2>3
    <3>2. PICK n \in Nat : n = Len(q) /\ n > 0  BY <2>1
    <3>. QED  BY <3>1, <3>2
  <2>7. Last(q) = q[Len(q)] /\ q[Len(q)] \in Task  BY <2>1 DEF Last
  <2>. QED  BY <2>1, <2>3, <2>5, <2>6, <2>7
<1>2. NoDup(StolenFrom(q))  BY <1>1 DEF NoDup
<1>3. ASSUME NEW t PROVE In(StolenFrom(q), t) <=> In(q, t) /\ t # Last(q)
  <2>1. ASSUME NEW i \in 1 .. Len(q) - 1, StolenFrom(q)[i] = t PROVE In(q, t) /\ t # Last(q)
    <3>1. i \in 1 .. Len(q) /\ Len(q) \in 1 .. Len(q) /\ i # Len(q)  BY <1>1
    <3>. QED  BY <1>1, <2>1, <3>1 DEF In, NoDup
  <2>2. ASSUME NEW i \in 1 .. Len(q), q[i] = t, t # Last(q) PROVE In(StolenFrom(q), t)
    <3>1. i \in 1 .. Len(q) - 1  BY <1>1, <2>2
    <3>. QED  BY <1>1, <2>2, <3>1 DEF In
  <2>. QED  BY <1>1, <2>1, <2>2 DEF In
<1>. QED  BY <1>1, <1>2, <1>3 DEF In
----------------------------------------------------------------------------
(* The steps.  A task moves from one place to another. *)

LEMMA Counting ==
  ASSUME metrics \in [submitted : Nat, executed : Nat, stolen : Nat]
  PROVE  /\ [metrics EXCEPT !.submitted = @ + 1] \in [submitted : Nat, executed : Nat, stolen : Nat]
         /\ [metrics EXCEPT !.executed = @ + 1] \in [submitted : Nat, executed : Nat, stolen : Nat]
         /\ [metrics EXCEPT !.stolen = @ + 1] \in [submitted : Nat, executed : Nat, stolen : Nat]
         /\ metrics.submitted \in Nat /\ metrics.executed \in Nat
OBVIOUS

LEMMA TypesNext ==
  ASSUME Types, InHand, [Next]_vars
  PROVE  Types' /\ InHand'
<1>. USE Numbers DEF Types, InHand, WorkerStates, SubmitterStates, Parked
<1>1. CASE UNCHANGED vars  BY <1>1 DEF vars, workerVars, submitVars
<1>2. CASE Shutdown
  <2>1. Types'  BY <1>2 DEF Shutdown, submitVars
  <2>2. InHand'  BY <1>2 DEF Shutdown, submitVars
  <2>. QED  BY <2>1, <2>2
<1>3. ASSUME NEW s \in Submitter, Submit(s) PROVE Types' /\ InHand'
  <2>1. next_id \in Task /\ next_id # NoTask  BY <1>3 DEF Submit
  <2>2. Types'  BY <1>3, <2>1, SMTT(30) DEF Submit, workerVars
  <2>3. InHand'  BY <1>3, <2>1 DEF Submit, workerVars, NoScan
  <2>. QED  BY <2>2, <2>3
<1>4. ASSUME NEW s \in Submitter, SubmitScan(s) PROVE Types' /\ InHand'
  <2>1. PICK at \in Worker, len \in Nat, old \in [at : Nat, best : Worker, len : Nat] :
          at = scan[s].at /\ len = Len(queues[at]) /\ old = scan[s] /\ spc[s] = "scan"
    <3>1. scan[s].at \in Worker /\ spc[s] = "scan"  BY <1>4 DEF SubmitScan
    <3>2. Len(queues[scan[s].at]) \in Nat  BY <3>1
    <3>. QED  BY <3>1, <3>2
  <2>2. PICK best : /\ best = IF at = 0 \/ len < old.len
                              THEN [at |-> at + 1, best |-> at, len |-> len]
                              ELSE [old EXCEPT !.at = at + 1]
                    /\ scan' = [scan EXCEPT ![s] = best]
                    /\ spc' = [spc EXCEPT ![s] = IF at + 1 = NumWorkers THEN "push" ELSE "scan"]
    BY <1>4, <2>1 DEF SubmitScan
  <2>3. best \in [at : Nat, best : Worker, len : Nat] /\ best.at = at + 1
    BY <2>1, <2>2
  <2>4. UNCHANGED <<queues, shutdown, metrics, workerVars, arg, next_id, ran, panicked>>
    BY <1>4 DEF SubmitScan
  <2>5. Types'  BY <2>2, <2>3, <2>4 DEF workerVars
  <2>6. InHand'
    <3>1. scan' = [scan EXCEPT ![s] = best]
          /\ spc' = [spc EXCEPT ![s] = IF at + 1 = NumWorkers THEN "push" ELSE "scan"]
      BY <2>2
    <3>. QED  BY <2>1, <2>3, <2>4, <3>1 DEF workerVars
  <2>. QED  BY <2>5, <2>6
<1>5. ASSUME NEW s \in Submitter, SubmitPush(s) PROVE Types' /\ InHand'
  <2>1. arg[s] \in Task /\ scan[s].best \in Worker  BY <1>5 DEF SubmitPush
  <2>2. queues' \in [Worker -> Seq(Task)]
    <3>0. queues[scan[s].best] \in Seq(Task)  BY <2>1
    <3>1. Append(queues[scan[s].best], arg[s]) \in Seq(Task)  BY <2>1, <3>0, InAppend
    <3>. QED  BY <1>5, <2>1, <3>1 DEF SubmitPush
  <2>3. NoScan \in [at : Nat, best : Worker, len : Nat]  BY DEF NoScan
  <2>4. Types'  BY <1>5, <2>2, <2>3 DEF SubmitPush, workerVars
  <2>5. InHand'  BY <1>5 DEF SubmitPush, workerVars
  <2>. QED  BY <2>4, <2>5
<1>6. ASSUME NEW s \in Submitter, SubmitNotify(s) PROVE Types' /\ InHand'
  <2>1. PICK woken \in {Parked} \cup {{w} : w \in Parked} :
          wpc' = [w \in Worker |-> IF w \in woken THEN "wake" ELSE wpc[w]]
    BY <1>6, Zenon DEF SubmitNotify
  <2>2. \A w \in woken : w \in Parked  BY <2>1
  <2>3. Types'  BY <1>6, <2>1 DEF SubmitNotify
  <2>4. InHand'  BY <1>6, <2>1, <2>2 DEF SubmitNotify
  <2>. QED  BY <2>3, <2>4
<1>7. ASSUME NEW s \in Submitter, SubmitCount(s) PROVE Types' /\ InHand'
  <2>0. metrics' \in [submitted : Nat, executed : Nat, stolen : Nat]
    BY <1>7, Counting DEF SubmitCount
  <2>1. Types'  BY <1>7, <2>0 DEF SubmitCount, workerVars
  <2>2. InHand'  BY <1>7 DEF SubmitCount, workerVars
  <2>. QED  BY <2>1, <2>2
<1>8. ASSUME NEW w \in Worker, WorkOwn(w) PROVE Types' /\ InHand'
  <2>1. CASE queues[w] = << >>  BY <1>8, <2>1 DEF WorkOwn, GoWorker, submitVars
  <2>2. CASE queues[w] # << >>
    <3>1. Head(queues[w]) \in Task /\ Tail(queues[w]) \in Seq(Task)  BY <2>2
    <3>2. /\ held' = [held EXCEPT ![w] = Head(queues[w])]
          /\ queues' = [queues EXCEPT ![w] = Tail(queues[w])]
          /\ wpc' = [wpc EXCEPT ![w] = "run"]
          /\ UNCHANGED <<shutdown, metrics, victim, submitVars, ran, panicked>>
      BY <1>8, <2>2 DEF WorkOwn, GoWorker
    <3>3. Types'  BY <3>1, <3>2 DEF submitVars
    <3>4. InHand'  BY <3>1, <3>2 DEF submitVars
    <3>. QED  BY <3>3, <3>4
  <2>. QED  BY <2>1, <2>2
<1>9. ASSUME NEW w \in Worker, WorkSteal(w) PROVE Types' /\ InHand'
  <2>1. victim[w] \in 0 .. NumWorkers /\ wpc[w] = "steal"
        /\ UNCHANGED <<shutdown, metrics, submitVars, ran, panicked>>
    BY <1>9 DEF WorkSteal
  <2>2. CASE victim[w] = NumWorkers
    <3>1. /\ wpc' = [wpc EXCEPT ![w] = "park"] /\ victim' = [victim EXCEPT ![w] = 0]
          /\ UNCHANGED <<queues, held>>
      BY <1>9, <2>2 DEF WorkSteal, GoWorker
    <3>2. Types'  BY <2>1, <3>1 DEF submitVars
    <3>3. InHand'  BY <2>1, <3>1 DEF submitVars
    <3>. QED  BY <3>2, <3>3
  <2>3. CASE victim[w] # NumWorkers /\ (victim[w] = w \/ queues[victim[w]] = << >>)
    <3>1. victim' = [victim EXCEPT ![w] = victim[w] + 1] /\ UNCHANGED <<queues, held, wpc>>
      BY <1>9, <2>3 DEF WorkSteal
    <3>. QED  BY <2>1, <2>3, <3>1 DEF submitVars
  <2>4. CASE victim[w] # NumWorkers /\ ~(victim[w] = w \/ queues[victim[w]] = << >>)
    <3>1. PICK v \in Worker : v = victim[w] /\ queues[v] # << >>  BY <2>1, <2>4
    <3>2. Last(queues[v]) \in Task /\ StolenFrom(queues[v]) \in Seq(Task)
      <4>1. queues[v] \in Seq(Task) /\ Len(queues[v]) \in Nat /\ Len(queues[v]) > 0
            /\ \A i \in 1 .. Len(queues[v]) : queues[v][i] \in Task
        BY <3>1
      <4>2. 1 \in Int /\ Len(queues[v]) - 1 \in Int
            /\ \A i \in 1 .. Len(queues[v]) - 1 : queues[v][i] \in Task
        BY <4>1
      <4>3. StolenFrom(queues[v]) \in Seq(Task)
        BY <4>2, SubSeqProperties DEF StolenFrom, Front
      <4>. QED  BY <4>1, <4>3 DEF Last
    <3>3. /\ held' = [held EXCEPT ![w] = Last(queues[v])]
          /\ queues' = [queues EXCEPT ![v] = StolenFrom(queues[v])]
          /\ wpc' = [wpc EXCEPT ![w] = "stolen"] /\ victim' = [victim EXCEPT ![w] = 0]
      BY <1>9, <2>4, <3>1 DEF WorkSteal, GoWorker
    <3>6. queues' \in [Worker -> Seq(Task)] /\ held' \in [Worker -> Task \cup {NoTask}]
      BY <3>1, <3>2, <3>3
    <3>7. wpc' \in [Worker -> WorkerStates] /\ victim' \in [Worker -> 0 .. NumWorkers]
      BY <3>3
    <3>4. Types'  BY <2>1, <3>6, <3>7 DEF submitVars
    <3>5. InHand'  BY <2>1, <3>2, <3>3 DEF submitVars
    <3>. QED  BY <3>4, <3>5
  <2>. QED  BY <2>2, <2>3, <2>4
<1>10. ASSUME NEW w \in Worker, WorkRun(w) PROVE Types' /\ InHand'
  <2>1. held[w] \in Task  BY <1>10 DEF WorkRun
  <2>2. Types'  BY <1>10, <2>1, ZenonT(60) DEF WorkRun, GoWorker, submitVars
  <2>3. InHand'  BY <1>10, <2>1 DEF WorkRun, GoWorker, submitVars
  <2>. QED  BY <2>2, <2>3
<1>11. ASSUME NEW w \in Worker,
              \/ WorkCheck(w) \/ WorkStolen(w) \/ WorkCount(w)
              \/ WorkPark(w) \/ Timeout(w) \/ WorkWake(w)
       PROVE  Types' /\ InHand'
  <2>. USE DEF WorkCheck, WorkStolen, WorkCount, WorkPark, Timeout, WorkWake, GoWorker
  <2>0. metrics' \in [submitted : Nat, executed : Nat, stolen : Nat]  BY <1>11, Counting
  <2>1. PICK l \in WorkerStates : /\ wpc' = [wpc EXCEPT ![w] = l]
                                  /\ l \in {"stolen", "run"} <=> wpc[w] \in {"stolen", "run"}
    BY <1>11
  <2>2. UNCHANGED <<queues, held, victim, submitVars, ran, panicked>>  BY <1>11
  <2>3. Types'  BY <2>0, <2>1, <2>2 DEF submitVars
  <2>4. InHand'  BY <2>1, <2>2 DEF submitVars
  <2>. QED  BY <2>3, <2>4
<1>. QED
  BY <1>1, <1>2, <1>3, <1>4, <1>5, <1>6, <1>7, <1>8, <1>9, <1>10, <1>11
  DEF Next, SubmitStep, WorkerStep

(* A task that is at a place is of that place's kind, so it is at no other. *)
LEMMA StillPlaced ==
  ASSUME Placed, UNCHANGED <<next_id, arg, held, queues, ran, panicked>>
  PROVE  Placed'
<1>1. PICK st : Sorted(st)  BY DEF Placed
<1>2. Sorted(st)'  BY <1>1 DEF Sorted
<1>3. Once'  BY DEF Placed, Once
<1>. QED  BY <1>2, <1>3 DEF Placed

LEMMA SubmitPlaced ==
  ASSUME Types, InHand, Placed, NEW s \in Submitter, Submit(s)
  PROVE  Placed'
<1>1. PICK t0 \in Task : t0 = next_id /\ t0 \in Nat /\ t0 # NoTask
  BY Numbers DEF Submit
<1>2. /\ next_id' = t0 + 1 /\ arg' = [arg EXCEPT ![s] = t0]
      /\ UNCHANGED <<queues, held, ran, panicked>>
  BY <1>1 DEF Submit, workerVars
<1>3. PICK st : Sorted(st)  BY DEF Placed
<1>4. st \in [Task -> Kinds] /\ st[t0] = "fresh"  BY <1>1, <1>3 DEF Sorted
<1>5. arg[s] = NoTask /\ arg'[s] = t0 /\ \A r \in Submitter \ {s} : arg'[r] = arg[r] /\ arg[r] # t0
  <2>1. arg[s] = NoTask  BY DEF Submit, InHand
  <2>2. \A r \in Submitter : arg[r] # t0  BY <1>3, <1>4 DEF Sorted
  <2>. QED  BY <1>2, <2>1, <2>2 DEF Types
<1>6. PICK st1 : st1 = [st EXCEPT ![t0] = "submitting"]  OBVIOUS
<1>7. st1 \in [Task -> Kinds] /\ st1[t0] = "submitting" /\ \A t \in Task \ {t0} : st1[t] = st[t]
  BY <1>4, <1>6 DEF Kinds
<1>8. Sorted(st1)'
  <2>. USE Numbers
  <2>1. \A t \in Task : t >= next_id' <=> st1[t] = "fresh"
    BY <1>1, <1>2, <1>3, <1>7 DEF Sorted
  <2>2. \A t \in Task : (\E r \in Submitter : arg'[r] = t) <=> st1[t] = "submitting"
    BY <1>3, <1>5, <1>7 DEF Sorted
  <2>3. \A t \in Task : (\E w \in Worker : In(queues'[w], t)) <=> st1[t] = "queued"
    BY <1>2, <1>3, <1>4, <1>7 DEF Sorted
  <2>4. \A t \in Task : (\E w \in Worker : held'[w] = t) <=> st1[t] = "held"
    <3>1. \A t \in Task : (\E w \in Worker : held[w] = t) <=> st[t] = "held"  BY <1>3 DEF Sorted
    <3>2. \A t \in Task : st1[t] = "held" <=> st[t] = "held"  BY <1>4, <1>7
    <3>. QED  BY <1>2, <3>1, <3>2
  <2>5. \A t \in Task : /\ t \in ran' <=> st1[t] = "ran"
                        /\ t \in panicked' <=> st1[t] = "panicked"
    BY <1>2, <1>3, <1>4, <1>7 DEF Sorted
  <2>. QED  BY <1>7, <2>1, <2>2, <2>3, <2>4, <2>5 DEF Sorted
<1>9. Once'
  <2>1. \A r, q \in Submitter : arg'[r] = arg'[q] /\ arg'[r] # NoTask => r = q
    BY <1>5 DEF Placed, Once
  <2>. QED  BY <1>2, <2>1 DEF Placed, Once
<1>. QED  BY <1>8, <1>9 DEF Placed

LEMMA PushPlaced ==
  ASSUME Types, InHand, Placed, NEW s \in Submitter, SubmitPush(s)
  PROVE  Placed'
<1>1. PICK t0 \in Task, v \in Worker : t0 = arg[s] /\ v = scan[s].best
  BY DEF SubmitPush, Types, InHand
<1>2. /\ queues' = [queues EXCEPT ![v] = Append(queues[v], t0)]
      /\ arg' = [arg EXCEPT ![s] = NoTask]
      /\ UNCHANGED <<next_id, held, ran, panicked>>
  BY <1>1 DEF SubmitPush, workerVars
<1>3. PICK st : Sorted(st)  BY DEF Placed
<1>4. st \in [Task -> Kinds] /\ st[t0] = "submitting"  BY <1>1, <1>3 DEF Sorted
<1>5. arg'[s] = NoTask /\ \A r \in Submitter \ {s} : arg'[r] = arg[r] /\ arg[r] # t0
  BY <1>1, <1>2, Numbers DEF Types, Placed, Once
<1>6. PICK st1 : st1 = [st EXCEPT ![t0] = "queued"]  OBVIOUS
<1>7. st1 \in [Task -> Kinds] /\ st1[t0] = "queued" /\ \A t \in Task \ {t0} : st1[t] = st[t]
  BY <1>4, <1>6 DEF Kinds
<1>8. \A w \in Worker : ~In(queues[w], t0)  BY <1>3, <1>4 DEF Sorted
<1>9. /\ \A w \in Worker \ {v} : queues'[w] = queues[w]
      /\ NoDup(queues'[v]) /\ \A t \in Task : In(queues'[v], t) <=> In(queues[v], t) \/ t = t0
  <2>1. queues'[v] = Append(queues[v], t0) /\ \A w \in Worker \ {v} : queues'[w] = queues[w]
    BY <1>2 DEF Types
  <2>2. queues[v] \in Seq(Task) /\ NoDup(queues[v])  BY DEF Types, Placed, Once
  <2>. QED  BY <1>8, <2>1, <2>2, InAppend
<1>10. Sorted(st1)'
  <2>. USE Numbers
  <2>1. \A t \in Task : t >= next_id' <=> st1[t] = "fresh"
    BY <1>2, <1>3, <1>4, <1>7 DEF Sorted
  <2>2. \A t \in Task : (\E r \in Submitter : arg'[r] = t) <=> st1[t] = "submitting"
    <3>1. ASSUME NEW t \in Task \ {t0}, NEW r \in Submitter PROVE arg'[r] = t <=> arg[r] = t
      BY <1>1, <1>5
    <3>2. \A t \in Task : (\E r \in Submitter : arg[r] = t) <=> st[t] = "submitting"
      BY <1>3 DEF Sorted
    <3>3. \A r \in Submitter : arg'[r] # t0  BY <1>5
    <3>. QED  BY <1>7, <3>1, <3>2, <3>3
  <2>3. \A t \in Task : (\E w \in Worker : In(queues'[w], t)) <=> st1[t] = "queued"
    <3>. SUFFICES ASSUME NEW t \in Task
                  PROVE  (\E w \in Worker : In(queues'[w], t)) <=> st1[t] = "queued"
      OBVIOUS
    <3>1. CASE t = t0  BY <1>7, <1>9, <3>1
    <3>2. CASE t # t0
      <4>1. \A w \in Worker : In(queues'[w], t) <=> In(queues[w], t)  BY <1>9, <3>2
      <4>. QED  BY <1>3, <1>7, <3>2, <4>1 DEF Sorted
    <3>. QED  BY <3>1, <3>2
  <2>4. \A t \in Task : (\E w \in Worker : held'[w] = t) <=> st1[t] = "held"
    <3>1. \A t \in Task : (\E w \in Worker : held[w] = t) <=> st[t] = "held"  BY <1>3 DEF Sorted
    <3>2. \A t \in Task : st1[t] = "held" <=> st[t] = "held"  BY <1>4, <1>7
    <3>. QED  BY <1>2, <3>1, <3>2
  <2>5. \A t \in Task : /\ t \in ran' <=> st1[t] = "ran"
                        /\ t \in panicked' <=> st1[t] = "panicked"
    BY <1>2, <1>3, <1>4, <1>7 DEF Sorted
  <2>. QED  BY <1>7, <2>1, <2>2, <2>3, <2>4, <2>5 DEF Sorted
<1>11. Once'
  <2>1. \A r, q \in Submitter : arg'[r] = arg'[q] /\ arg'[r] # NoTask => r = q
    BY <1>5 DEF Placed, Once
  <2>2. \A w \in Worker : NoDup(queues'[w])  BY <1>9 DEF Placed, Once
  <2>3. \A w, u \in Worker : \A t \in Task : In(queues'[w], t) /\ In(queues'[u], t) => w = u
    BY <1>8, <1>9 DEF Placed, Once
  <2>. QED  BY <1>2, <2>1, <2>2, <2>3 DEF Placed, Once
<1>. QED  BY <1>10, <1>11 DEF Placed

(* A task leaves queue v, at its front or its back, for worker w. *)
LEMMA TakePlaced ==
  ASSUME Types, InHand, Placed, NEW w \in Worker, held[w] = NoTask,
         NEW v \in Worker, NEW t0 \in Task, NEW rest, In(queues[v], t0), NoDup(rest),
         \A t : In(rest, t) <=> In(queues[v], t) /\ t # t0,
         held' = [held EXCEPT ![w] = t0], queues' = [queues EXCEPT ![v] = rest],
         UNCHANGED <<next_id, arg, ran, panicked>>
  PROVE  Placed'
<1>1. PICK st : Sorted(st)  BY DEF Placed
<1>2. st \in [Task -> Kinds] /\ st[t0] = "queued"  BY <1>1 DEF Sorted
<1>3. PICK st1 : st1 = [st EXCEPT ![t0] = "held"]  OBVIOUS
<1>4. st1 \in [Task -> Kinds] /\ st1[t0] = "held" /\ \A t \in Task \ {t0} : st1[t] = st[t]
  BY <1>2, <1>3 DEF Kinds
<1>5. held'[w] = t0 /\ \A u \in Worker \ {w} : held'[u] = held[u] /\ held[u] # t0
  <2>1. held'[w] = t0 /\ \A u \in Worker \ {w} : held'[u] = held[u]  BY DEF Types
  <2>2. (\E u \in Worker : held[u] = t0) <=> st[t0] = "held"  BY <1>1 DEF Sorted
  <2>. QED  BY <1>2, <2>1, <2>2
<1>6. queues'[v] = rest /\ \A u \in Worker \ {v} : queues'[u] = queues[u]  BY DEF Types
<1>7. \A u \in Worker \ {v} : ~In(queues[u], t0)  BY DEF Placed, Once
<1>8. \A u \in Worker, t \in Task : In(queues'[u], t) <=> In(queues[u], t) /\ t # t0
  BY <1>6, <1>7
<1>9. Sorted(st1)'
  <2>. USE Numbers
  <2>1. \A t \in Task : t >= next_id' <=> st1[t] = "fresh"  BY <1>1, <1>2, <1>4 DEF Sorted
  <2>2. \A t \in Task : (\E r \in Submitter : arg'[r] = t) <=> st1[t] = "submitting"
    BY <1>1, <1>2, <1>4 DEF Sorted
  <2>3. \A t \in Task : (\E u \in Worker : In(queues'[u], t)) <=> st1[t] = "queued"
    BY <1>1, <1>2, <1>4, <1>8 DEF Sorted
  <2>4. \A t \in Task : (\E u \in Worker : held'[u] = t) <=> st1[t] = "held"
    BY <1>1, <1>4, <1>5 DEF Sorted
  <2>5. \A t \in Task : /\ t \in ran' <=> st1[t] = "ran"
                        /\ t \in panicked' <=> st1[t] = "panicked"
    BY <1>1, <1>2, <1>4 DEF Sorted
  <2>. QED  BY <1>4, <2>1, <2>2, <2>3, <2>4, <2>5 DEF Sorted
<1>10. Once'
  <2>1. \A u, x \in Worker : held'[u] = held'[x] /\ held'[u] # NoTask => u = x
    BY <1>5 DEF Placed, Once
  <2>2. \A u \in Worker : NoDup(queues'[u])  BY <1>6 DEF Placed, Once
  <2>3. \A u, x \in Worker : \A t \in Task : In(queues'[u], t) /\ In(queues'[x], t) => u = x
    BY <1>8 DEF Placed, Once
  <2>. QED  BY <2>1, <2>2, <2>3 DEF Placed, Once
<1>. QED  BY <1>9, <1>10 DEF Placed

LEMMA RunPlaced ==
  ASSUME Types, InHand, Placed, NEW w \in Worker, WorkRun(w)
  PROVE  Placed'
<1>1. PICK t0 \in Task : t0 = held[w]  BY DEF WorkRun, InHand, Types
<1>2. PICK kind \in {"ran", "panicked"} :
         /\ ran' = IF kind = "ran" THEN ran \cup {t0} ELSE ran
         /\ panicked' = IF kind = "panicked" THEN panicked \cup {t0} ELSE panicked
  BY <1>1 DEF WorkRun
<1>3. held' = [held EXCEPT ![w] = NoTask] /\ UNCHANGED <<next_id, arg, queues>>
  BY DEF WorkRun, submitVars
<1>4. PICK st : Sorted(st)  BY DEF Placed
<1>5. st \in [Task -> Kinds] /\ st[t0] = "held"  BY <1>1, <1>4 DEF Sorted
<1>6. PICK st1 : st1 = [st EXCEPT ![t0] = kind]  OBVIOUS
<1>7. st1 \in [Task -> Kinds] /\ st1[t0] = kind /\ \A t \in Task \ {t0} : st1[t] = st[t]
  BY <1>2, <1>5, <1>6 DEF Kinds
<1>8. held'[w] = NoTask /\ \A u \in Worker \ {w} : held'[u] = held[u] /\ held[u] # t0
  BY <1>1, <1>3, Numbers DEF Types, Placed, Once
<1>9. Sorted(st1)'
  <2>. USE Numbers
  <2>1. \A t \in Task : t >= next_id' <=> st1[t] = "fresh"
    BY <1>2, <1>3, <1>4, <1>5, <1>7 DEF Sorted
  <2>2. \A t \in Task : (\E r \in Submitter : arg'[r] = t) <=> st1[t] = "submitting"
    BY <1>2, <1>3, <1>4, <1>5, <1>7 DEF Sorted
  <2>3. \A t \in Task : (\E u \in Worker : In(queues'[u], t)) <=> st1[t] = "queued"
    BY <1>2, <1>3, <1>4, <1>5, <1>7 DEF Sorted
  <2>4. \A t \in Task : (\E u \in Worker : held'[u] = t) <=> st1[t] = "held"
    BY <1>1, <1>2, <1>4, <1>7, <1>8 DEF Sorted
  <2>5. \A t \in Task : /\ t \in ran' <=> st1[t] = "ran"
                        /\ t \in panicked' <=> st1[t] = "panicked"
    BY <1>2, <1>4, <1>5, <1>7 DEF Sorted
  <2>. QED  BY <1>7, <2>1, <2>2, <2>3, <2>4, <2>5 DEF Sorted
<1>10. Once'
  <2>1. \A u, x \in Worker : held'[u] = held'[x] /\ held'[u] # NoTask => u = x
    BY <1>8 DEF Placed, Once
  <2>. QED  BY <1>3, <2>1 DEF Placed, Once
<1>. QED  BY <1>9, <1>10 DEF Placed

LEMMA PlacedNext ==
  ASSUME Types, InHand, Placed, [Next]_vars
  PROVE  Placed'
<1>1. CASE UNCHANGED <<next_id, arg, held, queues, ran, panicked>>  BY <1>1, StillPlaced
<1>2. ASSUME NEW w \in Worker, WorkOwn(w), queues[w] # << >> PROVE Placed'
  <2>1. /\ held[w] = NoTask /\ held' = [held EXCEPT ![w] = Head(queues[w])]
        /\ queues' = [queues EXCEPT ![w] = Tail(queues[w])]
        /\ UNCHANGED <<next_id, arg, ran, panicked>>
    BY <1>2 DEF WorkOwn, InHand, submitVars
  <2>2. queues[w] \in Seq(Task) /\ NoDup(queues[w])  BY DEF Types, Placed, Once
  <2>. QED  BY <1>2, <2>1, <2>2, InTail, TakePlaced
<1>3. ASSUME NEW w \in Worker, WorkSteal(w), victim[w] # NumWorkers,
             ~(victim[w] = w \/ queues[victim[w]] = << >>)
      PROVE  Placed'
  <2>1. PICK v \in Worker : v = victim[w] /\ queues[v] # << >>  BY <1>3, Numbers DEF Types
  <2>2. /\ held[w] = NoTask /\ held' = [held EXCEPT ![w] = Last(queues[v])]
        /\ queues' = [queues EXCEPT ![v] = StolenFrom(queues[v])]
        /\ UNCHANGED <<next_id, arg, ran, panicked>>
    BY <1>3, <2>1 DEF WorkSteal, InHand, submitVars
  <2>3. queues[v] \in Seq(Task) /\ NoDup(queues[v])  BY DEF Types, Placed, Once
  <2>. QED  BY <2>1, <2>2, <2>3, InStolen, TakePlaced
<1>4. ASSUME NEW w \in Worker, WorkOwn(w) PROVE Placed'
  BY <1>1, <1>2, <1>4 DEF WorkOwn, submitVars
<1>5. ASSUME NEW w \in Worker, WorkSteal(w) PROVE Placed'
  BY <1>1, <1>3, <1>5 DEF WorkSteal, submitVars
<1>6. ASSUME NEW w \in Worker,
             \/ WorkCheck(w) \/ WorkStolen(w) \/ WorkCount(w)
             \/ WorkPark(w) \/ Timeout(w) \/ WorkWake(w)
      PROVE  Placed'
  BY <1>1, <1>6
  DEF WorkCheck, WorkStolen, WorkCount, WorkPark, Timeout, WorkWake, submitVars
<1>7. ASSUME NEW s \in Submitter, SubmitScan(s) \/ SubmitNotify(s) \/ SubmitCount(s) PROVE Placed'
  BY <1>1, <1>7 DEF SubmitScan, SubmitNotify, SubmitCount, workerVars
<1>8. CASE Shutdown \/ UNCHANGED vars
  BY <1>1, <1>8 DEF Shutdown, vars, workerVars, submitVars
<1>. QED
  BY <1>4, <1>5, <1>6, <1>7, <1>8, SubmitPlaced, PushPlaced, RunPlaced
  DEF Next, SubmitStep, WorkerStep
----------------------------------------------------------------------------
(* The counters. *)

(* The tasks that have reached a queue, and who has not counted yet. *)
SubmittedTasks == {t \in Task : t < next_id /\ \A s \in Submitter : arg[s] # t}
Uncounted == {s \in Submitter : spc[s] \in {"notify", "count"}}
Counters == {w \in Worker : wpc[w] = "count"}

Counted ==
  /\ metrics.executed + Cardinality(Counters) = Cardinality(ran)
  /\ metrics.submitted + Cardinality(Uncounted) = Cardinality(SubmittedTasks)

LEMMA Finite ==
  ASSUME Types
  PROVE  /\ IsFiniteSet(SubmittedTasks) /\ IsFiniteSet(Uncounted) /\ IsFiniteSet(Counters) /\ IsFiniteSet(ran)
         /\ Cardinality(SubmittedTasks) \in Nat /\ Cardinality(Uncounted) \in Nat
         /\ Cardinality(Counters) \in Nat /\ Cardinality(ran) \in Nat
<1>1. IsFiniteSet(Task) /\ IsFiniteSet(Worker) /\ IsFiniteSet(Submitter)
  BY Numbers, SchedulerAssumption
<1>2. SubmittedTasks \subseteq Task /\ Uncounted \subseteq Submitter /\ Counters \subseteq Worker
      /\ ran \subseteq Task
  BY DEF SubmittedTasks, Uncounted, Counters, Types
<1>3. IsFiniteSet(SubmittedTasks) /\ IsFiniteSet(Uncounted) /\ IsFiniteSet(Counters) /\ IsFiniteSet(ran)
  BY <1>1, <1>2, FS_Subset
<1>. QED  BY <1>3, FS_CardinalityType

LEMMA SubmitCounted ==
  ASSUME Types, InHand, Counted, NEW s \in Submitter,
         Submit(s) \/ SubmitScan(s) \/ SubmitNotify(s)
  PROVE  Counted'
<1>1. UNCHANGED <<metrics, ran>>  BY DEF Submit, SubmitScan, SubmitNotify
<1>2. Uncounted' = Uncounted
  BY DEF Submit, SubmitScan, SubmitNotify, Uncounted, Types
<1>3. Counters' = Counters
  <2>1. CASE UNCHANGED wpc  BY <2>1 DEF Counters
  <2>2. CASE SubmitNotify(s)
    <3>1. PICK woken \in {Parked} \cup {{w} : w \in Parked} :
            wpc' = [w \in Worker |-> IF w \in woken THEN "wake" ELSE wpc[w]]
      BY <2>2, Zenon DEF SubmitNotify
    <3>2. \A w \in woken : wpc[w] = "parked"  BY <3>1 DEF Parked
    <3>. QED  BY <3>1, <3>2 DEF Counters
  <2>. QED  BY <2>1, <2>2 DEF Submit, SubmitScan, workerVars
<1>4. SubmittedTasks' = SubmittedTasks
  <2>1. CASE UNCHANGED <<arg, next_id>>  BY <2>1 DEF SubmittedTasks
  <2>2. CASE Submit(s)
    <3>1. PICK n \in Task : n = next_id /\ n \in Nat  BY <2>2, Numbers DEF Submit
    <3>2. next_id' = n + 1 /\ arg' = [arg EXCEPT ![s] = n] /\ arg[s] = NoTask
      BY <2>2, <3>1 DEF Submit, InHand
    <3>3. arg'[s] = n /\ \A r \in Submitter \ {s} : arg'[r] = arg[r]  BY <3>2 DEF Types
    <3>4. ASSUME NEW t \in Task PROVE t \in SubmittedTasks' <=> t \in SubmittedTasks
      <4>1. t \in Nat /\ t # NoTask  BY Numbers
      <4>2. CASE t = n  BY <3>1, <3>3, <4>2 DEF SubmittedTasks
      <4>3. CASE t # n
        <5>1. t < n + 1 <=> t < n  BY <3>1, <4>1, <4>3
        <5>2. \A r \in Submitter : arg'[r] # t <=> arg[r] # t  BY <3>2, <3>3, <4>1, <4>3
        <5>. QED  BY <3>1, <3>2, <5>1, <5>2 DEF SubmittedTasks
      <4>. QED  BY <4>2, <4>3
    <3>. QED  BY <3>4 DEF SubmittedTasks
  <2>. QED  BY <2>1, <2>2 DEF SubmitScan, SubmitNotify
<1>. QED  BY <1>1, <1>2, <1>3, <1>4 DEF Counted

LEMMA PushCounted ==
  ASSUME Types, InHand, Placed, Counted, NEW s \in Submitter, SubmitPush(s)
  PROVE  Counted'
<1>1. PICK t0 \in Task : t0 = arg[s]  BY DEF SubmitPush, Types, InHand
<1>2. /\ arg' = [arg EXCEPT ![s] = NoTask] /\ spc' = [spc EXCEPT ![s] = "notify"]
      /\ UNCHANGED <<metrics, wpc, next_id, ran>> /\ spc[s] = "push"
  BY DEF SubmitPush, workerVars
<1>3. PICK st : Sorted(st)  BY DEF Placed
<1>4. t0 < next_id
  <2>1. st[t0] = "submitting"  BY <1>1, <1>3 DEF Sorted
  <2>2. ~(t0 >= next_id)  BY <1>3, <2>1 DEF Sorted
  <2>. QED  BY <2>2, Numbers DEF Types
<1>5. arg'[s] = NoTask /\ \A r \in Submitter \ {s} : arg'[r] = arg[r] /\ arg[r] # t0
  BY <1>1, <1>2, Numbers DEF Types, Placed, Once
<1>6. SubmittedTasks' = SubmittedTasks \cup {t0} /\ t0 \notin SubmittedTasks
  <2>1. t0 \notin SubmittedTasks  BY <1>1 DEF SubmittedTasks
  <2>2. ASSUME NEW t \in Task PROVE t \in SubmittedTasks' <=> t \in SubmittedTasks \/ t = t0
    <3>1. t # NoTask  BY Numbers
    <3>2. CASE t = t0  BY <1>2, <1>4, <1>5, <3>1, <3>2 DEF SubmittedTasks
    <3>3. CASE t # t0
      <4>1. \A r \in Submitter : arg'[r] # t <=> arg[r] # t  BY <1>1, <1>5, <3>1, <3>3
      <4>. QED  BY <1>2, <3>3, <4>1 DEF SubmittedTasks
    <3>. QED  BY <3>2, <3>3
  <2>3. SubmittedTasks \subseteq Task /\ SubmittedTasks' \subseteq Task  BY DEF SubmittedTasks
  <2>. QED  BY <2>1, <2>2, <2>3
<1>7. Uncounted' = Uncounted \cup {s} /\ s \notin Uncounted  BY <1>2 DEF Uncounted, Types
<1>8. Counters' = Counters  BY <1>2 DEF Counters
<1>9. /\ Cardinality(SubmittedTasks') = Cardinality(SubmittedTasks) + 1
      /\ Cardinality(Uncounted') = Cardinality(Uncounted) + 1
  BY <1>6, <1>7, Finite, FS_AddElement
<1>10. /\ Cardinality(SubmittedTasks) \in Nat /\ Cardinality(Uncounted) \in Nat
       /\ Cardinality(Counters) \in Nat /\ Cardinality(ran) \in Nat
       /\ metrics.submitted \in Nat /\ metrics.executed \in Nat
  BY Finite, Counting DEF Types
<1>11. metrics' = metrics /\ ran' = ran  BY <1>2
<1>. QED  BY <1>8, <1>9, <1>10, <1>11 DEF Counted

LEMMA CountCounted ==
  ASSUME Types, Counted, NEW s \in Submitter, SubmitCount(s)
  PROVE  Counted'
<1>1. /\ metrics' = [metrics EXCEPT !.submitted = @ + 1] /\ spc' = [spc EXCEPT ![s] = "idle"]
      /\ UNCHANGED <<wpc, arg, next_id, ran>> /\ spc[s] = "count"
  BY DEF SubmitCount, workerVars
<1>2. SubmittedTasks' = SubmittedTasks /\ Counters' = Counters  BY <1>1 DEF SubmittedTasks, Counters
<1>3. Uncounted' = Uncounted \ {s} /\ s \in Uncounted  BY <1>1 DEF Uncounted, Types
<1>4. Cardinality(Uncounted') = Cardinality(Uncounted) - 1  BY <1>3, Finite, FS_RemoveElement
<1>5. metrics'.submitted = metrics.submitted + 1 /\ metrics'.executed = metrics.executed
  BY <1>1 DEF Types
<1>6. /\ Cardinality(SubmittedTasks) \in Nat /\ Cardinality(Uncounted) \in Nat
      /\ Cardinality(Counters) \in Nat /\ Cardinality(ran) \in Nat
      /\ metrics.submitted \in Nat /\ metrics.executed \in Nat
  BY Finite, Counting DEF Types
<1>7. ran' = ran  BY <1>1
<1>. QED  BY <1>2, <1>4, <1>5, <1>6, <1>7 DEF Counted

LEMMA WorkCounted ==
  ASSUME Types, InHand, Placed, Counted, NEW w \in Worker, WorkerStep(w)
  PROVE  Counted'
<1>1. UNCHANGED <<arg, next_id, spc>> /\ metrics'.submitted = metrics.submitted
  BY DEF WorkerStep, WorkCheck, WorkOwn, WorkSteal, WorkStolen, WorkRun, WorkCount, WorkPark,
         Timeout, WorkWake, submitVars, Types
<1>2. SubmittedTasks' = SubmittedTasks /\ Uncounted' = Uncounted  BY <1>1 DEF SubmittedTasks, Uncounted
<1>3. ASSUME NEW l, wpc' = [wpc EXCEPT ![w] = l], l # "count", wpc[w] # "count",
             ran' = ran, metrics'.executed = metrics.executed
      PROVE  Counted'
  <2>1. Counters' = Counters  BY <1>3 DEF Counters, Types
  <2>. QED  BY <1>1, <1>2, <1>3, <2>1 DEF Counted
<1>8. /\ Cardinality(SubmittedTasks) \in Nat /\ Cardinality(Uncounted) \in Nat
      /\ Cardinality(Counters) \in Nat /\ Cardinality(ran) \in Nat
      /\ metrics.submitted \in Nat /\ metrics.executed \in Nat
  BY Finite, Counting DEF Types
<1>4. CASE WorkOwn(w) \/ WorkSteal(w) \/ WorkCheck(w)
  <2>1. PICK l : wpc' = [wpc EXCEPT ![w] = l] /\ l # "count" /\ wpc[w] # "count"
    <3>1. CASE UNCHANGED wpc
      <4>1. wpc' = [wpc EXCEPT ![w] = wpc[w]]  BY <3>1 DEF Types
      <4>. QED  BY <1>4, <4>1 DEF WorkOwn, WorkSteal, WorkCheck
    <3>. QED  BY <1>4, <3>1 DEF WorkOwn, WorkSteal, WorkCheck, GoWorker
  <2>. QED  BY <1>3, <1>4, <2>1 DEF WorkOwn, WorkSteal, WorkCheck
<1>5. CASE WorkStolen(w) \/ WorkPark(w) \/ Timeout(w) \/ WorkWake(w)
  <2>1. metrics'.executed = metrics.executed /\ ran' = ran
    BY <1>5 DEF WorkStolen, WorkPark, Timeout, WorkWake, Types
  <2>. QED  BY <1>3, <1>5, <2>1 DEF WorkStolen, WorkPark, Timeout, WorkWake, GoWorker
<1>6. CASE WorkRun(w)
  <2>1. CASE ran' = ran /\ GoWorker(w, "dead")
    BY <1>3, <1>6, <2>1 DEF WorkRun, GoWorker
  <2>2. CASE ran' = ran \cup {held[w]} /\ GoWorker(w, "count")
    <3>1. held[w] \in Task  BY <1>6 DEF WorkRun, InHand, Types
    <3>2. PICK st : Sorted(st)  BY DEF Placed
    <3>3. held[w] \notin ran  BY <3>1, <3>2 DEF Sorted
    <3>4. Counters' = Counters \cup {w} /\ w \notin Counters
      BY <1>6, <2>2 DEF Counters, GoWorker, WorkRun, Types
    <3>5. /\ Cardinality(Counters') = Cardinality(Counters) + 1
          /\ Cardinality(ran') = Cardinality(ran) + 1
      BY <2>2, <3>3, <3>4, Finite, FS_AddElement
    <3>6. metrics' = metrics  BY <1>6 DEF WorkRun
    <3>. QED  BY <1>2, <1>8, <3>5, <3>6 DEF Counted
  <2>. QED  BY <1>6, <2>1, <2>2 DEF WorkRun
<1>7. CASE WorkCount(w)
  <2>1. Counters' = Counters \ {w} /\ w \in Counters
    BY <1>7 DEF WorkCount, GoWorker, Counters, Types
  <2>2. Cardinality(Counters') = Cardinality(Counters) - 1  BY <2>1, Finite, FS_RemoveElement
  <2>3. metrics'.executed = metrics.executed + 1 /\ ran' = ran  BY <1>7 DEF WorkCount, Types
  <2>. QED  BY <1>1, <1>2, <1>8, <2>2, <2>3 DEF Counted
<1>. QED  BY <1>4, <1>5, <1>6, <1>7 DEF WorkerStep

LEMMA CountedNext ==
  ASSUME Types, InHand, Placed, Counted, [Next]_vars
  PROVE  Counted'
<1>1. CASE UNCHANGED vars
  <2>1. SubmittedTasks' = SubmittedTasks /\ Uncounted' = Uncounted /\ Counters' = Counters
    BY <1>1 DEF vars, workerVars, submitVars, SubmittedTasks, Uncounted, Counters
  <2>. QED  BY <1>1, <2>1 DEF vars, Counted
<1>2. CASE Shutdown
  <2>1. SubmittedTasks' = SubmittedTasks /\ Uncounted' = Uncounted /\ Counters' = Counters
    BY <1>2 DEF Shutdown, submitVars, SubmittedTasks, Uncounted, Counters, Parked, Types
  <2>. QED  BY <1>2, <2>1 DEF Shutdown, Counted
<1>. QED
  BY <1>1, <1>2, SubmitCounted, PushCounted, CountCounted, WorkCounted DEF Next, SubmitStep
----------------------------------------------------------------------------
(* The theorem *)

IInv == Types /\ InHand /\ Placed /\ Counted

LEMMA InitIInv == Init => IInv
<1>. SUFFICES ASSUME Init PROVE IInv  OBVIOUS
<1>. USE Numbers DEF Init
<1>1. Types  BY DEF Types, NoScan, WorkerStates, SubmitterStates
<1>2. InHand  BY DEF InHand, NoScan
<1>3. Once  BY DEF Once, NoDup, In
<1>4. Sorted([t \in Task |-> "fresh"])
  <2>1. \A t \in Task : t >= next_id  OBVIOUS
  <2>2. \A w \in Worker : \A t : ~In(queues[w], t)  BY DEF In
  <2>. QED  BY <2>1, <2>2 DEF Sorted, Kinds
<1>5. Counted
  <2>1. SubmittedTasks = {} /\ Uncounted = {} /\ Counters = {} /\ ran = {}
    BY DEF SubmittedTasks, Uncounted, Counters
  <2>. QED  BY <2>1, FS_EmptySet DEF Counted
<1>. QED  BY <1>1, <1>2, <1>3, <1>4, <1>5 DEF IInv, Placed

LEMMA SpecIInv == Spec => []IInv
<1>1. IInv /\ [Next]_vars => IInv'  BY TypesNext, PlacedNext, CountedNext DEF IInv
<1>. QED  BY <1>1, InitIInv, PTL DEF Spec

(* The places of a task of each kind. *)
LEMMA OnePlace ==
  ASSUME IInv, NEW t \in Task
  PROVE  \E p : Places(t) = {p}
<1>1. PICK st : Sorted(st)  BY DEF IInv, Placed
<1>. DEFINE subm == {<<"submitting", s>> : s \in {s \in Submitter : spc[s] \in {"scan", "push"} /\ arg[s] = t}}
            qued == UNION {{<<"queued", w, i>> : i \in {i \in DOMAIN queues[w] : queues[w][i] = t}} : w \in Worker}
            hand == {<<"held", w>> : w \in {w \in Worker : held[w] = t}}
            fres == {<<"fresh">> : x \in Fresh \cap {t}}
            done == {<<"ran">> : x \in ran \cap {t}}
            gone == {<<"panicked">> : x \in panicked \cap {t}}
<1>2. Places(t) = subm \cup qued \cup hand \cup fres \cup done \cup gone  BY DEF Places
<1>3. t # NoTask /\ t \in Nat  BY Numbers
<1>4. \A w \in Worker : DOMAIN queues[w] = 1 .. Len(queues[w])  BY DEF IInv, Types
<1>5. st[t] \in Kinds  BY <1>1 DEF Sorted
<1>6. st[t] # "submitting" => subm = {}  BY <1>1 DEF Sorted
<1>7. st[t] # "queued" => qued = {}  BY <1>1, <1>4 DEF Sorted, In
<1>8. st[t] # "held" => hand = {}  BY <1>1 DEF Sorted
<1>9. st[t] # "fresh" => fres = {}  BY <1>1 DEF Sorted, Fresh
<1>10. st[t] # "ran" => done = {}  BY <1>1 DEF Sorted
<1>11. st[t] # "panicked" => gone = {}  BY <1>1 DEF Sorted
<1>12. CASE st[t] = "submitting"
  <2>1. PICK s \in Submitter : arg[s] = t  BY <1>1, <1>12 DEF Sorted
  <2>2. spc[s] \in {"scan", "push"} /\ \A r \in Submitter : arg[r] = t => r = s
    BY <1>3, <2>1 DEF IInv, InHand, Placed, Once
  <2>3. subm = {<<"submitting", s>>}  BY <2>1, <2>2
  <2>. HIDE DEF subm, qued, hand, fres, done, gone
  <2>. QED  BY <1>2, <1>7, <1>8, <1>9, <1>10, <1>11, <1>12, <2>3
<1>13. CASE st[t] = "queued"
  <2>0. PICK w \in Worker : In(queues[w], t)  BY <1>1, <1>13 DEF Sorted
  <2>1. PICK i \in 1 .. Len(queues[w]) : queues[w][i] = t  BY <2>0 DEF In
  <2>2. \A v \in Worker : \A j \in 1 .. Len(queues[v]) : queues[v][j] = t => v = w /\ j = i
    <3>1. \A v \in Worker : In(queues[v], t) => v = w  BY <2>0 DEF IInv, Placed, Once
    <3>2. \A j \in 1 .. Len(queues[w]) : queues[w][j] = t => j = i
      BY <2>1 DEF IInv, Placed, Once, NoDup
    <3>. QED  BY <3>1, <3>2 DEF In
  <2>3. qued = {<<"queued", w, i>>}  BY <1>4, <2>1, <2>2
  <2>. HIDE DEF subm, qued, hand, fres, done, gone
  <2>. QED  BY <1>2, <1>6, <1>8, <1>9, <1>10, <1>11, <1>13, <2>3
<1>14. CASE st[t] = "held"
  <2>1. PICK w \in Worker : held[w] = t  BY <1>1, <1>14 DEF Sorted
  <2>2. \A v \in Worker : held[v] = t => v = w  BY <1>3, <2>1 DEF IInv, Placed, Once
  <2>3. hand = {<<"held", w>>}  BY <2>1, <2>2
  <2>. HIDE DEF subm, qued, hand, fres, done, gone
  <2>. QED  BY <1>2, <1>6, <1>7, <1>9, <1>10, <1>11, <1>14, <2>3
<1>15. CASE st[t] = "fresh"
  <2>1. fres = {<<"fresh">>}  BY <1>1, <1>15 DEF Sorted, Fresh
  <2>. HIDE DEF subm, qued, hand, fres, done, gone
  <2>. QED  BY <1>2, <1>6, <1>7, <1>8, <1>10, <1>11, <1>15, <2>1
<1>16. CASE st[t] = "ran"
  <2>1. done = {<<"ran">>}  BY <1>1, <1>16 DEF Sorted
  <2>. HIDE DEF subm, qued, hand, fres, done, gone
  <2>. QED  BY <1>2, <1>6, <1>7, <1>8, <1>9, <1>11, <1>16, <2>1
<1>17. CASE st[t] = "panicked"
  <2>1. gone = {<<"panicked">>}  BY <1>1, <1>17 DEF Sorted
  <2>. HIDE DEF subm, qued, hand, fres, done, gone
  <2>. QED  BY <1>2, <1>6, <1>7, <1>8, <1>9, <1>10, <1>17, <2>1
<1>. QED  BY <1>5, <1>12, <1>13, <1>14, <1>15, <1>16, <1>17 DEF Kinds

(* No task is lost and none runs twice, across stealing, panics and        *)
(* shutdown, and the counters agree with what has happened, up to the      *)
(* threads that have not got round to counting.                            *)
THEOREM WorkAlwaysAccounted == Spec => []WorkAccounted
<1>1. IInv => TasksAccounted
  <2>. SUFFICES ASSUME IInv PROVE TasksAccounted  OBVIOUS
  <2>1. Submitting \cup Held \cup ran \cup panicked \subseteq Task
    BY DEF IInv, Types, InHand, Submitting, Held
  <2>2. Queued \subseteq Task
    <3>1. \A w \in Worker : ToSet(queues[w]) \subseteq Task  BY DEF IInv, Types, ToSet
    <3>. QED  BY <3>1 DEF Queued
  <2>3. \A t \in Task : Cardinality(Places(t)) = 1  BY OnePlace, FS_Singleton
  <2>. QED  BY <2>1, <2>2, <2>3 DEF TasksAccounted
<1>2. IInv => MetricsAccounted
  <2>. SUFFICES ASSUME IInv PROVE MetricsAccounted  OBVIOUS
  <2>1. Task \ (Fresh \cup Submitting) = SubmittedTasks
    <3>1. ASSUME NEW t \in Task PROVE t \notin Fresh \cup Submitting <=> t \in SubmittedTasks
      <4>1. t \in Nat /\ t # NoTask /\ next_id \in Nat  BY Numbers DEF IInv, Types
      <4>2. t \in Submitting <=> \E s \in Submitter : arg[s] = t
        BY <4>1 DEF IInv, InHand, Submitting
      <4>3. t \in Fresh <=> ~(t < next_id)  BY <4>1 DEF Fresh
      <4>. QED  BY <4>2, <4>3 DEF SubmittedTasks
    <3>. QED  BY <3>1 DEF SubmittedTasks
  <2>. QED  BY <2>1 DEF IInv, Counted, MetricsAccounted, Uncounted, Counters
<1>. QED  BY <1>1, <1>2, SpecIInv, PTL DEF WorkAccounted

-----------------------------------------------------------------------------
(* The virtual machine's gas. *)

MeterOK ==
  /\ meter \in [limit : Nat, used : Nat, refunds : Nat]
  /\ meter.used <= meter.limit

LEMMA CostNat ==
  ASSUME NEW op
  PROVE  Cost(op) \in Nat
<1>1. \A o \in DOMAIN GasTable : GasTable[o] \in Nat  BY DEF GasTable
<1>. QED  BY <1>1 DEF Cost

LEMMA HashPriceNat == HashPrice \in Nat
BY DEF HashPrice, HashWords

LEMMA NewMeterOK ==
  ASSUME NEW limit \in GasLimits, meter' = NewMeter(limit)
  PROVE  MeterOK'
BY GasLimitsAssumption DEF MeterOK, NewMeter

(* A charge the meter affords leaves it within its limit. *)
LEMMA ConsumeOK ==
  ASSUME MeterOK, NEW amount \in Nat, Affords(meter, amount)
  PROVE  /\ Consume(meter, amount) \in [limit : Nat, used : Nat, refunds : Nat]
         /\ Consume(meter, amount).used <= Consume(meter, amount).limit
BY DEF MeterOK, Affords, Consume

LEMMA MeterInit == VMInit => MeterOK
BY DEF VMInit, MeterOK, NewMeter

LEMMA MeterNext == MeterOK /\ [VMNext]_vmVars => MeterOK'
<1>. SUFFICES ASSUME MeterOK, [VMNext]_vmVars PROVE MeterOK'
  OBVIOUS
<1>. USE CostNat, HashPriceNat
<1>0. Price \in Nat /\ Price + HashPrice \in Nat  BY DEF Price
<1>1. CASE meter' = meter
  BY <1>1 DEF MeterOK
<1>2. ASSUME NEW amount \in Nat, Affords(meter, amount), meter' = Consume(meter, amount)
      PROVE  MeterOK'
  BY <1>2, ConsumeOK DEF MeterOK
<1>3. ASSUME NEW c, NEW p, NEW limit \in GasLimits, Execute(c, p, limit) \/ CallFunction(c, p, limit)
      PROVE  MeterOK'
  <2>1. meter' = NewMeter(limit)  BY <1>3 DEF Execute, CallFunction, Begin
  <2>. QED  BY <2>1, NewMeterOK
<1>4. CASE OutOfGas  BY <1>4, <1>1 DEF OutOfGas
<1>5. CASE Compute  BY <1>5, <1>0, <1>2 DEF Compute
<1>6. CASE StoreMemory  BY <1>6, <1>0, <1>2 DEF StoreMemory, Goes, Ready
<1>7. CASE StoreStorage
  <2>1. PICK r \in Nat : meter' = Refund(Consume(meter, Price), r)
    BY <1>7 DEF StoreStorage
  <2>2. Affords(meter, Price)  BY <1>7 DEF StoreStorage, Ready
  <2>. QED  BY <1>0, <2>1, <2>2, ConsumeOK DEF Refund, MeterOK
<1>8. CASE Jump  BY <1>8, <1>0, <1>2 DEF Jump, Goes, Ready
<1>9. CASE Call  BY <1>9, <1>0, <1>2 DEF Call, Goes, Ready
<1>10. CASE Return  BY <1>10, <1>0, <1>2 DEF Return, Goes, Ready
<1>11. CASE Finish  BY <1>11, <1>0, <1>1, <1>2 DEF Finish, Ready
<1>12. CASE Fail  BY <1>12, <1>0, <1>2 DEF Fail
<1>13. CASE UNCHANGED vmVars  BY <1>13, <1>1 DEF vmVars
<1>. QED
  BY <1>3, <1>4, <1>5, <1>6, <1>7, <1>8, <1>9, <1>10, <1>11, <1>12, <1>13
  DEF VMNext, VMStep

(* The cap on refunds keeps the bill between zero and what was used. *)
LEMMA BillWithinUse ==
  ASSUME MeterOK
  PROVE  EffectiveUsed(meter) \in 0 .. meter.used
<1>1. meter.used \in Nat /\ meter.refunds \in Nat  BY DEF MeterOK
<1>2. meter.used \div 5 \in Nat /\ meter.used \div 5 <= meter.used  BY <1>1
<1>. QED  BY <1>1, <1>2 DEF EffectiveUsed

(* Whatever bytecode is run, with whatever refunds on the way: no          *)
(* execution uses, or is billed, more gas than its caller allowed.         *)
THEOREM GasAlwaysBounded == VMSpec => []GasBounded
<1>1. MeterOK => GasBounded
  <2>. SUFFICES ASSUME MeterOK PROVE GasBounded
    OBVIOUS
  <2>1. meter.used \in 0 .. meter.limit /\ meter.limit \in 0 .. meter.limit
    BY DEF MeterOK
  <2>2. EffectiveUsed(meter) \in 0 .. meter.limit
    BY BillWithinUse DEF MeterOK
  <2>. QED  BY <2>1, <2>2 DEF GasBounded, GasUsed
<1>. QED  BY <1>1, MeterInit, MeterNext, PTL DEF VMSpec

-----------------------------------------------------------------------------
(* Storage.                                                                *)

IsMap(f) == f = [k \in DOMAIN f |-> f[k]]

(* What the running execution has written is, on top of the storage, all   *)
(* its context's journal amounts to.                                       *)
JournalInv ==
  /\ IsMap(storage) /\ DOMAIN journal = Contexts
  /\ journal = [c \in Contexts |-> journal[c]]
  /\ Running => vm.ctx \in Contexts
  /\ ~stale => /\ storage = ideal
               /\ Running => Update(storage, journal[vm.ctx]) = Update(storage, written)

LEMMA UpdateIsMap ==
  ASSUME NEW f, NEW g
  PROVE  IsMap(Update(f, g))
BY DEF IsMap, Update

LEMMA UpdateNothing ==
  ASSUME NEW f, IsMap(f)
  PROVE  Update(f, NoKeys) = f
<1>1. DOMAIN NoKeys = {}  BY DEF NoKeys
<1>. QED  BY <1>1 DEF IsMap, Update

(* Updates may be grouped either way. *)
LEMMA UpdateAssociative ==
  ASSUME NEW f, NEW g, NEW h
  PROVE  Update(f, Update(g, h)) = Update(Update(f, g), h)
BY DEF Update

LEMMA JournalInit == VMInit => JournalInv
<1>. SUFFICES ASSUME VMInit PROVE JournalInv
  OBVIOUS
<1>1. IsMap(NoKeys)  BY DEF IsMap, NoKeys
<1>. QED  BY <1>1 DEF VMInit, JournalInv, Running

(* Only the instructions that touch neither journal nor storage.           *)
LEMMA JournalKept ==
  ASSUME JournalInv,
         UNCHANGED <<storage, journal, written, ideal, stale>>,
         status' = "running" => status = "running" /\ vm'.ctx = vm.ctx
  PROVE  JournalInv'
BY DEF JournalInv, Running

LEMMA JournalNext == JournalInv /\ [VMNext]_vmVars => JournalInv'
<1>. SUFFICES ASSUME JournalInv, [VMNext]_vmVars PROVE JournalInv'
  OBVIOUS
<1>1. ASSUME NEW c \in Contexts, NEW p, NEW limit, Begin(c, p, limit) PROVE JournalInv'
  <2>1. vm'.ctx = c /\ written' = NoKeys /\ UNCHANGED <<storage, journal, ideal>>
    BY <1>1 DEF Begin, Reset
  <2>2. Update(storage, written') = storage
    BY <2>1, UpdateNothing DEF JournalInv
  <2>3. ~stale' => ~stale /\ Update(storage, journal[c]) = storage
    BY <1>1 DEF Begin
  <2>. QED  BY <2>1, <2>2, <2>3 DEF JournalInv
<1>2. ASSUME NEW c \in Contexts, NEW p, NEW limit,
             Execute(c, p, limit) \/ CallFunction(c, p, limit)
      PROVE  JournalInv'
  <2>1. \/ Begin(c, p, limit)
        \/ status' = "failed" /\ UNCHANGED <<storage, journal, vm, history>>
    BY <1>2 DEF Execute, CallFunction
  <2>2. CASE status' = "failed" /\ UNCHANGED <<storage, journal, vm, history>>
    BY <2>2, JournalKept DEF history
  <2>. QED  BY <1>1, <2>1, <2>2
<1>3. CASE OutOfGas  BY <1>3, JournalKept DEF OutOfGas, history
<1>4. CASE Compute  BY <1>4, JournalKept DEF Compute, history
<1>5. CASE StoreMemory  BY <1>5, JournalKept DEF StoreMemory, Goes, history
<1>6. CASE StoreStorage
  <2> DEFINE key == Nth(Stack, 2)
             amount == Nth(Stack, 1)
             own == journal[vm.ctx]
  <2>1. /\ journal' = [journal EXCEPT ![vm.ctx] = Put(own, key, amount)]
        /\ written' = Put(written, key, amount)
        /\ vm'.ctx = vm.ctx /\ Running
        /\ UNCHANGED <<storage, status, ideal, stale>>
    BY <1>6 DEF StoreStorage, Ready
  <2>2. vm.ctx \in Contexts  BY <2>1 DEF JournalInv
  <2>3. DOMAIN journal' = Contexts /\ journal' = [c \in Contexts |-> journal'[c]]
        /\ journal'[vm.ctx] = Put(own, key, amount)
    BY <2>1, <2>2 DEF JournalInv
  <2>. HIDE DEF key, amount, own
  <2>4. ~stale => Update(storage, Put(own, key, amount)) = Update(storage, Put(written, key, amount))
    <3>1. ~stale => Update(storage, own) = Update(storage, written)
      BY <2>1 DEF JournalInv, own
    <3>. QED  BY <3>1, UpdateAssociative DEF Put
  <2>. QED  BY <2>1, <2>2, <2>3, <2>4 DEF JournalInv, Running
<1>7. CASE Jump  BY <1>7, JournalKept DEF Jump, Goes, history
<1>8. CASE Call  BY <1>8, JournalKept DEF Call, Goes, history
<1>9. CASE Return  BY <1>9, JournalKept DEF Return, Goes, history
<1>10. CASE Finish
  <2>1. /\ Running /\ status' = "ok"
        /\ storage' = Update(storage, journal[vm.ctx])
        /\ ideal' = Update(ideal, written)
        /\ UNCHANGED <<journal, stale>>
    BY <1>10 DEF Finish, Ready
  <2>2. IsMap(storage')  BY <2>1, UpdateIsMap
  <2>3. ~stale => storage' = ideal'  BY <2>1 DEF JournalInv
  <2>. QED  BY <2>1, <2>2, <2>3 DEF JournalInv, Running
<1>11. CASE Fail  BY <1>11, JournalKept DEF Fail, history
<1>12. CASE UNCHANGED vmVars  BY <1>12, JournalKept DEF vmVars
<1>. QED
  BY <1>2, <1>3, <1>4, <1>5, <1>6, <1>7, <1>8, <1>9, <1>10, <1>11, <1>12
  DEF VMNext, VMStep

(* For all bytecode and any mix of successes, failures and exhausted gas:  *)
(* as long as no execution begins on a context that still carries writes   *)
(* the storage lacks, the storage holds the writes of the successful ones. *)
THEOREM StorageAlwaysSuccessfulWrites == VMSpec => []StorageIsSuccessfulWrites
<1>1. JournalInv => StorageIsSuccessfulWrites
  BY DEF JournalInv, StorageIsSuccessfulWrites
<1>. QED  BY <1>1, JournalInit, JournalNext, PTL DEF VMSpec
============================================================================
