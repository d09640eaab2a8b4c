-------------------------- MODULE CaptureRingProofs --------------------------
(***************************************************************************)
(* The lock-free ring is safe for every number of slots and frames, as     *)
(* long as no more than one thread pushes.                                 *)
(*                                                                         *)
(* Why it is inductive: between the two loads of push() the capture thread *)
(* only moves head towards tail, so the room seen is there at the end, and *)
(* it grows (HeadSeen, RoomLeft); pop() reads at head only while head and  *)
(* tail differ (ReadsHead).  So the slot written is not the slot read.     *)
(* Slots between head and tail hold whole frames (UsedWhole), which the    *)
(* two copies take over and give back piece by piece (Written, ReadSoFar). *)
(*                                                                         *)
(* The ring also implements the bounded buffer of module FrameFifo.  Its   *)
(* frames are those between head and tail (Kept); the store of tail adds   *)
(* one behind, the store of head takes the first, and a frame is lost at   *)
(* the load of head that finds no room, before it is counted (Lost).       *)
(***************************************************************************)
EXTENDS CaptureRing, SequenceTheorems, TLAPS

(* At most one thread pushes, as with a capture plugin of one stream: each of them   *)
(* calls host->on_frame from a thread of its own.                                    *)
SingleProducer == \A p, q \in Producers : p = q

(* Slots in use when the ring runs from a to b. *)
Dist(a, b) == IF a <= b THEN b - a ELSE b + SlotCount - a

Busy == {"size", "copy", "copying", "publish"}
Reading == {"size", "copy", "copying", "advance"}

Locals == /\ ppc \in [Producers -> Busy \cup {"idle", "tail"}]
          /\ frame \in [Producers -> 0..MaxFrames]
          /\ pHead \in [Producers -> Slots] /\ pTail \in [Producers -> Slots]
          /\ cSize \in 0..MaxFrames /\ cData \in 0..Torn
          /\ \A p \in Producers : ppc[p] # "idle" => frame[p] \in 1..MaxFrames
          /\ \A p \in Producers : ppc[p] = "tail" => refused < offered

(* The head that push() loaded may be old, but head has not passed tail since. *)
HeadSeen == \A p \in Producers :
    ppc[p] = "tail" => Dist(head, tail) <= Dist(pHead[p], tail)

(* push() writes at tail, and one slot more stays free. *)
RoomLeft == \A p \in Producers :
    ppc[p] \in Busy => (pTail[p] = tail /\ Dist(head, tail) < SlotCount - 1)

(* pop() reads at head, once head and tail differ. *)
ReadsHead == /\ cpc \in Reading \cup {"empty", "reload"} => cHead = head
             /\ cpc \in Reading => head # tail

(* The slots in use hold a frame each, under its size. *)
UsedWhole == \A s \in Slots :
    Dist(head, s) < Dist(head, tail) => (sizes[s] = data[s] /\ data[s] \in 1..MaxFrames)

(* How far push() has got with its slot. *)
Written == \A p \in Producers :
    /\ ppc[p] \in {"copy", "copying", "publish"} => sizes[pTail[p]] = frame[p]
    /\ ppc[p] = "publish" => data[pTail[p]] = frame[p]

(* How far pop() has got with its slot. *)
ReadSoFar == /\ cpc \in {"copy", "copying", "advance"} => cSize = sizes[cHead]
             /\ cpc \in {"copying", "advance"} => cData = data[cHead]
             /\ cpc = "popped" => (cSize = cData /\ cData \in 1..MaxFrames)

Inv == TypeOK /\ Locals /\ HeadSeen /\ RoomLeft /\ ReadsHead /\ UsedWhole /\ Written /\ ReadSoFar

-----------------------------------------------------------------------------
(* Going once round the ring: Succ counts up and falls from the last slot to 0. *)
LEMMA SuccSlot ==
  ASSUME NEW i \in Slots
  PROVE  Succ(i) \in Slots /\ Succ(i) = IF i = SlotCount - 1 THEN 0 ELSE i + 1
  <1>1. CASE i = SlotCount - 1
    <2>1. SlotCount % SlotCount = 0
      BY CaptureRingAssumption
    <2> QED BY <1>1, <2>1, CaptureRingAssumption DEF Succ, Slots
  <1>2. CASE i # SlotCount - 1
    <2>1. i + 1 \in 0..SlotCount - 1
      BY <1>2, CaptureRingAssumption DEF Slots
    <2>2. (i + 1) % SlotCount = i + 1
      BY <2>1, CaptureRingAssumption
    <2> QED BY <1>2, <2>1, <2>2 DEF Succ, Slots
  <1> QED BY <1>1, <1>2

(* Distances are numbers of slots, and tell slots apart. *)
LEMMA DistSlots ==
  ASSUME NEW a \in Slots, NEW b \in Slots, NEW c \in Slots
  PROVE  /\ Dist(a, b) \in 0..SlotCount - 1
         /\ Dist(a, b) = 0 <=> a = b
         /\ Dist(a, b) = Dist(a, c) => b = c
  BY CaptureRingAssumption DEF Dist, Slots

(* push() makes the used part one slot longer, or the ring was full. *)
LEMMA DistPublish ==
  ASSUME NEW a \in Slots, NEW b \in Slots
  PROVE  /\ Succ(b) = a <=> Dist(a, b) = SlotCount - 1
         /\ Dist(a, b) < SlotCount - 1 => Dist(a, Succ(b)) = Dist(a, b) + 1
  BY SuccSlot, CaptureRingAssumption DEF Dist, Slots

(* pop() makes the used part one slot shorter. *)
LEMMA DistAdvance ==
  ASSUME NEW a \in Slots, NEW b \in Slots
  PROVE  /\ a # b => Dist(Succ(a), b) = Dist(a, b) - 1
         /\ Dist(Succ(a), a) = SlotCount - 1
  BY SuccSlot, CaptureRingAssumption DEF Dist, Slots
-----------------------------------------------------------------------------
(* An empty ring nobody uses. *)
LEMMA InitInv == Init => Inv
  <1> SUFFICES ASSUME Init PROVE Inv
    OBVIOUS
  <1> USE DEF Init
  <1>1. 0 \in Slots /\ 0 \in 0..MaxFrames /\ 0 \in 0..Torn
    BY CaptureRingAssumption DEF Slots, Torn
  <1>2. TypeOK
    BY <1>1 DEF TypeOK
  <1>3. Locals
    BY <1>1 DEF Locals
  <1>4. HeadSeen /\ RoomLeft /\ Written
    BY DEF HeadSeen, RoomLeft, Written, Busy
  <1>5. ReadsHead /\ ReadSoFar
    BY DEF ReadsHead, ReadSoFar, Reading
  <1>6. UsedWhole
    BY <1>1, DistSlots DEF UsedWhole
  <1> QED BY <1>2, <1>3, <1>4, <1>5, <1>6 DEF Inv

(* push() keeps the invariant, up to the store of tail. *)
LEMMA PushInv ==
  ASSUME Inv, SingleProducer, NEW p \in Producers,
         PushOversize(p) \/ PushHead(p) \/ PushTail(p) \/ PushSize(p) \/ PushCopy(p)
             \/ PushCopied(p)
  PROVE  Inv'
  <1> USE DEF Inv
  <1>0. \A q \in Producers : q = p
    BY DEF SingleProducer
  <1>1. CASE PushOversize(p)
    <2>1. TypeOK' /\ Locals'
      BY <1>1, CaptureRingAssumption
      DEF PushOversize, TypeOK, Locals, ring, consumer, control
    <2>2. (HeadSeen /\ RoomLeft /\ ReadsHead /\ UsedWhole /\ Written /\ ReadSoFar)'
      BY <1>1 DEF PushOversize, ring, consumer, control, HeadSeen, RoomLeft, ReadsHead,
                  UsedWhole, Written, ReadSoFar
    <2> QED BY <2>1, <2>2
  <1>2. CASE PushHead(p)
    <2> USE <1>2 DEF PushHead, ring, consumer, control
    <2>1. TypeOK'
      BY CaptureRingAssumption DEF TypeOK, Locals
    <2>2. Locals'
      BY <1>0, CaptureRingAssumption DEF TypeOK, Locals
    <2>3. HeadSeen'
      BY <1>0, DistSlots DEF HeadSeen, TypeOK, Locals
    <2>4. RoomLeft' /\ Written'
      BY <1>0 DEF RoomLeft, Written, Busy, Locals
    <2>5. ReadsHead' /\ UsedWhole' /\ ReadSoFar'
      BY DEF ReadsHead, UsedWhole, ReadSoFar
    <2> QED BY <2>1, <2>2, <2>3, <2>4, <2>5
  <1>3. CASE PushTail(p)
    <2> USE <1>3 DEF PushTail, ring, consumer, control
    <2>1. TypeOK'
      BY CaptureRingAssumption DEF TypeOK, Locals
    <2>2. Locals'
      BY <1>0, CaptureRingAssumption DEF TypeOK, Locals, Busy
    <2>3. HeadSeen'
      BY <1>0 DEF HeadSeen, Locals
    <2>4. RoomLeft'
      <3>1. CASE RingFull(tail, pHead[p])
        BY <1>0, <3>1 DEF RoomLeft, Locals, Busy
      <3>2. CASE ~RingFull(tail, pHead[p])
        <4>1. /\ head \in Slots /\ tail \in Slots /\ pHead[p] \in Slots
              /\ Dist(head, tail) <= Dist(pHead[p], tail)
          BY DEF TypeOK, Locals, HeadSeen
        <4>2. Dist(pHead[p], tail) # SlotCount - 1
          BY <3>2, <4>1, DistPublish DEF RingFull
        <4>3. Dist(head, tail) < SlotCount - 1
          BY <4>1, <4>2, DistSlots, CaptureRingAssumption
        <4>4. pTail'[p] = tail' /\ head' = head /\ tail' = tail
          BY DEF Locals
        <4> QED BY <1>0, <4>3, <4>4 DEF RoomLeft
      <3> QED BY <3>1, <3>2
    <2>5. Written'
      BY <1>0 DEF Written, Locals
    <2>6. ReadsHead' /\ UsedWhole' /\ ReadSoFar'
      BY DEF ReadsHead, UsedWhole, ReadSoFar
    <2> QED BY <2>1, <2>2, <2>3, <2>4, <2>5, <2>6
  <1>4. CASE PushSize(p) \/ PushCopy(p) \/ PushCopied(p)
    <2> USE DEF consumer, control
    <2>1. /\ pTail[p] = tail /\ tail \in Slots /\ head \in Slots
          /\ frame[p] \in 1..MaxFrames
      BY <1>4 DEF PushSize, PushCopy, PushCopied, RoomLeft, Busy, TypeOK, Locals
    <2>2. /\ UNCHANGED <<head, tail, frame, pHead, pTail, offered, refused, cHead, cTail,
                         cSize, cData, taken, passedOn, cpc>>
          /\ \A s \in Slots \ {tail} : sizes'[s] = sizes[s] /\ data'[s] = data[s]
      BY <1>4, <2>1 DEF PushSize, PushCopy, PushCopied, TypeOK
    <2>3. TypeOK'
      <3>1. sizes' \in [Slots -> 0..MaxFrames] /\ data' \in [Slots -> 0..Torn]
        BY <1>4, <2>1, CaptureRingAssumption
        DEF PushSize, PushCopy, PushCopied, TypeOK, Torn
      <3> QED BY <2>2, <3>1 DEF TypeOK
    <2>4. Locals'
      BY <1>0, <1>4, <2>2 DEF PushSize, PushCopy, PushCopied, Locals, Busy
    <2>5. HeadSeen' /\ RoomLeft'
      BY <1>0, <1>4, <2>2 DEF PushSize, PushCopy, PushCopied, HeadSeen, RoomLeft, Locals, Busy
    <2>6. ReadsHead'
      BY <2>2 DEF ReadsHead
    <2>7. UsedWhole'
      <3> SUFFICES ASSUME NEW s \in Slots, Dist(head, s) < Dist(head, tail)
                   PROVE  sizes'[s] = data'[s] /\ data'[s] \in 1..MaxFrames
        BY <2>2 DEF UsedWhole, Dist
      <3>1. s # tail
        BY <2>1, DistSlots, CaptureRingAssumption
      <3> QED BY <2>2, <3>1 DEF UsedWhole
    <2>8. Written'
      <3>1. pTail'[p] = tail /\ frame'[p] = frame[p]
        BY <2>1, <2>2
      <3>2. CASE PushSize(p)
        BY <1>0, <2>1, <3>1, <3>2 DEF PushSize, Written, TypeOK, Locals
      <3>3. CASE PushCopy(p)
        BY <1>0, <2>1, <3>1, <3>3 DEF PushCopy, Written, TypeOK, Locals
      <3>4. CASE PushCopied(p)
        BY <1>0, <2>1, <3>1, <3>4 DEF PushCopied, Written, TypeOK, Locals
      <3> QED BY <1>4, <3>2, <3>3, <3>4
    <2>9. ReadSoFar'
      <3>1. cpc \in {"copy", "copying", "advance"} => (cHead \in Slots /\ cHead # tail)
        BY <2>1 DEF ReadsHead, Reading
      <3> QED BY <2>2, <3>1 DEF ReadSoFar
    <2> QED BY <2>3, <2>4, <2>5, <2>6, <2>7, <2>8, <2>9
  <1> QED BY <1>1, <1>2, <1>3, <1>4

(* The store of tail adds a whole frame to the used part. *)
LEMMA PublishInv ==
  ASSUME Inv, SingleProducer, NEW p \in Producers, PushPublish(p)
  PROVE  Inv'
  <1> USE DEF Inv, PushPublish, consumer, control
  <1>0. \A q \in Producers : q = p
    BY DEF SingleProducer
  <1>1. /\ head \in Slots /\ tail \in Slots /\ pTail[p] = tail
        /\ Dist(head, tail) \in 0..SlotCount - 1 /\ Dist(head, tail) < SlotCount - 1
    BY DistSlots DEF TypeOK, RoomLeft, Busy
  <1>2. /\ tail' = Succ(tail) /\ tail' \in Slots
        /\ Dist(head, tail') = Dist(head, tail) + 1
    BY <1>1, SuccSlot, DistPublish
  <1>3. TypeOK'
    BY <1>2 DEF TypeOK
  <1>4. Locals'
    BY <1>0 DEF Locals
  <1>5. HeadSeen' /\ RoomLeft' /\ Written'
    BY <1>0 DEF HeadSeen, RoomLeft, Written, Locals, Busy
  <1>6. ReadsHead'
    <2>1. head # tail'
      BY <1>1, <1>2, DistSlots, CaptureRingAssumption
    <2> QED BY <2>1 DEF ReadsHead
  <1>7. UsedWhole'
    <2> SUFFICES ASSUME NEW s \in Slots, Dist(head, s) < Dist(head, tail')
                 PROVE  sizes[s] = data[s] /\ data[s] \in 1..MaxFrames
      BY DEF UsedWhole, Dist
    <2>1. CASE s = tail
      BY <1>1, <2>1 DEF Written, Locals
    <2>2. CASE s # tail
      <3>1. Dist(head, s) # Dist(head, tail) /\ Dist(head, s) \in 0..SlotCount - 1
        BY <1>1, <2>2, DistSlots
      <3>2. Dist(head, s) < Dist(head, tail)
        BY <1>1, <1>2, <3>1, CaptureRingAssumption
      <3> QED BY <3>2 DEF UsedWhole
    <2> QED BY <2>1, <2>2
  <1>8. ReadSoFar'
    BY DEF ReadSoFar
  <1> QED BY <1>3, <1>4, <1>5, <1>6, <1>7, <1>8

(* pop() keeps the invariant, up to the store of head. *)
LEMMA PopInv ==
  ASSUME Inv, PopLoad \/ PopEmpty \/ PopReload \/ PopSize \/ PopCopy \/ PopCopied
  PROVE  Inv'
  <1> USE DEF Inv, ring, producer, consumer, control
  <1>1. UNCHANGED <<head, tail, sizes, data, producer, taken, passedOn>>
    BY DEF PopLoad, PopEmpty, PopReload, PopSize, PopCopy, PopCopied
  <1>2. HeadSeen' /\ RoomLeft' /\ Written' /\ UsedWhole'
    BY <1>1 DEF HeadSeen, RoomLeft, Written, UsedWhole, Dist
  <1>3. /\ head \in Slots /\ tail \in Slots /\ cHead \in Slots
        /\ sizes[cHead] \in 0..MaxFrames /\ data[cHead] \in 0..Torn /\ Torn \in 0..Torn
    BY CaptureRingAssumption DEF TypeOK, Torn
  <1>4. TypeOK'
    BY <1>1, <1>3 DEF TypeOK, PopLoad, PopEmpty, PopReload, PopSize, PopCopy, PopCopied
  <1>5. Locals'
    BY <1>1, <1>3 DEF Locals, PopLoad, PopEmpty, PopReload, PopSize, PopCopy, PopCopied
  <1>6. ReadsHead'
    BY <1>1, <1>3
    DEF ReadsHead, Reading, PopLoad, PopEmpty, PopReload, PopSize, PopCopy, PopCopied
  <1>7. ReadSoFar'
    BY <1>1, <1>3 DEF ReadSoFar, PopLoad, PopEmpty, PopReload, PopSize, PopCopy, PopCopied
  <1> QED BY <1>2, <1>4, <1>5, <1>6, <1>7

(* The store of head takes the oldest slot out of the used part. *)
LEMMA AdvanceInv ==
  ASSUME Inv, PopAdvance
  PROVE  Inv'
  <1> USE DEF Inv, PopAdvance, producer, control
  <1>1. /\ head \in Slots /\ tail \in Slots /\ cHead = head /\ head # tail
        /\ Dist(head, tail) \in 0..SlotCount - 1 /\ Dist(head, tail) > 0
        /\ Dist(head, head) = 0
    BY DistSlots, CaptureRingAssumption DEF TypeOK, ReadsHead, Reading
  <1>2. /\ head' = Succ(head) /\ head' \in Slots
        /\ Dist(head', tail) = Dist(head, tail) - 1
    BY <1>1, SuccSlot, DistAdvance
  <1>3. cSize = cData /\ cData \in 1..MaxFrames
    BY <1>1 DEF ReadSoFar, UsedWhole
  <1>4. TypeOK'
    BY <1>2 DEF TypeOK, Locals
  <1>5. Locals'
    BY DEF Locals
  <1>6. HeadSeen' /\ RoomLeft'
    <2>1. ASSUME NEW p \in Producers
          PROVE  Dist(pHead[p], tail) \in 0..SlotCount - 1
      BY <1>1, DistSlots DEF Locals
    <2> QED BY <1>1, <1>2, <2>1, CaptureRingAssumption DEF HeadSeen, RoomLeft, Dist
  <1>7. ReadsHead' /\ Written' /\ ReadSoFar'
    BY <1>3 DEF ReadsHead, Reading, Written, ReadSoFar
  <1>8. UsedWhole'
    <2> SUFFICES ASSUME NEW s \in Slots, Dist(head', s) < Dist(head', tail)
                 PROVE  sizes[s] = data[s] /\ data[s] \in 1..MaxFrames
      BY DEF UsedWhole, Dist
    <2>1. s # head
      BY <1>1, <1>2, DistAdvance, CaptureRingAssumption
    <2>2. Dist(head, s) < Dist(head, tail)
      <3>1. Dist(head', s) = Dist(head, s) - 1
        BY <1>1, <1>2, <2>1, DistAdvance
      <3> QED BY <1>1, <1>2, <3>1, DistSlots, CaptureRingAssumption
    <2> QED BY <2>2 DEF UsedWhole
  <1> QED BY <1>4, <1>5, <1>6, <1>7, <1>8

(* Steps that do not touch the ring. *)
LEMMA OtherInv ==
  ASSUME Inv,
         \/ Start \/ PluginStart \/ LoopTest \/ PassOn \/ PluginStop \/ PluginJoin
         \/ StopRequest \/ StopCancel \/ StopJoin
         \/ UNCHANGED vars
  PROVE  Inv'
  <1> USE DEF Inv, ring, producer, consumer, control, vars, Start, PluginStart, LoopTest,
              PassOn, PluginStop, PluginJoin, StopRequest, StopCancel, StopJoin
  <1>1. UNCHANGED <<ring, producer, cHead, cTail, cSize, cData, taken>>
    OBVIOUS
  <1>2. TypeOK'
    BY <1>1 DEF TypeOK
  <1>3. Locals'
    BY <1>1 DEF Locals
  <1>4. HeadSeen' /\ RoomLeft' /\ Written' /\ UsedWhole'
    BY <1>1 DEF HeadSeen, RoomLeft, Written, UsedWhole, Dist
  <1>5. ReadsHead' /\ ReadSoFar'
    BY <1>1 DEF ReadsHead, Reading, ReadSoFar
  <1> QED BY <1>2, <1>3, <1>4, <1>5

(* With one pushing thread every step keeps the invariant. *)
LEMMA StepInv == SingleProducer /\ Inv /\ [Next]_vars => Inv'
  <1> SUFFICES ASSUME SingleProducer, Inv, [Next]_vars PROVE Inv'
    OBVIOUS
  <1>1. CASE \E p \in Producers : PushOversize(p) \/ PushHead(p) \/ PushNext(p)
    <2> PICK p \in Producers : PushOversize(p) \/ PushHead(p) \/ PushNext(p)
      BY <1>1
    <2> QED BY PushInv, PublishInv DEF PushNext
  <1>2. CASE CaptureLoop
    BY <1>2, PopInv, AdvanceInv, OtherInv DEF CaptureLoop
  <1>3. CASE Start \/ StopRequest \/ StopCancel \/ StopJoin \/ UNCHANGED vars
    BY <1>3, OtherInv
  <1> QED BY <1>1, <1>2, <1>3 DEF Next

(* The slot written is at tail, the slot read at head, and these differ. *)
LEMMA InvImpliesSafe == SingleProducer /\ Inv => NoDataRace /\ PoppedWhole
  <1> SUFFICES ASSUME SingleProducer, Inv PROVE NoDataRace /\ PoppedWhole
    OBVIOUS
  <1> USE DEF Inv
  <1>1. NoDataRace
    BY DEF NoDataRace, SingleProducer, RoomLeft, ReadsHead, Busy, Reading
  <1>2. PoppedWhole
    <2>1. head \in Slots /\ tail \in Slots
      BY DEF TypeOK
    <2>2. cpc = "advance" => (cHead = head /\ Dist(head, head) < Dist(head, tail))
      BY <2>1, DistSlots, CaptureRingAssumption DEF ReadsHead, Reading
    <2> QED BY <2>1, <2>2 DEF PoppedWhole, ReadSoFar, UsedWhole
  <1> QED BY <1>1, <1>2

(* A ring of any size with one pushing thread: indices and frames stay in range, no  *)
(* slot is read while it is written, and what is popped is one pushed frame, whole   *)
(* (ShmRing.cpp:34-87).  RingTwoStreams shows that the assumption is needed.         *)
THEOREM CaptureRingSafe ==
  ASSUME SingleProducer
  PROVE  Spec => [](TypeOK /\ NoDataRace /\ PoppedWhole)
  <1>1. Init => Inv
    BY InitInv
  <1>2. Inv /\ [Next]_vars => Inv'
    BY StepInv
  <1>3. Inv => TypeOK /\ NoDataRace /\ PoppedWhole
    BY InvImpliesSafe DEF Inv
  <1> QED BY <1>1, <1>2, <1>3, PTL DEF Spec
-----------------------------------------------------------------------------
(* The i-th slot of the used part that starts at h, and the frames in the used part. *)
At(h, i) == (h + i - 1) % SlotCount
QueueOf(h, t, d) == [i \in 1..Dist(h, t) |-> d[At(h, i)]]

(* Every slot is the i-th from h for one i, and what lies between is counted round. *)
LEMMA Round ==
  ASSUME NEW h \in Slots, NEW t \in Slots
  PROVE  /\ (t + SlotCount - h) % SlotCount = Dist(h, t)
         /\ \A i \in 1..SlotCount : At(h, i) \in Slots /\ Dist(h, At(h, i)) = i - 1
  <1>1. SlotCount \in Nat \ {0, 1} /\ h \in 0..SlotCount - 1 /\ t \in 0..SlotCount - 1
    BY CaptureRingAssumption DEF Slots
  <1>2. ASSUME NEW n \in Nat \ {0}, NEW x \in 0..n - 1
        PROVE  x % n = x /\ (x + n) % n = x
    OBVIOUS
  <1>3. (t + SlotCount - h) % SlotCount = Dist(h, t)
    <2>1. CASE h <= t
      <3>1. t - h \in 0..SlotCount - 1 /\ t + SlotCount - h = (t - h) + SlotCount
        BY <1>1, <2>1
      <3> QED BY <1>1, <1>2, <2>1, <3>1 DEF Dist
    <2>2. CASE ~(h <= t)
      <3>1. t + SlotCount - h \in 0..SlotCount - 1
        BY <1>1, <2>2
      <3> QED BY <1>1, <1>2, <2>2, <3>1 DEF Dist
    <2> QED BY <2>1, <2>2
  <1>4. ASSUME NEW i \in 1..SlotCount
        PROVE  At(h, i) \in Slots /\ Dist(h, At(h, i)) = i - 1
    <2>1. CASE h + i - 1 < SlotCount
      <3>1. h + i - 1 \in 0..SlotCount - 1
        BY <1>1, <2>1
      <3>2. At(h, i) = h + i - 1
        BY <1>1, <1>2, <3>1 DEF At
      <3> QED BY <1>1, <3>1, <3>2 DEF Dist, Slots
    <2>2. CASE h + i - 1 >= SlotCount
      <3> DEFINE x == h + i - 1 - SlotCount
      <3>1. x \in 0..SlotCount - 1 /\ x + SlotCount = h + i - 1 /\ x < h
        BY <1>1, <2>2
      <3>2. (x + SlotCount) % SlotCount = x
        <4> HIDE DEF x
        <4> QED BY <1>1, <1>2, <3>1
      <3>3. At(h, i) = x
        BY <3>1, <3>2 DEF At
      <3> QED BY <1>1, <3>1, <3>3 DEF Dist, Slots
    <2> QED BY <1>1, <2>1, <2>2
  <1> QED BY <1>3, <1>4

(* The used part is a sequence of frames. *)
LEMMA QueueSeq ==
  ASSUME NEW h \in Slots, NEW t \in Slots, NEW d,
         \A s \in Slots : Dist(h, s) < Dist(h, t) => d[s] \in 1..MaxFrames
  PROVE  /\ QueueOf(h, t, d) \in Seq(1..MaxFrames) /\ Len(QueueOf(h, t, d)) = Dist(h, t)
         /\ \A i \in 1..Dist(h, t) : QueueOf(h, t, d)[i] = d[At(h, i)]
  <1>1. Dist(h, t) \in 0..SlotCount - 1 /\ SlotCount \in Nat \ {0, 1}
    BY DistSlots, CaptureRingAssumption
  <1>2. ASSUME NEW i \in 1..Dist(h, t)
        PROVE  d[At(h, i)] \in 1..MaxFrames
    <2>1. i \in 1..SlotCount /\ i - 1 < Dist(h, t)
      BY <1>1
    <2> QED BY <2>1, Round
  <1>3. QueueOf(h, t, d) \in [1..Dist(h, t) -> 1..MaxFrames]
    BY <1>2 DEF QueueOf
  <1>4. Dist(h, t) \in Nat
    BY <1>1
  <1>5. QueueOf(h, t, d) \in Seq(1..MaxFrames)
    BY <1>3, <1>4, SeqDef
  <1>6. Len(QueueOf(h, t, d)) = Dist(h, t)
    BY <1>3, <1>4, <1>5, LenProperties
  <1> QED BY <1>5, <1>6 DEF QueueOf

(* Storing tail appends a frame, ... *)
LEMMA QueueLonger ==
  ASSUME NEW h \in Slots, NEW t \in Slots, NEW d, Dist(h, t) < SlotCount - 1,
         \A s \in Slots : Dist(h, s) < Dist(h, t) => d[s] \in 1..MaxFrames,
         d[t] \in 1..MaxFrames
  PROVE  QueueOf(h, Succ(t), d) = Append(QueueOf(h, t, d), d[t])
  <1> DEFINE n == Dist(h, t)
             old == QueueOf(h, t, d)
             new == QueueOf(h, Succ(t), d)
             longer == Append(old, d[t])
  <1>1. n \in 0..SlotCount - 2 /\ SlotCount \in Nat \ {0, 1} /\ Succ(t) \in Slots
        /\ Dist(h, Succ(t)) = n + 1
    BY DistSlots, DistPublish, SuccSlot, CaptureRingAssumption
  <1>2. ASSUME NEW s \in Slots, Dist(h, s) < Dist(h, Succ(t))
        PROVE  d[s] \in 1..MaxFrames
    <2>1. Dist(h, s) \in 0..SlotCount - 1 /\ (Dist(h, s) = n => s = t)
      BY DistSlots
    <2> QED BY <1>1, <1>2, <2>1
  <1>3. /\ old \in Seq(1..MaxFrames) /\ Len(old) = n
        /\ \A i \in 1..n : old[i] = d[At(h, i)]
    BY QueueSeq
  <1>4. /\ new \in Seq(1..MaxFrames) /\ Len(new) = n + 1
        /\ \A i \in 1..n + 1 : new[i] = d[At(h, i)]
    BY <1>1, <1>2, QueueSeq
  <1>5. At(h, n + 1) = t
    <2>1. n + 1 \in 1..SlotCount /\ (n + 1) - 1 = n
      BY <1>1
    <2>2. At(h, n + 1) \in Slots /\ Dist(h, At(h, n + 1)) = n
      BY <2>1, Round
    <2> QED BY <2>2, DistSlots
  <1> HIDE DEF n, old, new
  <1>6. /\ longer \in Seq(1..MaxFrames) /\ Len(longer) = n + 1
        /\ \A i \in 1..n : longer[i] = old[i]
        /\ longer[n + 1] = d[t]
    BY <1>3, AppendProperties
  <1> HIDE DEF longer
  <1>7. \A i \in 1..n + 1 : new[i] = longer[i]
    BY <1>1, <1>3, <1>4, <1>5, <1>6
  <1>8. new = longer
    BY <1>4, <1>6, <1>7, SeqEqual
  <1> QED BY <1>8 DEF n, old, new, longer

(* ... and storing head takes the oldest one out. *)
LEMMA QueueShorter ==
  ASSUME NEW h \in Slots, NEW t \in Slots, NEW d, h # t,
         \A s \in Slots : Dist(h, s) < Dist(h, t) => d[s] \in 1..MaxFrames
  PROVE  /\ QueueOf(h, t, d) # << >> /\ Head(QueueOf(h, t, d)) = d[h]
         /\ QueueOf(Succ(h), t, d) = Tail(QueueOf(h, t, d))
  <1> DEFINE n == Dist(h, t)
             old == QueueOf(h, t, d)
             new == QueueOf(Succ(h), t, d)
  <1>1. n \in 1..SlotCount - 1 /\ SlotCount \in Nat \ {0, 1} /\ Succ(h) \in Slots
        /\ Dist(Succ(h), t) = n - 1
    <2>1. n \in 0..SlotCount - 1 /\ n # 0
      BY DistSlots
    <2> QED BY <2>1, DistAdvance, SuccSlot, CaptureRingAssumption
  <1>2. ASSUME NEW s \in Slots, Dist(Succ(h), s) < Dist(Succ(h), t)
        PROVE  d[s] \in 1..MaxFrames
    <2>1. s # h
      BY <1>1, <1>2, DistAdvance
    <2>2. Dist(Succ(h), s) = Dist(h, s) - 1 /\ Dist(h, s) \in 0..SlotCount - 1
      BY <2>1, DistAdvance, DistSlots
    <2> QED BY <1>1, <1>2, <2>2
  <1>3. /\ old \in Seq(1..MaxFrames) /\ Len(old) = n
        /\ \A i \in 1..n : old[i] = d[At(h, i)]
    BY QueueSeq
  <1>4. /\ new \in Seq(1..MaxFrames) /\ Len(new) = n - 1
        /\ \A i \in 1..n - 1 : new[i] = d[At(Succ(h), i)]
    BY <1>1, <1>2, QueueSeq
  <1>5. At(h, 1) = h
    <2>1. 1 \in 1..SlotCount
      BY <1>1
    <2>2. At(h, 1) \in Slots /\ Dist(h, At(h, 1)) = 1 - 1
      BY <2>1, Round
    <2> QED BY <2>2, DistSlots
  <1>6. ASSUME NEW i \in 1..n - 1
        PROVE  At(Succ(h), i) = At(h, i + 1)
    <2>1. i \in 1..SlotCount /\ i + 1 \in 1..SlotCount /\ (i + 1) - 1 = i /\ i # 0
      BY <1>1
    <2>2. /\ At(Succ(h), i) \in Slots /\ Dist(Succ(h), At(Succ(h), i)) = i - 1
          /\ At(h, i + 1) \in Slots /\ Dist(h, At(h, i + 1)) = i
      BY <1>1, <2>1, Round
    <2>3. At(h, i + 1) # h
      BY <2>1, <2>2, DistSlots
    <2>4. Dist(Succ(h), At(h, i + 1)) = i - 1
      BY <2>2, <2>3, DistAdvance
    <2> QED BY <1>1, <2>2, <2>4, DistSlots
  <1> HIDE DEF n, old, new
  <1>7. old # << >> /\ 1 \in 1..n
    BY <1>1, <1>3, EmptySeq
  <1>8. Head(old) = old[1]
    BY <1>3, <1>7
  <1>9. /\ Tail(old) \in Seq(1..MaxFrames) /\ Len(Tail(old)) = n - 1
        /\ \A i \in 1..n - 1 : Tail(old)[i] = old[i + 1]
    BY <1>3, <1>7, HeadTailProperties
  <1>10. \A i \in 1..n - 1 : new[i] = Tail(old)[i]
    <2>1. \A i \in 1..n - 1 : i + 1 \in 1..n
      BY <1>1
    <2> QED BY <1>3, <1>4, <1>6, <1>9, <2>1
  <1>11. new = Tail(old)
    BY <1>4, <1>9, <1>10, SeqEqual
  <1> QED BY <1>3, <1>5, <1>7, <1>8, <1>11 DEF old, new
-----------------------------------------------------------------------------
(* The buffer that the ring implements, as seen from outside. *)
Kept == [i \in 1..Used |-> data[Slot(i)]]
Lost == refused + (IF Refusing THEN 1 ELSE 0)

(* Kept is the used part, from the number of used slots that the code computes, ... *)
LEMMA KeptIs ==
  ASSUME head \in Slots, tail \in Slots
  PROVE  Kept = QueueOf(head, tail, data)
  <1>1. Used = Dist(head, tail)
    BY Round DEF Used
  <1> QED BY <1>1 DEF Kept, QueueOf, Slot, At

(* ... also after a step. *)
LEMMA KeptIsNext ==
  ASSUME head' \in Slots, tail' \in Slots
  PROVE  Kept' = QueueOf(head', tail', data')
  <1>1. Used' = Dist(head', tail')
    BY Round DEF Used
  <1> QED BY <1>1 DEF Kept, QueueOf, Slot, At

(* What is kept are frames, and at most one slot less than there are. *)
LEMMA KeptFrames ==
  ASSUME Inv
  PROVE  /\ Kept = QueueOf(head, tail, data) /\ head \in Slots /\ tail \in Slots
         /\ \A s \in Slots : Dist(head, s) < Dist(head, tail) => data[s] \in 1..MaxFrames
         /\ Kept \in Seq(1..MaxFrames) /\ Len(Kept) = Dist(head, tail)
         /\ Len(Kept) \in 0..SlotCount - 1
  <1>1. /\ head \in Slots /\ tail \in Slots
        /\ \A s \in Slots : Dist(head, s) < Dist(head, tail) => data[s] \in 1..MaxFrames
    BY DEF Inv, TypeOK, UsedWhole
  <1>2. Kept = QueueOf(head, tail, data)
    BY <1>1, KeptIs
  <1>3. /\ QueueOf(head, tail, data) \in Seq(1..MaxFrames)
        /\ Len(QueueOf(head, tail, data)) = Dist(head, tail)
    BY <1>1, QueueSeq
  <1>4. Dist(head, tail) \in 0..SlotCount - 1
    BY <1>1, DistSlots
  <1> QED BY <1>1, <1>2, <1>3, <1>4

(* The empty ring is the empty buffer. *)
LEMMA InitMaps == Init => Kept = << >> /\ Lost = 0 /\ taken = 0
  <1> SUFFICES ASSUME Init PROVE Kept = << >> /\ Lost = 0 /\ taken = 0
    OBVIOUS
  <1>1. Inv
    BY InitInv
  <1>2. Len(Kept) = 0 /\ Kept \in Seq(1..MaxFrames)
    BY <1>1, KeptFrames, DistSlots DEF Init
  <1>3. Kept = << >>
    BY <1>2, EmptySeq
  <1> QED BY <1>3 DEF Init, Lost, Refusing

(* Nothing is seen of a step that leaves head, tail and the slots in use alone. *)
LEMMA KeptSame ==
  ASSUME Inv, UNCHANGED <<head, tail>>, \A s \in Slots \ {tail} : data'[s] = data[s]
  PROVE  Kept' = Kept
  <1>1. head \in Slots /\ tail \in Slots /\ Kept = QueueOf(head, tail, data)
    BY KeptFrames
  <1>2. Kept' = QueueOf(head, tail, data')
    BY <1>1, KeptIsNext
  <1>3. ASSUME NEW i \in 1..Dist(head, tail)
        PROVE  data'[At(head, i)] = data[At(head, i)]
    <2>1. Dist(head, tail) \in 0..SlotCount - 1
      BY <1>1, DistSlots
    <2>2. i \in 1..SlotCount /\ i - 1 # Dist(head, tail)
      BY <2>1, CaptureRingAssumption
    <2>3. At(head, i) \in Slots /\ At(head, i) # tail
      BY <1>1, <2>2, Round
    <2> QED BY <2>3
  <1> QED BY <1>1, <1>2, <1>3 DEF QueueOf

(* push() keeps a frame where it stores tail, refuses one where it loads a head that  *)
(* leaves no room, and is not seen anywhere else: counting the refusal comes later.   *)
LEMMA PushMaps ==
  ASSUME Inv, SingleProducer, NEW p \in Producers,
         PushOversize(p) \/ PushHead(p) \/ PushNext(p)
  PROVE  \/ UNCHANGED <<Kept, Lost, taken>>
         \/ Fifo!Keep \/ Fifo!Refuse
  <1>0. \A q \in Producers : q = p
    BY DEF SingleProducer
  <1>1. Refusing <=> (ppc[p] = "tail" /\ RingFull(tail, pHead[p]))
    BY <1>0 DEF Refusing
  <1>2. Refusing' <=> (ppc'[p] = "tail" /\ RingFull(tail', pHead'[p]))
    BY <1>0 DEF Refusing, RingFull
  <1>3. /\ p \in DOMAIN ppc /\ p \in DOMAIN pHead
        /\ ppc \in [Producers -> Busy \cup {"idle", "tail"}] /\ pHead \in [Producers -> Slots]
    BY DEF Inv, Locals
  <1> HIDE DEF Refusing
  <1> USE DEF consumer, control
  <1>4. CASE PushOversize(p)
    <2>1. UNCHANGED <<head, tail, data, refused, taken>> /\ (Refusing' <=> Refusing)
      BY <1>1, <1>2, <1>4 DEF PushOversize, ring
    <2> QED BY <2>1, KeptSame DEF Lost
  <1>5. CASE PushHead(p)
    <2>1. /\ UNCHANGED <<head, tail, data, refused, taken>> /\ ~Refusing
          /\ Refusing' <=> RingFull(tail, head)
      BY <1>1, <1>2, <1>3, <1>5 DEF PushHead, ring
    <2>2. Kept' = Kept
      BY <2>1, KeptSame
    <2>3. CASE RingFull(tail, head)
      <3>1. Len(Kept) = SlotCount - 1
        BY <2>3, KeptFrames, DistPublish DEF RingFull
      <3>2. Lost' = Lost + 1
        BY <2>1, <2>3 DEF Lost, Inv, TypeOK
      <3> QED BY <2>1, <2>2, <3>1, <3>2 DEF Fifo!Refuse, Kept, Lost
    <2>4. CASE ~RingFull(tail, head)
      BY <2>1, <2>2, <2>4 DEF Lost
    <2> QED BY <2>3, <2>4
  <1>6. CASE PushTail(p)
    <2>1. /\ UNCHANGED <<head, tail, data, taken>> /\ ~Refusing'
          /\ refused' = IF Refusing THEN refused + 1 ELSE refused
      BY <1>1, <1>2, <1>3, <1>6 DEF PushTail, ring
    <2> QED BY <2>1, KeptSame DEF Lost, Inv, TypeOK
  <1>7. CASE PushSize(p) \/ PushCopy(p) \/ PushCopied(p)
    <2>1. /\ UNCHANGED <<head, tail, refused, taken>> /\ ~Refusing /\ ~Refusing'
      BY <1>1, <1>2, <1>3, <1>7 DEF PushSize, PushCopy, PushCopied
    <2>2. pTail[p] = tail /\ data \in [Slots -> 0..Torn]
      BY <1>7 DEF PushSize, PushCopy, PushCopied, Inv, RoomLeft, Busy, TypeOK
    <2>3. \A s \in Slots \ {tail} : data'[s] = data[s]
      BY <1>7, <2>2 DEF PushSize, PushCopy, PushCopied
    <2> QED BY <2>1, <2>3, KeptSame DEF Lost
  <1>8. CASE PushPublish(p)
    <2>1. /\ UNCHANGED <<head, data, refused, taken>> /\ ~Refusing /\ ~Refusing'
          /\ tail' = Succ(pTail[p]) /\ ppc[p] = "publish"
      BY <1>1, <1>2, <1>3, <1>8 DEF PushPublish
    <2>2. /\ pTail[p] = tail /\ Dist(head, tail) < SlotCount - 1
          /\ data[tail] = frame[p] /\ frame[p] \in 1..MaxFrames
      BY <2>1 DEF Inv, RoomLeft, Busy, Written, Locals
    <2>3. head' \in Slots /\ tail' \in Slots
      BY <2>1, <2>2, KeptFrames, SuccSlot
    <2>4. Kept' = Append(Kept, data[tail])
      BY <2>1, <2>2, <2>3, KeptFrames, KeptIsNext, QueueLonger
    <2>5. Len(Kept) < SlotCount - 1 /\ data[tail] \in 1..MaxFrames
      BY <2>2, KeptFrames
    <2> QED BY <2>1, <2>4, <2>5 DEF Fifo!Keep, Kept, Lost
  <1> QED BY <1>4, <1>5, <1>6, <1>7, <1>8 DEF PushNext

(* pop() hands over the oldest frame where it stores head. *)
LEMMA AdvanceMaps ==
  ASSUME Inv, PopAdvance
  PROVE  Fifo!Receive
  <1>1. /\ UNCHANGED <<tail, data, refused, ppc, pHead>>
        /\ head' = Succ(cHead) /\ taken' = cData /\ cpc = "advance"
    BY DEF PopAdvance, producer
  <1>2. cHead = head /\ head # tail /\ cData = data[head]
    BY <1>1 DEF Inv, ReadsHead, Reading, ReadSoFar
  <1>3. head' \in Slots /\ tail' \in Slots
    BY <1>1, <1>2, KeptFrames, SuccSlot
  <1>4. Kept # << >> /\ Head(Kept) = data[head] /\ Kept' = Tail(Kept)
    BY <1>1, <1>2, <1>3, KeptFrames, KeptIsNext, QueueShorter
  <1>5. Lost' = Lost
    BY <1>1 DEF Lost, Refusing, RingFull
  <1> QED BY <1>1, <1>2, <1>4, <1>5 DEF Fifo!Receive, Kept, Lost

(* Nothing else is seen from outside. *)
LEMMA OtherMaps ==
  ASSUME Inv,
         \/ Start \/ PluginStart \/ LoopTest \/ PassOn \/ PluginStop \/ PluginJoin
         \/ StopRequest \/ StopCancel \/ StopJoin
         \/ PopLoad \/ PopEmpty \/ PopReload \/ PopSize \/ PopCopy \/ PopCopied
         \/ UNCHANGED vars
  PROVE  UNCHANGED <<Kept, Lost, taken>>
  <1>1. UNCHANGED <<head, tail, data, refused, taken, ppc, pHead>>
    BY DEF Start, PluginStart, LoopTest, PassOn, PluginStop, PluginJoin, StopRequest, StopCancel,
           StopJoin, PopLoad, PopEmpty, PopReload, PopSize, PopCopy, PopCopied, vars, ring,
           producer, consumer
  <1>2. Kept' = Kept
    BY <1>1, KeptSame
  <1> QED BY <1>1, <1>2 DEF Lost, Refusing, RingFull

(* Every step of the ring is a step of the buffer or none. *)
LEMMA StepMaps == SingleProducer /\ Inv /\ [Next]_vars => [Fifo!Next]_(Fifo!vars)
  <1> SUFFICES ASSUME SingleProducer, Inv, [Next]_vars PROVE [Fifo!Next]_(Fifo!vars)
    OBVIOUS
  <1>1. UNCHANGED <<Kept, Lost, taken>> => UNCHANGED Fifo!vars
    BY DEF Fifo!vars, Kept, Lost
  <1>2. CASE \E p \in Producers : PushOversize(p) \/ PushHead(p) \/ PushNext(p)
    BY <1>1, <1>2, PushMaps DEF Fifo!Next
  <1>3. CASE PopAdvance
    BY <1>3, AdvanceMaps DEF Fifo!Next
  <1>4. CASE \/ Start \/ PluginStart \/ LoopTest \/ PassOn \/ PluginStop \/ PluginJoin
             \/ StopRequest \/ StopCancel \/ StopJoin
             \/ PopLoad \/ PopEmpty \/ PopReload \/ PopSize \/ PopCopy \/ PopCopied
             \/ UNCHANGED vars
    BY <1>1, <1>4, OtherMaps
  <1> QED BY <1>2, <1>3, <1>4 DEF Next, CaptureLoop

(* The ring of any size is a bounded buffer that keeps the order: a frame pushed is    *)
(* kept behind the others or refused and counted, refused only when SlotCount - 1     *)
(* frames are kept, and frames come out as they went in (ShmRing.cpp:34-87).          *)
THEOREM CaptureRingFifo ==
  ASSUME SingleProducer
  PROVE  Spec => ImplementsFifo
  <1>1. Init => Fifo!Init
    BY InitMaps DEF Fifo!Init, Kept, Lost
  <1>2. Inv /\ [Next]_vars => [Fifo!Next]_(Fifo!vars)
    BY StepMaps
  <1> QED BY <1>1, <1>2, InitInv, StepInv, PTL DEF Spec, ImplementsFifo, Fifo!Spec
=============================================================================
