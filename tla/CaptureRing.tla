----------------------------- MODULE CaptureRing -----------------------------
(***************************************************************************)
(* The way of a frame out of the input plugin: its threads push into the   *)
(* shared-memory ring (core/src/ShmRing.cpp), the capture thread pops      *)
(* (core/src/CaptureThread.cpp).  Nothing is locked, so every access to    *)
(* shared memory is a step of its own and a memcpy is two: a copy that     *)
(* overlaps another of the same slot, one of them writing, is torn.  The   *)
(* loads and stores of head and tail are acquire and release, which makes  *)
(* interleaving faithful to the memory order.                              *)
(*                                                                         *)
(* Frames are named by the order in which they are offered.  A slot's size *)
(* and its bytes are both named by the frame they belong to.               *)
(***************************************************************************)
EXTENDS Naturals, Sequences

CONSTANTS SlotCount,    \* constructor argument slotCount
          Producers,    \* threads of the input plugin that push
          Oversize,     \* frames larger than a slot
          Bare,         \* frames of a header and no payload
          MaxFrames     \* bound: frames offered

ASSUME CaptureRingAssumption ==
    /\ SlotCount \in Nat \ {0, 1} /\ MaxFrames \in Nat
    /\ Oversize \subseteq Nat /\ Bare \subseteq Nat

Slots == 0..SlotCount - 1
Torn == MaxFrames + 1   \* the bytes of a slot being written

VARIABLES head, tail,   \* the ring's header
          sizes, data,  \* each slot's size and bytes: the frame they belong to, or 0
          cancelled,    \* cancelled_
          ppc,          \* where each producer is in push()
          frame,        \* the frame it pushes
          pHead, pTail, \* its locals head and tail
          cpc,          \* where the capture thread is
          cHead, cTail, \* pop()'s locals head and tail
          cSize, cData, \* what it has read of the slot
          offered, refused,
          taken,        \* the frame last popped
          passedOn,     \* the frame last sent and delivered downstream
          running,      \* CaptureThread::running_
          plugin,       \* the input plugin is started
          spc           \* where CaptureThread::stop() is

ring == <<head, tail, sizes, data>>
producer == <<ppc, frame, pHead, pTail, offered, refused>>
consumer == <<cHead, cTail, cSize, cData, taken, passedOn>>
control == <<cancelled, running, plugin, spc>>
vars == <<ring, producer, consumer, control, cpc>>

Init == /\ head = 0 /\ tail = 0
        /\ sizes = [s \in Slots |-> 0] /\ data = [s \in Slots |-> 0]
        /\ cancelled = FALSE
        /\ ppc = [p \in Producers |-> "idle"] /\ frame = [p \in Producers |-> 0]
        /\ pHead = [p \in Producers |-> 0] /\ pTail = [p \in Producers |-> 0]
        /\ cpc = "none" /\ cHead = 0 /\ cTail = 0 /\ cSize = 0 /\ cData = 0
        /\ offered = 0 /\ refused = 0 /\ taken = 0 /\ passedOn = 0
        /\ running = FALSE /\ plugin = FALSE /\ spc = "idle"

(* Mutation: the index does not wrap. *)
SuccUnwrapped(i) == i + 1

(* The next slot of the ring. *)
Succ(i) == (i + 1) % SlotCount

-----------------------------------------------------------------------------
(* push(), by a thread of the input plugin through host_api_on_frame_adapter, which  *)
(* ignores its result.                                                               *)

(* A frame that fits no slot is refused before the ring is looked at. *)
PushOversize(p) ==
    /\ ppc[p] = "idle" /\ plugin /\ offered < MaxFrames
    /\ offered + 1 \in Oversize
    /\ offered' = offered + 1
    /\ UNCHANGED <<ring, ppc, frame, pHead, pTail, refused, consumer, control, cpc>>

(* head is loaded, ... *)
PushHead(p) ==
    /\ ppc[p] = "idle" /\ plugin /\ offered < MaxFrames
    /\ offered + 1 \notin Oversize
    /\ offered' = offered + 1
    /\ frame' = [frame EXCEPT ![p] = offered + 1]
    /\ pHead' = [pHead EXCEPT ![p] = head]
    /\ ppc' = [ppc EXCEPT ![p] = "tail"]
    /\ UNCHANGED <<ring, pTail, refused, consumer, control, cpc>>

(* Mutation: a full ring is not noticed. *)
RingFullIgnored(t, h) == FALSE

RingFull(t, h) == Succ(t) = h

(* ... then tail, and the push fails when the ring is full. *)
PushTail(p) ==
    /\ ppc[p] = "tail"
    /\ pTail' = [pTail EXCEPT ![p] = tail]
    /\ IF RingFull(tail, pHead[p])
         THEN ppc' = [ppc EXCEPT ![p] = "idle"] /\ refused' = refused + 1
         ELSE ppc' = [ppc EXCEPT ![p] = "size"] /\ UNCHANGED refused
    /\ UNCHANGED <<ring, frame, pHead, offered, consumer, control, cpc>>

PushSize(p) ==
    /\ ppc[p] = "size"
    /\ sizes' = [sizes EXCEPT ![pTail[p]] = frame[p]]
    /\ ppc' = [ppc EXCEPT ![p] = "copy"]
    /\ UNCHANGED <<head, tail, data, frame, pHead, pTail, offered, refused, consumer,
                   control, cpc>>

PushCopy(p) ==
    /\ ppc[p] = "copy"
    /\ data' = [data EXCEPT ![pTail[p]] = Torn]
    /\ ppc' = [ppc EXCEPT ![p] = "copying"]
    /\ UNCHANGED <<head, tail, sizes, frame, pHead, pTail, offered, refused, consumer,
                   control, cpc>>

(* Mutation: tail is stored before the bytes are copied. *)
PublishedEarly(p) ==
    /\ ppc[p] = "copying"
    /\ tail' = Succ(pTail[p])
    /\ ppc' = [ppc EXCEPT ![p] = "publish"]
    /\ UNCHANGED <<head, sizes, data, frame, pHead, pTail, offered, refused, consumer,
                   control, cpc>>

PushCopied(p) ==
    /\ ppc[p] = "copying"
    /\ data' = [data EXCEPT ![pTail[p]] = frame[p]]
    /\ ppc' = [ppc EXCEPT ![p] = "publish"]
    /\ UNCHANGED <<head, tail, sizes, frame, pHead, pTail, offered, refused, consumer,
                   control, cpc>>

(* tail is stored: the frame is in the ring. *)
PushPublish(p) ==
    /\ ppc[p] = "publish"
    /\ tail' = Succ(pTail[p])
    /\ ppc' = [ppc EXCEPT ![p] = "idle"]
    /\ UNCHANGED <<head, sizes, data, frame, pHead, pTail, offered, refused, consumer,
                   control, cpc>>

PushNext(p) == \/ PushTail(p) \/ PushSize(p) \/ PushCopy(p) \/ PushCopied(p)
               \/ PushPublish(p)

-----------------------------------------------------------------------------
(* The capture thread: start(), run() and the pop() it calls. *)

Start == /\ cpc = "none"
         /\ running' = TRUE /\ cpc' = "start"
         /\ UNCHANGED <<ring, producer, consumer, cancelled, plugin, spc>>

(* run() starts the input plugin itself; its threads may push at once. *)
PluginStart == /\ cpc = "start"
               /\ plugin' = TRUE /\ cpc' = "loop"
               /\ UNCHANGED <<ring, producer, consumer, cancelled, running, spc>>

LoopTest == /\ cpc = "loop"
            /\ cpc' = IF running THEN "pop" ELSE "stopPlugin"
            /\ UNCHANGED <<ring, producer, consumer, control>>

(* pop() loads head, which only this thread stores, and tail. *)
PopLoad == /\ cpc = "pop"
           /\ cHead' = head /\ cTail' = tail
           /\ cpc' = IF head = tail THEN "empty" ELSE "size"
           /\ UNCHANGED <<ring, producer, cSize, cData, taken, passedOn, control>>

(* While empty: return false if cancelled (and the loop sleeps), else sleep, ... *)
PopEmpty == /\ cpc = "empty"
            /\ cpc' = IF cancelled THEN "loop" ELSE "reload"
            /\ UNCHANGED <<ring, producer, consumer, control>>

(* Mutation: pop() waits on the tail it first loaded. *)
ReloadForgotten == /\ cpc = "reload"
                   /\ cpc' = "empty"
                   /\ UNCHANGED <<ring, producer, consumer, control>>

(* ... and load tail again. *)
PopReload == /\ cpc = "reload"
             /\ cTail' = tail
             /\ cpc' = IF cHead = tail THEN "empty" ELSE "size"
             /\ UNCHANGED <<ring, producer, cHead, cSize, cData, taken, passedOn, control>>

PopSize == /\ cpc = "size"
           /\ cSize' = sizes[cHead]
           /\ cpc' = "copy"
           /\ UNCHANGED <<ring, producer, cHead, cTail, cData, taken, passedOn, control>>

PopCopy == /\ cpc = "copy"
           /\ cData' = data[cHead]
           /\ cpc' = "copying"
           /\ UNCHANGED <<ring, producer, cHead, cTail, cSize, taken, passedOn, control>>

(* The bytes read are a frame's only if the slot was not written meanwhile. *)
PopCopied == /\ cpc = "copying"
             /\ cData' = IF data[cHead] = cData THEN cData ELSE Torn
             /\ cpc' = "advance"
             /\ UNCHANGED <<ring, producer, cHead, cTail, cSize, taken, passedOn, control>>

(* head is stored: the slot is free again, and pop() returns true. *)
PopAdvance == /\ cpc = "advance"
              /\ head' = Succ(cHead)
              /\ taken' = cData
              /\ cpc' = "popped"
              /\ UNCHANGED <<tail, sizes, data, producer, cHead, cTail, cSize, cData,
                             passedOn, control>>

(* sendMedia, and deliver to every stage; a frame without payload is skipped. *)
PassOn == /\ cpc = "popped"
          /\ passedOn' = IF cSize \in Bare THEN passedOn ELSE taken
          /\ cpc' = "loop"
          /\ UNCHANGED <<ring, producer, cHead, cTail, cSize, cData, taken, control>>

(* The loop is left and the plugin stopped: it ends its threads and joins them. *)
PluginStop == /\ cpc = "stopPlugin"
              /\ plugin' = FALSE /\ cpc' = "joinPlugin"
              /\ UNCHANGED <<ring, producer, consumer, cancelled, running, spc>>

PluginJoin == /\ cpc = "joinPlugin" /\ \A p \in Producers : ppc[p] = "idle"
              /\ cpc' = "exited"
              /\ UNCHANGED <<ring, producer, consumer, control>>

CaptureLoop == \/ PluginStart \/ LoopTest \/ PopLoad \/ PopEmpty \/ PopReload \/ PopSize
               \/ PopCopy \/ PopCopied \/ PopAdvance \/ PassOn \/ PluginStop \/ PluginJoin

-----------------------------------------------------------------------------
(* CaptureThread::stop(), by the main thread *)

StopRequest == /\ spc = "idle" /\ running
               /\ running' = FALSE /\ spc' = "cancel"
               /\ UNCHANGED <<ring, producer, consumer, cpc, cancelled, plugin>>

(* Mutation: stop() does not cancel pop(). *)
CancelForgotten == /\ spc = "cancel"
                   /\ spc' = "join"
                   /\ UNCHANGED <<ring, producer, consumer, cpc, cancelled, running, plugin>>

StopCancel == /\ spc = "cancel"
              /\ cancelled' = TRUE /\ spc' = "join"
              /\ UNCHANGED <<ring, producer, consumer, cpc, running, plugin>>

StopJoin == /\ spc = "join" /\ cpc = "exited"
            /\ spc' = "done"
            /\ UNCHANGED <<ring, producer, consumer, cpc, cancelled, running, plugin>>

Next == \/ \E p \in Producers : PushOversize(p) \/ PushHead(p) \/ PushNext(p)
        \/ Start \/ CaptureLoop
        \/ StopRequest \/ StopCancel \/ StopJoin

Spec == Init /\ [][Next]_vars

(* Threads that can run do run; nothing makes the plugin offer a frame. *)
Fairness == /\ \A p \in Producers : WF_vars(PushNext(p))
            /\ WF_vars(CaptureLoop)
            /\ WF_vars(StopCancel) /\ WF_vars(StopJoin)

FairSpec == Spec /\ Fairness

-----------------------------------------------------------------------------
(* The slots from head to tail, oldest first. *)
Used == (tail + SlotCount - head) % SlotCount
Slot(i) == (head + i - 1) % SlotCount

TypeOK == /\ head \in Slots /\ tail \in Slots
          /\ sizes \in [Slots -> 0..MaxFrames] /\ data \in [Slots -> 0..Torn]
          /\ \A p \in Producers : frame[p] \in 0..MaxFrames /\ pHead[p] \in Slots
                                    /\ pTail[p] \in Slots
          /\ cHead \in Slots /\ cTail \in Slots
          /\ offered \in 0..MaxFrames /\ refused \in 0..offered
          /\ taken \in 0..Torn /\ passedOn \in 0..Torn

(* No two threads are at work in one slot, one of them writing: neither the size    *)
(* nor the bytes the capture thread reads can change under it, with no lock in the  *)
(* ring (ShmRing.cpp:42-49, 71-85).                                                 *)
NoDataRace ==
    \A p \in Producers : ppc[p] \in {"size", "copy", "copying", "publish"} =>
        /\ cpc \in {"size", "copy", "copying", "advance"} => pTail[p] # cHead
        /\ \A q \in Producers \ {p} :
              ppc[q] \in {"size", "copy", "copying", "publish"} => pTail[p] # pTail[q]

(* What is popped is one pushed frame, its size with its own bytes: "Store actual    *)
(* size for this slot ... copy data into slot" (ShmRing.cpp:43-47, 76-81).           *)
PoppedWhole == cpc \in {"advance", "popped"} => (cSize = cData /\ cData \in 1..MaxFrames)

(* A push that has seen the ring full is bound to fail, though a slot may be freed   *)
(* before it returns: it counts as refused from the moment it loads head.            *)
Refusing == \E p \in Producers : ppc[p] = "tail" /\ RingFull(tail, pHead[p])

(* The ring implements a bounded first-in first-out buffer of SlotCount-1 frames:    *)
(* none is lost, repeated, torn or reordered, and none refused while there is room.  *)
Fifo == INSTANCE FrameFifo WITH
            Cap <- SlotCount - 1,
            Frames <- 1..MaxFrames,
            kept <- [i \in 1..Used |-> data[Slot(i)]],
            refused <- refused + (IF Refusing THEN 1 ELSE 0),
            received <- taken

ImplementsFifo == Fifo!Spec

(* A frame that is in the ring is popped, unless the capture is stopped: the waiting *)
(* pop() notices every publish (ShmRing.cpp:69-73).                                  *)
PushedFramePopped ==
    \A f \in 1..MaxFrames :
        (running /\ \E i \in 1..Used : data[Slot(i)] = f) ~> (~running \/ taken = f)

(* "A blocked pop() on an empty ring must return false when cancel() is called, so a *)
(* consumer loop can exit cleanly on shutdown instead of hanging"                    *)
(* (test_shmring.cpp:41-42): a stop() that was called returns, whenever it comes.    *)
StopReturns == (spc # "idle") ~> (spc = "done")
=============================================================================
