-------------------------- MODULE StageRunnerProofs --------------------------
(***************************************************************************)
(* Safety of StageRunner for every queue depth, set of delivering threads  *)
(* and number of frames.                                                   *)
(*                                                                         *)
(* TypeOK, Freshest and Accounting are inductive together: a drop or a pop *)
(* keeps the queue an interval of frame numbers only because it was one,   *)
(* and the counters balance only because the queue shrinks by one exactly  *)
(* when one of them, or the worker's hand, grows.  What TLC adds by        *)
(* exploring, the proof needs as two more conjuncts: the worker pops only  *)
(* from a queue that has a frame (PopHasFrame), since between the          *)
(* predicate and the pop nobody else holds mutex_; and no worker exists    *)
(* before start() (NoWorkerYet).                                           *)
(***************************************************************************)
EXTENDS StageRunner, TLAPS

(* Between the wait and the pop the queue is non-empty, unless stop() was called: *)
(* the predicate still holds because mutex_ is held (StageRunner.cpp:50-53).      *)
PopHasFrame == wpc = "woken" => (queue # << >> \/ ~running)

(* There is no worker before start() (StageRunner.cpp:15-16). *)
NoWorkerYet == (~running /\ spc = "idle") => wpc = "none"

Inv == TypeOK /\ Freshest /\ Accounting /\ PopHasFrame /\ NoWorkerYet

(* max_depth_ is at least one, whatever depth is configured (StageRunner.cpp:8). *)
LEMMA MaxDepthPos == MaxDepth \in Nat /\ MaxDepth >= 1
  BY QueueDepthAssumption DEF MaxDepth

(* Popping the front of a non-empty queue of numbers leaves the rest, shifted by one. *)
LEMMA TailProperties ==
  ASSUME NEW s \in Seq(Nat), s # << >>
  PROVE  /\ Head(s) = s[1]
         /\ Tail(s) \in Seq(Nat)
         /\ Len(s) \in Nat /\ Len(s) >= 1
         /\ Len(Tail(s)) = Len(s) - 1
         /\ \A i \in 1..Len(Tail(s)) : Tail(s)[i] = s[i + 1]
  OBVIOUS

(* Pushing at the back adds one element and keeps the others in place. *)
LEMMA AppendProperties ==
  ASSUME NEW s \in Seq(Nat), NEW x \in Nat
  PROVE  /\ Append(s, x) \in Seq(Nat)
         /\ Len(s) \in Nat
         /\ Len(Append(s, x)) = Len(s) + 1
         /\ \A i \in 1..Len(s) : Append(s, x)[i] = s[i]
         /\ Append(s, x)[Len(s) + 1] = x
  OBVIOUS

LEMMA InitInv == Init => Inv
  <1> SUFFICES ASSUME Init PROVE Inv
    OBVIOUS
  <1> USE DEF Init
  <1>0. << >> \in Seq(Nat) /\ Len(<< >>) = 0
    OBVIOUS
  <1>1. TypeOK
    <2>1. queue \in Seq(Nat) /\ Len(queue) <= MaxDepth
      BY <1>0, MaxDepthPos
    <2> QED BY <2>1 DEF TypeOK, WorkerPCs
  <1>2. Freshest
    BY DEF Freshest
  <1>3. Accounting
    BY DEF Accounting, InHand
  <1>4. PopHasFrame /\ NoWorkerYet
    BY DEF PopHasFrame, NoWorkerYet
  <1> QED BY <1>1, <1>2, <1>3, <1>4 DEF Inv

(* deliver() keeps the queue within its depth, freshest, and the counters balanced. *)
LEMMA DeliverInv ==
  ASSUME Inv, NEW d \in Deliverers, Deliver(d)
  PROVE  Inv'
  <1> USE DEF Inv, Deliver
  <1>0. /\ MaxDepth \in Nat /\ MaxDepth >= 1 /\ MaxDepth' = MaxDepth
        /\ queue \in Seq(Nat) /\ Len(queue) \in Nat /\ Len(queue) <= MaxDepth
        /\ delivered \in Nat /\ dropped \in Nat /\ processed \in Nat
    BY MaxDepthPos DEF TypeOK
  <1>1. CASE Len(queue) >= MaxDepth
    <2>1. queue # << >>
      BY <1>0, <1>1
    <2> DEFINE rest == Tail(queue)
    <2>2. /\ rest \in Seq(Nat) /\ Len(rest) = Len(queue) - 1
          /\ \A i \in 1..Len(rest) : rest[i] = queue[i + 1]
      BY <1>0, <2>1, TailProperties
    <2>3. queue' = Append(rest, delivered + 1) /\ dropped' = dropped + 1
      BY <1>1
    <2> HIDE DEF rest
    <2>4. /\ queue' \in Seq(Nat) /\ Len(queue') = Len(rest) + 1
          /\ \A i \in 1..Len(rest) : queue'[i] = rest[i]
          /\ queue'[Len(rest) + 1] = delivered + 1
      BY <1>0, <2>2, <2>3, AppendProperties
    <2>5. TypeOK'
      BY <1>0, <2>2, <2>3, <2>4 DEF TypeOK
    <2>6. Freshest'
      <3>1. Len(queue') = Len(queue) /\ delivered' = delivered + 1
        BY <1>0, <2>2, <2>4
      <3> SUFFICES ASSUME NEW i \in 1..Len(queue')
                   PROVE  queue'[i] = delivered' - Len(queue') + i
        BY DEF Freshest
      <3>2. CASE i \in 1..Len(rest)
        <4>1. queue'[i] = queue[i + 1] /\ i + 1 \in 1..Len(queue)
          BY <1>0, <2>2, <2>4, <3>2
        <4> QED BY <1>0, <3>1, <4>1 DEF Freshest
      <3>3. CASE i = Len(rest) + 1
        BY <1>0, <2>2, <2>4, <3>1, <3>3
      <3> QED BY <1>0, <2>2, <2>4, <3>2, <3>3
    <2>7. Accounting'
      <3>1. InHand' = InHand /\ InHand \in Nat
        BY DEF InHand
      <3>2. /\ Len(queue') = Len(queue) /\ delivered' = delivered + 1
            /\ dropped' = dropped + 1 /\ processed' = processed
        BY <1>0, <2>2, <2>3, <2>4
      <3> QED BY <1>0, <3>1, <3>2 DEF Accounting
    <2>8. PopHasFrame' /\ NoWorkerYet'
      BY DEF PopHasFrame, MutexFree, NoWorkerYet
    <2> QED BY <2>5, <2>6, <2>7, <2>8
  <1>2. CASE ~(Len(queue) >= MaxDepth)
    <2>1. queue' = Append(queue, delivered + 1) /\ dropped' = dropped
      BY <1>2
    <2>2. /\ queue' \in Seq(Nat) /\ Len(queue') = Len(queue) + 1
          /\ \A i \in 1..Len(queue) : queue'[i] = queue[i]
          /\ queue'[Len(queue) + 1] = delivered + 1
      BY <1>0, <2>1, AppendProperties
    <2>3. TypeOK'
      BY <1>0, <1>2, <2>1, <2>2 DEF TypeOK
    <2>4. Freshest'
      BY <1>0, <2>1, <2>2 DEF Freshest
    <2>5. Accounting'
      BY <1>0, <2>1, <2>2 DEF Accounting, InHand
    <2>6. PopHasFrame' /\ NoWorkerYet'
      BY DEF PopHasFrame, MutexFree, NoWorkerYet
    <2> QED BY <2>3, <2>4, <2>5, <2>6
  <1> QED BY <1>1, <1>2

(* The pop moves the oldest frame into the worker's hand and leaves the rest. *)
LEMMA PopInv ==
  ASSUME Inv, Pop
  PROVE  Inv'
  <1> USE DEF Inv, Pop
  <1>1. queue # << >>
    BY DEF PopHasFrame
  <1>2. /\ MaxDepth \in Nat /\ MaxDepth' = MaxDepth
        /\ queue \in Seq(Nat) /\ Len(queue) <= MaxDepth
        /\ delivered \in Nat /\ dropped \in Nat /\ processed \in Nat
    BY MaxDepthPos DEF TypeOK
  <1>3. /\ Head(queue) = queue[1] /\ Len(queue) \in Nat /\ Len(queue) >= 1
        /\ queue' \in Seq(Nat) /\ Len(queue') = Len(queue) - 1
        /\ \A i \in 1..Len(queue') : queue'[i] = queue[i + 1]
    BY <1>1, <1>2, TailProperties
  <1>4. current' \in Nat
    BY <1>2, <1>3
  <1>5. TypeOK'
    BY <1>2, <1>3, <1>4 DEF TypeOK, WorkerPCs
  <1>6. Freshest'
    BY <1>2, <1>3 DEF Freshest
  <1>7. Accounting'
    BY <1>2, <1>3 DEF Accounting, InHand
  <1>8. PopHasFrame' /\ NoWorkerYet'
    BY DEF PopHasFrame, NoWorkerYet
  <1> QED BY <1>5, <1>6, <1>7, <1>8

(* No other step touches the queue; stop() may invalidate only running. *)
LEMMA OtherStepsInv ==
  ASSUME Inv,
         \/ Start \/ (\E d \in Deliverers : Notify(d)) \/ LoopTest \/ Check \/ Block
         \/ SpuriousWakeup \/ Abandon \/ OnFrameDone
         \/ StopRequest \/ StopNotify \/ StopJoin
  PROVE  Inv'
  <1> USE DEF Inv, TypeOK, Freshest, Accounting, InHand, PopHasFrame, NoWorkerYet,
              WorkerPCs, NotifyWorker
  <1>0. MaxDepth' = MaxDepth
    BY DEF MaxDepth
  <1>1. CASE Start
    BY <1>0, <1>1 DEF Start
  <1>2. ASSUME NEW d \in Deliverers, Notify(d) PROVE Inv'
    BY <1>0, <1>2 DEF Notify
  <1>3. CASE LoopTest
    BY <1>0, <1>3 DEF LoopTest
  <1>4. CASE Check
    BY <1>0, <1>4 DEF Check
  <1>5. CASE Block
    BY <1>0, <1>5 DEF Block
  <1>6. CASE SpuriousWakeup
    BY <1>0, <1>6 DEF SpuriousWakeup
  <1>7. CASE Abandon
    BY <1>0, <1>7 DEF Abandon
  <1>8. CASE OnFrameDone
    BY <1>0, <1>8 DEF OnFrameDone
  <1>9. CASE StopRequest
    BY <1>0, <1>9 DEF StopRequest
  <1>10. CASE StopNotify
    BY <1>0, <1>10 DEF StopNotify
  <1>11. CASE StopJoin
    BY <1>0, <1>11 DEF StopJoin
  <1> QED BY <1>1, <1>2, <1>3, <1>4, <1>5, <1>6, <1>7, <1>8, <1>9, <1>10, <1>11

(* The step lemma over the whole next-state relation. *)
LEMMA StepInv == Inv /\ [Next]_vars => Inv'
  <1> SUFFICES ASSUME Inv, [Next]_vars PROVE Inv'
    OBVIOUS
  <1>1. CASE \E d \in Deliverers : Deliver(d)
    BY <1>1, DeliverInv
  <1>2. CASE Pop
    BY <1>2, PopInv
  <1>3. CASE UNCHANGED vars
    BY <1>3 DEF vars, Inv, TypeOK, Freshest, Accounting, InHand, PopHasFrame,
                 NoWorkerYet, MaxDepth
  <1> QED BY <1>1, <1>2, <1>3, OtherStepsInv DEF Next, Worker

(* The queue bound, the freshest-frames window and the frame accounting hold in     *)
(* every behaviour of a stage.                                                      *)
THEOREM StageRunnerSafe == Spec => [](TypeOK /\ Freshest /\ Accounting)
  <1>1. Inv => TypeOK /\ Freshest /\ Accounting
    BY DEF Inv
  <1> QED BY InitInv, StepInv, <1>1, PTL DEF Spec

(* Every behaviour of a stage is one of the queue it promises: every step is a put, *)
(* a take, or leaves the promised queue unchanged.                                  *)
THEOREM StageRunnerRefines == Spec => ImplementsDropQueue
  <1>1. Init => Promise!Init
    BY DEF Init, Promise!Init
  <1>2. ASSUME Inv, [Next]_vars PROVE [Promise!Next]_Promise!vars
    <2> USE <1>2 DEF Inv
    <2>0. /\ queue \in Seq(Nat) /\ Len(queue) \in Nat /\ delivered \in Nat
          /\ Len(queue) <= MaxDepth /\ MaxDepth \in Nat /\ MaxDepth >= 1
          /\ dropped \in Nat
      BY MaxDepthPos DEF TypeOK
    <2>1. ASSUME NEW d \in Deliverers, Deliver(d) PROVE Promise!Put
      <3>1. CASE Len(queue) >= MaxDepth
        <4>1. /\ Tail(queue) \in Seq(Nat) /\ Len(Tail(queue)) = Len(queue) - 1
          BY <2>0, <3>1, TailProperties
        <4>2. queue' = Append(Tail(queue), delivered + 1) /\ dropped' = dropped + 1
          BY <2>1, <3>1 DEF Deliver
        <4>3. Len(queue') = Len(queue)
          BY <2>0, <4>1, <4>2, AppendProperties
        <4>4. delivered' = delivered + 1 /\ current' = current
          BY <2>1 DEF Deliver
        <4>5. Promise!Full
          BY <2>0, <3>1 DEF Promise!Full
        <4>6. delivered' - Len(queue') + 1 = (delivered - Len(queue) + 1) + 1
          BY <2>0, <4>3, <4>4
        <4> QED BY <4>2, <4>4, <4>5, <4>6 DEF Promise!Put
      <3>2. CASE ~(Len(queue) >= MaxDepth)
        <4>1. queue' = Append(queue, delivered + 1) /\ dropped' = dropped
          BY <2>1, <3>2 DEF Deliver
        <4>2. Len(queue') = Len(queue) + 1
          BY <2>0, <4>1, AppendProperties
        <4>3. delivered' = delivered + 1 /\ current' = current
          BY <2>1 DEF Deliver
        <4>4. ~Promise!Full
          BY <2>0, <3>2 DEF Promise!Full
        <4>5. delivered' - Len(queue') + 1 = delivered - Len(queue) + 1
          BY <2>0, <4>2, <4>3
        <4> QED BY <4>1, <4>3, <4>4, <4>5 DEF Promise!Put
      <3> QED BY <3>1, <3>2
    <2>2. CASE Pop
      <3>1. queue # << >>
        BY <2>2 DEF Pop, PopHasFrame
      <3>2. Head(queue) = queue[1] /\ Len(queue) >= 1 /\ Len(Tail(queue)) = Len(queue) - 1
        BY <2>0, <3>1, TailProperties
      <3>3. queue[1] = delivered - Len(queue) + 1
        BY <2>0, <3>2 DEF Freshest
      <3>4. /\ queue' = Tail(queue) /\ current' = Head(queue)
            /\ delivered' = delivered /\ dropped' = dropped
        BY <2>2 DEF Pop
      <3>5. current' = delivered - Len(queue) + 1
        BY <3>2, <3>3, <3>4
      <3>6. delivered' - Len(queue') + 1 = (delivered - Len(queue) + 1) + 1
        <4>1. Len(queue') = Len(queue) - 1 /\ delivered' = delivered
          BY <3>2, <3>4
        <4> QED BY <2>0, <4>1
      <3>7. delivered - Len(queue) + 1 <= delivered
        BY <2>0, <3>2
      <3>8. Promise!Take
        BY <3>4, <3>5, <3>6, <3>7 DEF Promise!Take
      <3> QED BY <3>8 DEF Promise!Next
    <2>3. CASE UNCHANGED <<queue, delivered, dropped, current>>
      BY <2>3 DEF Promise!vars
    <2>4. ASSUME \/ Start \/ (\E d \in Deliverers : Notify(d)) \/ LoopTest \/ Check
                 \/ Block \/ SpuriousWakeup \/ Abandon \/ OnFrameDone
                 \/ StopRequest \/ StopNotify \/ StopJoin \/ UNCHANGED vars
          PROVE  UNCHANGED <<queue, delivered, dropped, current>>
      BY <2>4 DEF Start, Notify, LoopTest, Check, Block, SpuriousWakeup, Abandon,
                  OnFrameDone, StopRequest, StopNotify, StopJoin, vars
    <2> QED BY <2>1, <2>2, <2>3, <2>4 DEF Next, Worker, Promise!Next
  <1>3. Spec => []Inv
    BY InitInv, StepInv, PTL DEF Spec
  <1> QED BY <1>1, <1>2, <1>3, PTL DEF Spec, ImplementsDropQueue, Promise!Spec
=============================================================================
