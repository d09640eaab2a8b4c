----------------------------- MODULE StageRunner -----------------------------
(***************************************************************************)
(* One pipeline stage (core/src/StageRunner.cpp): a plugin that runs on    *)
(* its own thread behind a bounded, drop-oldest queue.                     *)
(*                                                                         *)
(* Threads: the Deliverers call deliver() (the parent stage's thread or    *)
(* the capture thread, and a plugin's own helper threads), the worker runs *)
(* run(), and the owner calls start() and stop().  mutex_ is held over     *)
(* whole critical sections, so deliver()'s push is one step; but the worker *)
(* evaluates the predicate of cv_.wait and blocks in two steps, because    *)
(* stop() writes running_ and notifies WITHOUT mutex_ and can come between *)
(* the two.  Frames are named by the order in which they are delivered.    *)
(***************************************************************************)
EXTENDS Naturals, Sequences

CONSTANTS QueueDepth,   \* constructor argument max_depth
          Deliverers,   \* threads that call deliver()
          MaxFrames     \* bound: deliver() calls in a behaviour

ASSUME QueueDepthAssumption == QueueDepth \in Nat
ASSUME MaxFramesAssumption == MaxFrames \in Nat

(* max_depth_(max_depth ? max_depth : 1) *)
MaxDepth == IF QueueDepth = 0 THEN 1 ELSE QueueDepth

VARIABLES running,      \* running_
          queue,        \* queue_
          wpc,          \* the worker: where run() is
          current,      \* item: the frame last popped, 0 before the first pop
          dpc,          \* each deliverer: "idle" or "notify"
          spc,          \* the owner: where stop() is
          delivered,    \* frames pushed so far
          dropped,      \* dropped_
          processed     \* processed_

vars == <<running, queue, wpc, current, dpc, spc, delivered, dropped, processed>>

WorkerPCs == {"none", "loop", "check", "block", "waiting", "woken", "on_frame",
              "exited"}

(* The worker holds mutex_ from the predicate's evaluation to the block or the pop. *)
MutexFree == wpc \notin {"block", "woken"}

Init == /\ running = FALSE
        /\ queue = << >>
        /\ wpc = "none"
        /\ current = 0
        /\ dpc = [d \in Deliverers |-> "idle"]
        /\ spc = "idle"
        /\ delivered = 0 /\ dropped = 0 /\ processed = 0

(* start(): the thread is created running. *)
Start == /\ ~running /\ spc = "idle"
         /\ running' = TRUE
         /\ wpc' = "loop"
         /\ UNCHANGED <<queue, current, dpc, spc, delivered, dropped, processed>>

(* cv_.notify_one and notify_all: only the worker ever waits on cv_. *)
NotifyWorker == wpc' = IF wpc = "waiting" THEN "check" ELSE wpc

(* Mutation: nothing is dropped from a full queue. *)
DeliverNoDrop(d) ==
    /\ dpc[d] = "idle" /\ delivered < MaxFrames /\ MutexFree
    /\ queue' = Append(queue, delivered + 1)
    /\ delivered' = delivered + 1
    /\ dpc' = [dpc EXCEPT ![d] = "notify"]
    /\ UNCHANGED <<running, wpc, current, spc, dropped, processed>>

(* Mutation: a full queue drops the new frame. *)
DeliverNewestDropped(d) ==
    /\ dpc[d] = "idle" /\ delivered < MaxFrames /\ MutexFree
    /\ IF Len(queue) >= MaxDepth
         THEN queue' = queue /\ dropped' = dropped + 1
         ELSE queue' = Append(queue, delivered + 1) /\ UNCHANGED dropped
    /\ delivered' = delivered + 1
    /\ dpc' = [dpc EXCEPT ![d] = "notify"]
    /\ UNCHANGED <<running, wpc, current, spc, processed>>

(* deliver(), the part under mutex_: drop the oldest when full, then push.  An empty    *)
(* buffer returns before it, which changes nothing.                                     *)
Deliver(d) ==
    /\ dpc[d] = "idle" /\ delivered < MaxFrames /\ MutexFree
    /\ IF Len(queue) >= MaxDepth
         THEN queue' = Append(Tail(queue), delivered + 1) /\ dropped' = dropped + 1
         ELSE queue' = Append(queue, delivered + 1) /\ UNCHANGED dropped
    /\ delivered' = delivered + 1
    /\ dpc' = [dpc EXCEPT ![d] = "notify"]
    /\ UNCHANGED <<running, wpc, current, spc, processed>>

(* Mutation: deliver() does not notify. *)
NotifyForgotten(d) ==
    /\ dpc[d] = "notify"
    /\ dpc' = [dpc EXCEPT ![d] = "idle"]
    /\ UNCHANGED <<running, queue, wpc, current, spc, delivered, dropped, processed>>

(* deliver(), after the unlock: cv_.notify_one(). *)
Notify(d) ==
    /\ dpc[d] = "notify"
    /\ dpc' = [dpc EXCEPT ![d] = "idle"]
    /\ NotifyWorker
    /\ UNCHANGED <<running, queue, current, spc, delivered, dropped, processed>>

(* while (running_.load()) *)
LoopTest == /\ wpc = "loop"
            /\ wpc' = IF running THEN "check" ELSE "exited"
            /\ UNCHANGED <<running, queue, current, dpc, spc, delivered, dropped,
                           processed>>

(* cv_.wait: lock mutex_ and evaluate the predicate. *)
Check == /\ wpc = "check"
         /\ wpc' = IF queue # << >> \/ ~running THEN "woken" ELSE "block"
         /\ UNCHANGED <<running, queue, current, dpc, spc, delivered, dropped,
                        processed>>

(* cv_.wait: release mutex_ and join the wait set, atomically. *)
Block == /\ wpc = "block"
         /\ wpc' = "waiting"
         /\ UNCHANGED <<running, queue, current, dpc, spc, delivered, dropped,
                        processed>>

(* C++ lets wait() return without a notification; nothing guarantees that it does. *)
SpuriousWakeup == /\ wpc = "waiting"
                  /\ wpc' = "check"
                  /\ UNCHANGED <<running, queue, current, dpc, spc, delivered, dropped,
                                 processed>>

(* Still under mutex_: leave the loop when stopped, with the backlog left queued. *)
Abandon == /\ wpc = "woken" /\ ~running
           /\ wpc' = "exited"
           /\ UNCHANGED <<running, queue, current, dpc, spc, delivered, dropped,
                          processed>>

(* Still under mutex_: move the front out, unlock, and call plugin_->on_frame. *)
Pop == /\ wpc = "woken" /\ running
       /\ current' = Head(queue)
       /\ queue' = Tail(queue)
       /\ wpc' = "on_frame"
       /\ UNCHANGED <<running, dpc, spc, delivered, dropped, processed>>

(* Mutation: a frame is not counted. *)
OnFrameDoneUncounted ==
    /\ wpc = "on_frame"
    /\ wpc' = "loop"
    /\ UNCHANGED <<running, queue, current, dpc, spc, delivered, dropped, processed>>

(* on_frame returns, or throws: the exception is logged and the frame counted. *)
OnFrameDone == /\ wpc = "on_frame"
               /\ processed' = processed + 1
               /\ wpc' = "loop"
               /\ UNCHANGED <<running, queue, current, dpc, spc, delivered, dropped>>

(* stop(): running_.exchange(false); a stage that does not run returns at once. *)
StopRequest == /\ spc = "idle" /\ running
               /\ running' = FALSE
               /\ spc' = "notify"
               /\ UNCHANGED <<queue, wpc, current, dpc, delivered, dropped, processed>>

(* stop(): cv_.notify_all(), without mutex_. *)
StopNotify == /\ spc = "notify"
              /\ spc' = "join"
              /\ NotifyWorker
              /\ UNCHANGED <<running, queue, current, dpc, delivered, dropped, processed>>

(* stop(): thread_.join(). *)
StopJoin == /\ spc = "join" /\ wpc = "exited"
            /\ spc' = "done"
            /\ UNCHANGED <<running, queue, wpc, current, dpc, delivered, dropped,
                           processed>>

Worker == LoopTest \/ Check \/ Block \/ Pop \/ Abandon \/ OnFrameDone

Next == \/ Start
        \/ \E d \in Deliverers : Deliver(d) \/ Notify(d)
        \/ Worker \/ SpuriousWakeup
        \/ StopRequest \/ StopNotify \/ StopJoin

Spec == Init /\ [][Next]_vars

(* Threads that can run do run, and a plugin's on_frame returns.  Nothing makes a   *)
(* frame arrive, stop() be called or a wait end spuriously.                         *)
Fairness == /\ WF_vars(Worker)
            /\ \A d \in Deliverers : WF_vars(Notify(d))
            /\ WF_vars(StopNotify) /\ WF_vars(StopJoin)

FairSpec == Spec /\ Fairness

-----------------------------------------------------------------------------
(* The stage's state has its shape, and its queue never exceeds the configured  *)
(* depth, whichever threads deliver (StageRunner.cpp:30).                       *)
TypeOK == /\ running \in BOOLEAN
          /\ queue \in Seq(Nat) /\ Len(queue) <= MaxDepth
          /\ wpc \in WorkerPCs
          /\ current \in Nat
          /\ dpc \in [Deliverers -> {"idle", "notify"}]
          /\ spc \in {"idle", "notify", "join", "done"}
          /\ delivered \in Nat /\ dropped \in Nat /\ processed \in Nat

(* The queue holds exactly the newest frames, in the order they were delivered: *)
(* "drop oldest; keep the freshest frames" (StageRunner.cpp:31).                *)
Freshest == \A i \in 1..Len(queue) : queue[i] = delivered - Len(queue) + i

InHand == IF wpc = "on_frame" THEN 1 ELSE 0

(* Every delivered frame is processed, counted as dropped, still queued, or in the *)
(* plugin's hands: the two counters a monitor reads lose no frame and count none   *)
(* twice, also across stop() (StageRunner.cpp:30-34, 51-53, 64).                   *)
Accounting == delivered = processed + dropped + Len(queue) + InHand

(* The stage implements the queue it promises. *)
Promise == INSTANCE DropQueue WITH Depth <- MaxDepth, sent <- delivered,
                                   first <- delivered - Len(queue) + 1,
                                   taken <- current, lost <- dropped

ImplementsDropQueue == Promise!Spec

(* A queued frame does not sit behind an idle worker: it is taken or dropped for a *)
(* fresher one unless the stage is stopped, so no wake-up by deliver() is lost.    *)
QueuedFrameMoves ==
    \A f \in 1..MaxFrames :
        (running /\ \E i \in 1..Len(queue) : queue[i] = f)
            ~> (~running \/ \A i \in 1..Len(queue) : queue[i] # f)

(* A stop() that was called returns: "SIGTERM/SIGINT request a clean stop"         *)
(* (zm-core.cpp:22) and PluginManager::stopAll joins every stage thread.           *)
StopReturns == (spc # "idle") ~> (spc = "done")
=============================================================================
