----------------------------- MODULE EventSink -----------------------------
(***************************************************************************)
(* output_webhook and output_mqtt: sinks of the event bus.  A publisher's  *)
(* thread calls handleEvent, which posts the event over the one handle     *)
(* (curl's, mosquitto's) under a mutex, on that thread.  stop()            *)
(* unsubscribes, but a callback the bus has already copied may still come, *)
(* then clears running and destroys the handle; the state stays allocated. *)
(***************************************************************************)
EXTENDS Naturals, FiniteSets

CONSTANT Callers    \* threads that publish events

VARIABLES sink,      \* [running, handle: "none", "live" or "freed"]
          mutex,     \* holder of postMutex / pubMutex: a caller, "stop" or "none"
          caller,    \* each thread in handleEvent: "out", "waiting", "posting"
          stopping   \* stop(): "new", "started", "disarmed", "done" or "failed"
sinkVars == <<sink, mutex, caller, stopping>>

Init == /\ sink = [running |-> FALSE, handle |-> "none"] /\ mutex = "none"
        /\ caller = [c \in Callers |-> "out"] /\ stopping = "new"
Off == /\ sink = [running |-> FALSE, handle |-> "none"] /\ mutex = "none"
       /\ caller = [c \in Callers |-> "out"] /\ stopping = "failed"

-----------------------------------------------------------------------------
(* start: the handle is made and connected, then the bus is subscribed to. *)
Start == /\ stopping = "new"
         /\ \/ /\ sink' = [running |-> TRUE, handle |-> "live"] /\ stopping' = "started"
            \/ /\ stopping' = "failed" /\ UNCHANGED sink
         /\ UNCHANGED <<mutex, caller>>

(* handleEvent: an event that passes the filter, with running set ... *)
Enter(c) == /\ stopping \notin {"new", "failed"} /\ caller[c] = "out" /\ sink.running
            /\ caller' = [caller EXCEPT ![c] = "waiting"]
            /\ UNCHANGED <<sink, mutex, stopping>>

(* Mutation: the second test is left out. *)
Trusting == TRUE

(* ... tested again, with the handle, under the mutex. *)
StillUp == sink.running /\ sink.handle = "live"

Lock(c) == /\ caller[c] = "waiting" /\ mutex = "none"
           /\ IF StillUp THEN mutex' = c /\ caller' = [caller EXCEPT ![c] = "posting"]
              ELSE UNCHANGED mutex /\ caller' = [caller EXCEPT ![c] = "out"]
           /\ UNCHANGED <<sink, stopping>>

(* The post is over: done, refused, or timed out. *)
Unlock(c) == /\ caller[c] = "posting"
             /\ mutex' = "none" /\ caller' = [caller EXCEPT ![c] = "out"]
             /\ UNCHANGED <<sink, stopping>>

(* stop: unsubscribe_evt, running = false ... *)
Disarm == /\ stopping = "started"
          /\ sink' = [sink EXCEPT !.running = FALSE] /\ stopping' = "disarmed"
          /\ UNCHANGED <<mutex, caller>>

(* ... and, under the mutex, the end of the handle. *)
Destroy == /\ stopping = "disarmed" /\ mutex = "none"
           /\ sink' = [sink EXCEPT !.handle = "freed"] /\ stopping' = "done"
           /\ UNCHANGED <<mutex, caller>>

Next == \/ Start \/ Disarm \/ Destroy
        \/ \E c \in Callers : Enter(c) \/ Lock(c) \/ Unlock(c)

(* A post ends (CURLOPT_TIMEOUT_MS), and no thread is starved. *)
Fairness == WF_sinkVars(Destroy)
            /\ \A c \in Callers : WF_sinkVars(Lock(c)) /\ WF_sinkVars(Unlock(c))

Spec == Init /\ [][Next]_sinkVars /\ Fairness

-----------------------------------------------------------------------------
(* No thread posts over a handle that stop() has destroyed: "the callback can fire   *)
(* after stop()" (output_mqtt.cpp:8).                                                *)
HandleAlive == \A c \in Callers : caller[c] = "posting" => sink.handle = "live"

(* stop() waits for a post in progress, and for no more. *)
SinkStops == stopping = "disarmed" ~> stopping = "done"
=============================================================================
