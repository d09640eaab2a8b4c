------------------------------ MODULE EventBus ------------------------------
(***************************************************************************)
(* The in-process event bus (core/include/zm/EventBus.hpp) and the host    *)
(* calls through which plugins use it (PluginManager.cpp:32-51).  publish  *)
(* copies the callbacks of the channel under mutex_ and calls them without *)
(* it, one after the other, on the publisher's thread, so subscriptions    *)
(* come and go between the calls.  One channel, "plugin_event", is used.   *)
(***************************************************************************)
EXTENDS Naturals, Sequences, SequencesExt

CONSTANTS Subscribers,  \* plugins, and the bridge of zm-core
          Publishers,   \* threads that publish
          MaxEvents     \* bound: events published

VARIABLES subscribers,  \* subscribers_["plugin_event"], in order
          left,         \* those that have unsubscribed
          toCall,       \* each publish in progress: the callbacks still to call
          called,       \* ... those called, in order
          steady,       \* ... those subscribed ever since it began
          pc,           \* each publisher: "idle", "publish" or "calling"
          events        \* events published (bounded by MaxEvents)

vars == <<subscribers, left, toCall, called, steady, pc, events>>

Init == /\ subscribers = << >> /\ left = {}
        /\ toCall = [p \in Publishers |-> << >>]
        /\ called = [p \in Publishers |-> << >>]
        /\ steady = [p \in Publishers |-> {}]
        /\ pc = [p \in Publishers |-> "idle"] /\ events = 0

(* subscribe: each plugin subscribes once, in its start(). *)
Subscribe(s) == /\ s \notin ToSet(subscribers) /\ s \notin left
                /\ subscribers' = Append(subscribers, s)
                /\ UNCHANGED <<left, toCall, called, steady, pc, events>>

(* unsubscribe: the entry with the token is erased. *)
Unsubscribe(s) == /\ \E i \in DOMAIN subscribers :
                         subscribers[i] = s /\ subscribers' = RemoveAt(subscribers, i)
                  /\ left' = left \cup {s}
                  /\ steady' = [p \in Publishers |-> steady[p] \ {s}]
                  /\ UNCHANGED <<toCall, called, pc, events>>

(* A thread calls publish_evt. *)
Publish(p) == /\ pc[p] = "idle" /\ events < MaxEvents
              /\ events' = events + 1
              /\ pc' = [pc EXCEPT ![p] = "publish"]
              /\ called' = [called EXCEPT ![p] = << >>]
              /\ steady' = [steady EXCEPT ![p] = ToSet(subscribers)]
              /\ UNCHANGED <<subscribers, left, toCall>>

(* publish, under mutex_: the copy. *)
Copy(p) == /\ pc[p] = "publish"
           /\ toCall' = [toCall EXCEPT ![p] = subscribers]
           /\ pc' = [pc EXCEPT ![p] = "calling"]
           /\ UNCHANGED <<subscribers, left, called, steady, events>>

(* Mutation: publish goes through the list itself. *)
LiveRemaining(p) == SubSeq(subscribers, Len(called[p]) + 1, Len(subscribers))

(* The callbacks publish has still to call: those of the copy. *)
Remaining(p) == toCall[p]

(* publish, without mutex_: the next callback. *)
Call(p) == /\ pc[p] = "calling" /\ Remaining(p) # << >>
           /\ called' = [called EXCEPT ![p] = Append(@, Head(Remaining(p)))]
           /\ toCall' = [toCall EXCEPT ![p] = Tail(Remaining(p))]
           /\ UNCHANGED <<subscribers, left, steady, pc, events>>

Return(p) == /\ pc[p] = "calling" /\ Remaining(p) = << >>
             /\ pc' = [pc EXCEPT ![p] = "idle"]
             /\ UNCHANGED <<subscribers, left, toCall, called, steady, events>>

Next == \/ \E s \in Subscribers : Subscribe(s) \/ Unsubscribe(s)
        \/ \E p \in Publishers : Publish(p) \/ Copy(p) \/ Call(p) \/ Return(p)

Spec == Init /\ [][Next]_vars

-----------------------------------------------------------------------------
(* Whatever others subscribe and unsubscribe meanwhile, an event reaches each        *)
(* subscriber at most once, and every one that was subscribed all along: "publish()  *)
(* invokes copies outside the lock" (EventBus.hpp:35, 48-61).                        *)
EachOnce ==
    \A p \in Publishers :
        /\ IsInjective(called[p])
        /\ pc[p] = "calling" => steady[p] \subseteq ToSet(called[p]) \cup ToSet(Remaining(p))
=============================================================================
