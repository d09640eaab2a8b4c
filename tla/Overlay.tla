------------------------------- MODULE Overlay -------------------------------
(***************************************************************************)
(* overlay: draws the boxes of the newest recognised event of a stream on   *)
(* that stream's RGB frames, while they are at most ttl old.  Events come   *)
(* on the publishers' threads, frames on the stage's thread; the state of   *)
(* the plugin is leaked by stop, so that a late callback finds it.  A set of*)
(* boxes is the number of the event it came in.                             *)
(***************************************************************************)
EXTENDS Naturals, FiniteSets

CONSTANTS Streams,     \* streams whose frames and events pass
          Publishers,  \* threads that publish events
          Types,       \* event_types
          Ttl,         \* ttl_ms; 0: boxes never expire
          MaxEvents, MaxClock

VARIABLES up,          \* running
          boxCache,    \* [Streams -> [event, at, of]], event 0 for none
          handling,    \* [Publishers -> the callback it is in, or NoEvent]
          published,   \* the events so far, [stream, type]
          clock,       \* now_ms
          drawn        \* the frame drawn last: [stream, of, age, event]
overlayVars == <<up, boxCache, handling, published, clock, drawn>>

NoEvent == [event |-> 0, at |-> 0, of |-> 0]
NotDrawn == [stream |-> 0, of |-> 0, age |-> 0, event |-> 0]

Init == /\ up = TRUE /\ boxCache = [s \in Streams |-> NoEvent]
        /\ handling = [p \in Publishers |-> NoEvent] /\ published = 0
        /\ clock = 0 /\ drawn = NotDrawn

-----------------------------------------------------------------------------
(* handleEvent, up to recvMs: a listed type, while running. *)
EventArrives(p, s, t) ==
    /\ handling[p] = NoEvent /\ published < MaxEvents /\ published' = published + 1
    /\ handling' = IF up /\ t \in Types
                   THEN [handling EXCEPT ![p] = [event |-> published + 1, at |-> clock, of |-> s]]
                   ELSE handling
    /\ UNCHANGED <<up, boxCache, clock, drawn>>

(* Mutation: one set of boxes for all streams. *)
OneSet(set) == [s \in Streams |-> set]

(* The newest set replaces the stream's, whatever its type. *)
Replaced(set) == [boxCache EXCEPT ![set.of] = set]

(* handleEvent, under the lock. *)
BoxesCached(p) ==
    /\ handling[p] # NoEvent
    /\ boxCache' = Replaced(handling[p]) /\ handling' = [handling EXCEPT ![p] = NoEvent]
    /\ UNCHANGED <<up, published, clock, drawn>>

(* Mutation: boxes stay until the next event. *)
NeverExpire(set) == set # NoEvent

Fresh(set) == set # NoEvent /\ (Ttl = 0 \/ clock - set.at <= Ttl)

(* overlay_on_frame: an RGB frame of a listed stream; any other is only forwarded. *)
FrameDrawn(s) ==
    /\ up /\ Fresh(boxCache[s])
    /\ drawn' = [stream |-> s, of |-> boxCache[s].of, age |-> clock - boxCache[s].at,
                 event |-> boxCache[s].event]
    /\ UNCHANGED <<up, boxCache, handling, published, clock>>

TimePasses == /\ clock < MaxClock /\ clock' = clock + 1
              /\ UNCHANGED <<up, boxCache, handling, published, drawn>>

(* overlay_stop: a callback that passed the test of running still writes. *)
Stopped == /\ up /\ up' = FALSE
           /\ UNCHANGED <<boxCache, handling, published, clock, drawn>>

Next == \/ \E p \in Publishers, s \in Streams, t \in Types \cup {"other"} : EventArrives(p, s, t)
        \/ \E p \in Publishers : BoxesCached(p)
        \/ \E s \in Streams : FrameDrawn(s)
        \/ TimePasses
        \/ Stopped

Spec == Init /\ [][Next]_overlayVars

-----------------------------------------------------------------------------
(* A frame never shows the boxes of another stream, nor boxes older than   *)
(* ttl_ms (overlay_on_frame).                                               *)
OwnFreshBoxes == /\ drawn.of = drawn.stream
                 /\ drawn # NotDrawn /\ Ttl > 0 => drawn.age <= Ttl

(* "caches the MOST RECENT set of boxes per stream_id" (overlay.cpp:5): a    *)
(* stream's boxes never go back to those of an earlier event.  Not so with   *)
(* two publishers: the one that is late to the lock has the last word.       *)
NewestBoxes == [][\A s \in Streams : boxCache'[s].event >= boxCache[s].event]_overlayVars
==============================================================================
