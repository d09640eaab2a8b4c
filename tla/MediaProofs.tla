---------------------------- MODULE MediaProofs ----------------------------
(***************************************************************************)
(* Proofs about the parts of a worker that carry pictures and sound, and   *)
(* about the event bus, each for every value of its constants; at the end  *)
(* the properties that the run of MediaPlugins checks.                     *)
(*                                                                         *)
(* The bus: its list has no subscriber twice (NoneTwice), so neither has a *)
(* copy of it; what a publish has called and what it has still to call are *)
(* parts of one copy and share no subscriber (Apart); and a subscriber     *)
(* that was there all along is in the list until the copy is made          *)
(* (SteadyListed), and in the copy from then on.  The other invariants say *)
(* who may be where while another thread works.                            *)
(***************************************************************************)
EXTENDS MediaPlugins, SequenceTheorems, Extrema, TLAPS

-----------------------------------------------------------------------------
(* EventBus: each event reaches each steady subscriber once. *)

BusTypes == /\ subscribers \in Seq(Subscribers)
         /\ toCall \in [Publishers -> Seq(Subscribers)]
         /\ called \in [Publishers -> Seq(Subscribers)]
         /\ steady \in [Publishers -> SUBSET Subscribers]
         /\ pc \in [Publishers -> {"idle", "publish", "calling"}]

NoneTwice == IsInjective(subscribers)

(* The calls made and the calls to make are two parts of a copy without repetition. *)
Apart == \A p \in Publishers :
    /\ IsInjective(called[p]) /\ IsInjective(toCall[p])
    /\ ToSet(called[p]) \cap ToSet(toCall[p]) = {}

(* Nothing is called before the copy is made, and nothing is left of an earlier one. *)
FreshStart == \A p \in Publishers :
    /\ pc[p] = "publish" => called[p] = << >>
    /\ pc[p] # "calling" => toCall[p] = << >>

(* Who was subscribed all along is in the list, then in the copy. *)
SteadyListed == \A p \in Publishers :
    /\ pc[p] = "publish" => steady[p] \subseteq ToSet(subscribers)
    /\ pc[p] = "calling" => steady[p] \subseteq ToSet(called[p]) \cup ToSet(toCall[p])

BusInv == BusTypes /\ NoneTwice /\ Apart /\ FreshStart /\ SteadyListed

(* Lists: what appending, taking the first and erasing one entry do to them.         *)

LEMMA EmptyList ==
    ASSUME NEW S PROVE << >> \in Seq(S) /\ IsInjective(<< >>) /\ ToSet(<< >>) = {}
  BY DEF IsInjective, ToSet

LEMMA AppendNew ==
    ASSUME NEW S, NEW q \in Seq(S), NEW e \in S, IsInjective(q), e \notin ToSet(q)
    PROVE  /\ Append(q, e) \in Seq(S) /\ IsInjective(Append(q, e))
           /\ ToSet(Append(q, e)) = ToSet(q) \cup {e}
  <1>1. /\ Append(q, e) \in Seq(S) /\ Len(q) \in Nat
        /\ DOMAIN q = 1..Len(q) /\ DOMAIN Append(q, e) = 1..Len(q) + 1
        /\ Append(q, e)[Len(q) + 1] = e
        /\ \A i \in 1..Len(q) : Append(q, e)[i] = q[i]
    OBVIOUS
  <1>2. \A i \in 1..Len(q) : q[i] # e
    BY <1>1 DEF ToSet
  <1>3. IsInjective(Append(q, e))
    BY <1>1, <1>2 DEF IsInjective
  <1>4. ToSet(Append(q, e)) = ToSet(q) \cup {e}
    BY <1>1 DEF ToSet
  <1> QED BY <1>1, <1>3, <1>4

LEMMA FirstOut ==
    ASSUME NEW S, NEW q \in Seq(S), IsInjective(q), q # << >>
    PROVE  /\ Head(q) \in S /\ Tail(q) \in Seq(S) /\ IsInjective(Tail(q))
           /\ ToSet(q) = {Head(q)} \cup ToSet(Tail(q)) /\ Head(q) \notin ToSet(Tail(q))
  <1>1. /\ Head(q) = q[1] /\ Tail(q) \in Seq(S) /\ Len(q) \in Nat /\ Len(q) >= 1
        /\ DOMAIN q = 1..Len(q) /\ DOMAIN Tail(q) = 1..Len(q) - 1
        /\ \A i \in 1..Len(q) - 1 : Tail(q)[i] = q[i + 1]
    OBVIOUS
  <1>2. q[1] \in S
    BY <1>1
  <1>3. IsInjective(Tail(q))
    BY <1>1 DEF IsInjective
  <1>4. Head(q) \notin ToSet(Tail(q))
    BY <1>1 DEF IsInjective, ToSet
  <1>5. ToSet(q) = {Head(q)} \cup ToSet(Tail(q))
    <2>1. ASSUME NEW i \in 1..Len(q) PROVE q[i] \in {Head(q)} \cup ToSet(Tail(q))
      <3>1. CASE i = 1
        BY <3>1, <1>1
      <3>2. CASE i # 1
        <4>1. i - 1 \in 1..Len(q) - 1 /\ Tail(q)[i - 1] = q[i]
          BY <3>2, <1>1
        <4> QED BY <4>1, <1>1 DEF ToSet
      <3> QED BY <3>1, <3>2
    <2>2. \A i \in 1..Len(q) - 1 : Tail(q)[i] \in ToSet(q)
      BY <1>1 DEF ToSet
    <2>3. Head(q) \in ToSet(q)
      BY <1>1 DEF ToSet
    <2>4. ToSet(q) \subseteq {Head(q)} \cup ToSet(Tail(q))
      BY <2>1, <1>1 DEF ToSet
    <2>5. ToSet(Tail(q)) \subseteq ToSet(q)
      BY <2>2, <1>1 DEF ToSet
    <2> QED BY <2>3, <2>4, <2>5
  <1> QED BY <1>1, <1>2, <1>3, <1>4, <1>5

LEMMA OneErased ==
    ASSUME NEW S, NEW q \in Seq(S), IsInjective(q), NEW i \in DOMAIN q
    PROVE  /\ RemoveAt(q, i) \in Seq(S) /\ IsInjective(RemoveAt(q, i))
           /\ ToSet(RemoveAt(q, i)) = ToSet(q) \ {q[i]}
  <1> DEFINE r == RemoveAt(q, i)
  <1>1. Len(q) \in Nat /\ i \in 1..Len(q) /\ DOMAIN q = 1..Len(q)
    OBVIOUS
  <1>2. /\ SubSeq(q, 1, i - 1) \in Seq(S) /\ Len(SubSeq(q, 1, i - 1)) = i - 1
        /\ \A j \in 1..i - 1 : SubSeq(q, 1, i - 1)[j] = q[j]
    BY <1>1
  <1>3. /\ SubSeq(q, i + 1, Len(q)) \in Seq(S) /\ Len(SubSeq(q, i + 1, Len(q))) = Len(q) - i
        /\ \A j \in 1..Len(q) - i : SubSeq(q, i + 1, Len(q))[j] = q[i + j]
    BY <1>1
  <1>4. r = SubSeq(q, 1, i - 1) \o SubSeq(q, i + 1, Len(q))
    BY DEF RemoveAt
  <1> HIDE DEF r
  <1>5. /\ r \in Seq(S) /\ Len(r) = Len(q) - 1 /\ DOMAIN r = 1..Len(q) - 1
        /\ \A j \in 1..i - 1 : r[j] = q[j]
        /\ \A j \in i..Len(q) - 1 : r[j] = q[j + 1]
    <2>1. /\ r \in Seq(S) /\ Len(r) = Len(q) - 1 /\ DOMAIN r = 1..Len(q) - 1
      <3> DEFINE a == SubSeq(q, 1, i - 1)
                 b == SubSeq(q, i + 1, Len(q))
      <3>1. a \in Seq(S) /\ b \in Seq(S) /\ r = a \o b
        BY <1>2, <1>3, <1>4
      <3>2. Len(a) = i - 1 /\ Len(b) = Len(q) - i
        BY <1>2, <1>3
      <3> HIDE DEF a, b
      <3>3. r \in Seq(S) /\ Len(r) = Len(a) + Len(b)
        BY <3>1, ConcatProperties
      <3>4. Len(r) = Len(q) - 1
        BY <1>1, <3>2, <3>3
      <3> QED BY <3>3, <3>4, LenProperties
    <2>2. \A j \in 1..i - 1 : r[j] = q[j]
      BY <1>1, <1>2, <1>3, <1>4
    <2>3. ASSUME NEW j \in i..Len(q) - 1 PROVE r[j] = q[j + 1]
      <3> DEFINE f == SubSeq(q, 1, i - 1)
                 g == SubSeq(q, i + 1, Len(q))
                 k == j + 1 - i
      <3>1. /\ i \in Nat /\ j \in Nat /\ k \in 1..Len(q) - i
            /\ j = i - 1 + k /\ i + k = j + 1
        BY <1>1
      <3>2. f \in Seq(S) /\ g \in Seq(S) /\ r = f \o g /\ Len(f) = i - 1 /\ Len(g) = Len(q) - i
        BY <1>2, <1>3, <1>4
      <3>3. g[k] = q[i + k]
        BY <1>3, <3>1
      <3> HIDE DEF f, g, k
      <3>4. ASSUME NEW a \in Seq(S), NEW b \in Seq(S), NEW n \in 1..Len(b)
            PROVE  (a \o b)[Len(a) + n] = b[n]
        OBVIOUS
      <3>5. (f \o g)[Len(f) + k] = g[k]
        BY <3>1, <3>2, <3>4
      <3> QED BY <3>1, <3>2, <3>3, <3>5
    <2> QED BY <2>1, <2>2, <2>3
  <1>6. IsInjective(r)
    <2> SUFFICES ASSUME NEW j \in DOMAIN r, NEW k \in DOMAIN r, r[j] = r[k] PROVE j = k
      BY DEF IsInjective
    <2>1. \A a, b \in 1..Len(q) : q[a] = q[b] => a = b
      BY <1>1 DEF IsInjective
    <2>2. CASE j < i /\ k < i
      BY <2>1, <2>2, <1>1, <1>5
    <2>3. CASE j < i /\ k >= i
      BY <2>1, <2>3, <1>1, <1>5
    <2>4. CASE j >= i /\ k < i
      BY <2>1, <2>4, <1>1, <1>5
    <2>5. CASE j >= i /\ k >= i
      BY <2>1, <2>5, <1>1, <1>5
    <2> QED BY <2>2, <2>3, <2>4, <2>5, <1>1, <1>5
  <1>7. ASSUME NEW j \in 1..Len(q) - 1 PROVE r[j] \in ToSet(q) \ {q[i]}
    <2>1. PICK k \in 1..Len(q) : k # i /\ r[j] = q[k]
      <3>1. CASE j < i
        BY <3>1, <1>1, <1>5
      <3>2. CASE j >= i
        BY <3>2, <1>1, <1>5
      <3> QED BY <3>1, <3>2, <1>1
    <2> QED BY <2>1, <1>1 DEF IsInjective, ToSet
  <1>8. ASSUME NEW j \in 1..Len(q), q[j] # q[i] PROVE q[j] \in ToSet(r)
    <2>1. CASE j < i
      <3>1. j \in 1..Len(q) - 1 /\ r[j] = q[j]
        BY <2>1, <1>1, <1>5
      <3> QED BY <3>1, <1>5 DEF ToSet
    <2>2. CASE j > i
      <3>1. j - 1 \in 1..Len(q) - 1 /\ r[j - 1] = q[j]
        BY <2>2, <1>1, <1>5
      <3> QED BY <3>1, <1>5 DEF ToSet
    <2> QED BY <2>1, <2>2, <1>8, <1>1
  <1>9. ToSet(r) = ToSet(q) \ {q[i]}
    BY <1>1, <1>5, <1>7, <1>8 DEF ToSet
  <1> QED BY <1>6, <1>5, <1>9 DEF r

LEMMA InitInv == Init => BusInv
  BY EmptyList DEF Init, BusInv, BusTypes, NoneTwice, Apart, FreshStart, SteadyListed

(* A publish in progress is untouched while the list changes; only those that leave  *)
(* stop being steady.                                                                *)
LEMMA SubscribeInv == ASSUME BusInv, NEW s \in Subscribers, Subscribe(s) PROVE BusInv'
  <1> USE DEF BusInv, BusTypes, NoneTwice, Apart, FreshStart, SteadyListed
  <1>1. /\ subscribers' \in Seq(Subscribers) /\ IsInjective(subscribers')
        /\ ToSet(subscribers') = ToSet(subscribers) \cup {s}
    BY AppendNew DEF Subscribe
  <1>2. UNCHANGED <<toCall, called, steady, pc>>
    BY DEF Subscribe
  <1> QED BY <1>1, <1>2

LEMMA UnsubscribeInv == ASSUME BusInv, NEW s \in Subscribers, Unsubscribe(s) PROVE BusInv'
  <1> USE DEF BusInv, BusTypes, NoneTwice, Apart, FreshStart, SteadyListed
  <1>1. PICK i \in DOMAIN subscribers :
            subscribers[i] = s /\ subscribers' = RemoveAt(subscribers, i)
    BY DEF Unsubscribe
  <1>2. /\ subscribers' \in Seq(Subscribers) /\ IsInjective(subscribers')
        /\ ToSet(subscribers') = ToSet(subscribers) \ {s}
    BY <1>1, OneErased
  <1>3. /\ UNCHANGED <<toCall, called, pc>>
        /\ steady' = [p \in Publishers |-> steady[p] \ {s}]
    BY DEF Unsubscribe
  <1> QED BY <1>2, <1>3

LEMMA PublishInv == ASSUME BusInv, NEW p \in Publishers, Publish(p) PROVE BusInv'
  <1> USE DEF BusInv, BusTypes, NoneTwice, Apart, FreshStart, SteadyListed
  <1>1. /\ pc[p] = "idle" /\ pc' = [pc EXCEPT ![p] = "publish"]
        /\ called' = [called EXCEPT ![p] = << >>]
        /\ steady' = [steady EXCEPT ![p] = ToSet(subscribers)]
        /\ UNCHANGED <<subscribers, toCall>>
    BY DEF Publish
  <1>2. ToSet(subscribers) \subseteq Subscribers
    BY DEF ToSet
  <1> QED BY <1>1, <1>2, EmptyList

LEMMA CopyInv == ASSUME BusInv, NEW p \in Publishers, Copy(p) PROVE BusInv'
  <1> USE DEF BusInv, BusTypes, NoneTwice, Apart, FreshStart, SteadyListed
  <1>1. /\ pc[p] = "publish" /\ pc' = [pc EXCEPT ![p] = "calling"]
        /\ toCall' = [toCall EXCEPT ![p] = subscribers]
        /\ UNCHANGED <<subscribers, called, steady>>
    BY DEF Copy
  <1>2. called[p] = << >>
    BY <1>1
  <1> QED BY <1>1, <1>2, EmptyList

LEMMA CallInv == ASSUME BusInv, NEW p \in Publishers, Call(p) PROVE BusInv'
  <1> USE DEF BusInv, BusTypes, NoneTwice, Apart, FreshStart, SteadyListed
  <1>1. /\ pc[p] = "calling" /\ toCall[p] # << >>
        /\ called' = [called EXCEPT ![p] = Append(@, Head(toCall[p]))]
        /\ toCall' = [toCall EXCEPT ![p] = Tail(toCall[p])]
        /\ UNCHANGED <<subscribers, steady, pc>>
    BY DEF Call, Remaining
  <1>2. /\ Head(toCall[p]) \in Subscribers /\ Tail(toCall[p]) \in Seq(Subscribers)
        /\ IsInjective(Tail(toCall[p]))
        /\ ToSet(toCall[p]) = {Head(toCall[p])} \cup ToSet(Tail(toCall[p]))
        /\ Head(toCall[p]) \notin ToSet(Tail(toCall[p]))
    BY <1>1, FirstOut
  <1>3. Head(toCall[p]) \notin ToSet(called[p])
    BY <1>2
  <1>4. /\ Append(called[p], Head(toCall[p])) \in Seq(Subscribers)
        /\ IsInjective(Append(called[p], Head(toCall[p])))
        /\ ToSet(Append(called[p], Head(toCall[p]))) = ToSet(called[p]) \cup {Head(toCall[p])}
    BY <1>2, <1>3, AppendNew
  <1> QED BY <1>1, <1>2, <1>4

LEMMA ReturnInv == ASSUME BusInv, NEW p \in Publishers, Return(p) PROVE BusInv'
  BY DEF Return, Remaining, BusInv, BusTypes, NoneTwice, Apart, FreshStart, SteadyListed

LEMMA StepInv == BusInv /\ [Next]_vars => BusInv'
  <1> SUFFICES ASSUME BusInv, [Next]_vars PROVE BusInv'
    OBVIOUS
  <1>1. CASE UNCHANGED vars
    BY <1>1 DEF vars, BusInv, BusTypes, NoneTwice, Apart, FreshStart, SteadyListed
  <1>2. CASE Next
    BY <1>2, SubscribeInv, UnsubscribeInv, PublishInv, CopyInv, CallInv, ReturnInv DEF Next
  <1> QED BY <1>1, <1>2

(* An event reaches each subscriber at most once, and every one that was subscribed  *)
(* all along: the promise of publish() (EventBus.hpp:35, 48-61), for any number of   *)
(* plugins that subscribe, unsubscribe and publish at any time.                      *)
THEOREM EventBusSafe == Spec => []EachOnce
  <1>1. BusInv => EachOnce
    BY DEF BusInv, Apart, SteadyListed, EachOnce, Remaining
  <1> QED BY InitInv, StepInv, <1>1, PTL DEF Spec

-----------------------------------------------------------------------------
(* capture_rtsp_multi. *)

(* A connected stream has been announced, and one that reads is connected, with its input *)
(* open: its owner frees the input only once the thread has ended.                        *)
StreamFields == {"pc", "running", "connected", "retries", "delay", "open", "video", "audio"}
StreamTypes ==
    /\ DOMAIN streams = Streams!AllIds /\ \A s \in Streams!AllIds : DOMAIN streams[s] = StreamFields
    /\ heard \in [Streams!AllIds -> [up : BOOLEAN, video : Streams!Codecs \cup {"none"},
                                     audio : BOOLEAN]]
Heard(r, h) ==
    /\ r.connected => /\ h.up /\ h.video = r.video
                      /\ r.audio => h.audio
    /\ r.pc \in {"read", "video", "audio"} => r.connected /\ r.open
    /\ r.pc = "audio" => r.audio
    /\ r.pc = "connect" => ~r.connected
StreamInv == StreamTypes /\ \A s \in Streams!AllIds : Heard(streams[s], heard[s])

(* What a thread changes of its stream. *)
LEMMA FieldsSet ==
  ASSUME NEW f, NEW r, DOMAIN r = StreamFields, DOMAIN f \subseteq StreamFields
  PROVE  /\ DOMAIN Streams!With(f, r) = StreamFields
         /\ \A x \in StreamFields : Streams!With(f, r)[x] = IF x \in DOMAIN f THEN f[x] ELSE r[x]
  BY DEF Streams!With

(* A thread's step keeps what is known of its stream, the others are not concerned. *)
LEMMA ThreadKeeps ==
  ASSUME StreamInv, NEW s \in Streams!AllIds, NEW at, NEW f, DOMAIN f \subseteq StreamFields,
         Streams!Thread(s, at, f),
         NEW h \in [up : BOOLEAN, video : Streams!Codecs \cup {"none"}, audio : BOOLEAN],
         heard' = [heard EXCEPT ![s] = h], Heard(streams'[s], h)
  PROVE  StreamInv'
  <1>1. /\ streams' = [streams EXCEPT ![s] = Streams!With(f, streams[s])] /\ UNCHANGED config
        /\ DOMAIN Streams!With(f, streams[s]) = StreamFields
    BY FieldsSet DEF Streams!Thread, StreamInv, StreamTypes
  <1>2. DOMAIN streams' = Streams!AllIds /\ heard' \in [Streams!AllIds ->
             [up : BOOLEAN, video : Streams!Codecs \cup {"none"}, audio : BOOLEAN]]
    BY <1>1 DEF StreamInv, StreamTypes
  <1>3. \A t \in Streams!AllIds : t # s => streams'[t] = streams[t] /\ heard'[t] = heard[t]
    BY <1>1 DEF StreamInv, StreamTypes
  <1>4. streams'[s] = Streams!With(f, streams[s]) /\ heard'[s] = h
    BY <1>1 DEF StreamInv, StreamTypes
  <1>5. \A t \in Streams!AllIds : DOMAIN streams'[t] = StreamFields
    BY <1>1, <1>3, <1>4 DEF StreamInv, StreamTypes
  <1>6. \A t \in Streams!AllIds : Heard(streams'[t], heard'[t])
    BY <1>3, <1>4 DEF StreamInv
  <1> QED BY <1>2, <1>5, <1>6 DEF StreamInv, StreamTypes, Streams!AllIds, Streams!Codecs

LEMMA StreamsHold ==
  /\ Streams!Init => StreamInv
  /\ StreamInv /\ [Streams!Next]_Streams!streamVars => StreamInv'
  /\ StreamInv => Streams!ContextsOutliveThread /\ Streams!MediaAnnounced
  <1>1. Streams!Init => StreamInv
    BY DEF Streams!Init, Streams!Absent, Streams!Nothing, StreamInv, StreamTypes, StreamFields,
           Heard
  <1>2. ASSUME StreamInv, [Streams!Next]_Streams!streamVars PROVE StreamInv'
    <2>1. CASE \/ Streams!SetupBegin \/ Streams!SetupEnd \/ Streams!JoinAndCleanup
               \/ Streams!Erased \/ Streams!Cleared \/ Streams!StopAll
               \/ \E s \in Streams!AllIds : Streams!RemoveStream(s)
               \/ UNCHANGED Streams!streamVars
      <3>1. heard' = heard
        BY <2>1 DEF Streams!SetupBegin, Streams!SetupEnd, Streams!JoinAndCleanup, Streams!Erased,
             Streams!Cleared, Streams!StopAll, Streams!RemoveStream, Streams!streamVars
      <3>2. CASE UNCHANGED streams
        BY <1>2, <3>1, <3>2 DEF StreamInv, StreamTypes, Heard, Streams!AllIds, Streams!Codecs
      <3>3. CASE \/ \E s : streams' = [streams EXCEPT ![s] = Streams!Absent]
                 \/ streams' = [s \in Streams!AllIds |-> Streams!Absent]
                 \/ \E s : streams' = [streams EXCEPT ![s] =
                               [Streams!Absent EXCEPT !.running = TRUE, !.pc = "lookup"]]
        <4> DEFINE k == [Streams!Absent EXCEPT !.running = TRUE, !.pc = "lookup"]
        <4>1. /\ DOMAIN Streams!Absent = StreamFields /\ DOMAIN k = StreamFields
              /\ Streams!Absent.pc = "absent" /\ k.pc = "lookup"
              /\ ~Streams!Absent.connected /\ ~k.connected
          BY DEF Streams!Absent, StreamFields
        <4> HIDE DEF k
        <4>2. /\ DOMAIN streams' = Streams!AllIds
              /\ \A s \in Streams!AllIds : streams'[s] \in {streams[s], Streams!Absent, k}
          BY <1>2, <3>3 DEF StreamInv, StreamTypes, k
        <4>3. \A s \in Streams!AllIds : DOMAIN streams'[s] = StreamFields
          BY <1>2, <4>1, <4>2 DEF StreamInv, StreamTypes
        <4>4. \A s \in Streams!AllIds : Heard(streams'[s], heard[s])
          BY <1>2, <4>1, <4>2 DEF StreamInv, Heard
        <4> QED BY <1>2, <3>1, <4>2, <4>3, <4>4 DEF StreamInv, StreamTypes, Streams!AllIds, Streams!Codecs
      <3>4. CASE \/ \E s : streams' = [streams EXCEPT ![s].running = FALSE]
                 \/ streams' = [s \in Streams!AllIds |-> [streams[s] EXCEPT !.running = FALSE]]
        <4>1. /\ DOMAIN streams' = Streams!AllIds
              /\ \A s \in Streams!AllIds :
                    \/ streams'[s] = streams[s]
                    \/ streams'[s] = [streams[s] EXCEPT !.running = FALSE]
          BY <1>2, <3>4 DEF StreamInv, StreamTypes
        <4>2. \A s \in Streams!AllIds :
                 /\ DOMAIN streams'[s] = StreamFields
                 /\ \A x \in StreamFields \ {"running"} : streams'[s][x] = streams[s][x]
          BY <1>2, <4>1 DEF StreamInv, StreamTypes
        <4>3. \A s \in Streams!AllIds : Heard(streams'[s], heard[s])
          BY <1>2, <4>2 DEF StreamInv, Heard, StreamFields
        <4> QED BY <1>2, <3>1, <4>1, <4>2, <4>3 DEF StreamInv, StreamTypes, Streams!AllIds, Streams!Codecs
      <3>5. CASE \E s : streams[s].pc = "ended" /\ streams' = [streams EXCEPT ![s].open = FALSE]
        BY <1>2, <3>1, <3>5 DEF StreamInv, StreamTypes, Heard, StreamFields
      <3> QED BY <2>1, <3>2, <3>3, <3>4, <3>5 DEF Streams!SetupBegin, Streams!SetupEnd,
            Streams!JoinAndCleanup, Streams!Joined, Streams!Erased, Streams!Cleared,
            Streams!StopAll, Streams!RemoveStream, Streams!streamVars
    <2>2. ASSUME NEW s \in Streams!AllIds, Streams!CaptureLoop(s) PROVE StreamInv'
      <3> DEFINE r == streams[s]
                 h == heard[s]
      <3>0. /\ DOMAIN r = StreamFields /\ Heard(r, h) /\ DOMAIN streams = Streams!AllIds
            /\ h \in [up : BOOLEAN, video : Streams!Codecs \cup {"none"}, audio : BOOLEAN]
            /\ heard = [heard EXCEPT ![s] = h]
            /\ heard \in [Streams!AllIds -> [up : BOOLEAN, video : Streams!Codecs \cup {"none"},
                                             audio : BOOLEAN]]
        BY <1>2 DEF StreamInv, StreamTypes
      <3>1. ASSUME NEW at, NEW f, DOMAIN f \subseteq StreamFields, Streams!Thread(s, at, f)
            PROVE  /\ r.pc = at /\ streams'[s] = Streams!With(f, r)
                   /\ \A x \in StreamFields : Streams!With(f, r)[x] = IF x \in DOMAIN f THEN f[x] ELSE r[x]
        BY <3>0, <3>1, FieldsSet DEF Streams!Thread
      <3> HIDE DEF r, h
      <3>2. ASSUME NEW at, NEW to, Streams!Thread(s, at, [pc |-> to]), heard' = heard,
                   to \in {"read", "video", "audio"} =>
                       r.connected /\ r.open /\ (to = "audio" => r.audio),
                   to = "connect" => ~r.connected
            PROVE  StreamInv'
        <4> DEFINE f == [pc |-> to]
        <4>1. DOMAIN f = {"pc"} /\ f.pc = to /\ DOMAIN f \subseteq StreamFields
          BY DEF StreamFields
        <4>2. Streams!Thread(s, at, f)
          BY <3>2
        <4> HIDE DEF f
        <4>3. Heard(streams'[s], h)
          BY <3>0, <3>1, <3>2, <4>1, <4>2 DEF Heard, StreamFields
        <4> QED BY <1>2, <3>0, <3>2, <4>1, <4>2, <4>3, ThreadKeeps
      <3>3. CASE Streams!LookupFound(s) \/ Streams!LookupMissed(s) \/ Streams!Wake(s)
                 \/ Streams!ReadNothing(s) \/ Streams!DisconnectMissed(s)
        BY <3>2, <3>3 DEF Streams!LookupFound, Streams!LookupMissed, Streams!Wake,
             Streams!ReadNothing, Streams!DisconnectMissed
      <3>4. CASE Streams!LoopTop(s)
        BY <3>2, <3>4 DEF Streams!LoopTop, r
      <3>5. CASE Streams!Forward(s)
        BY <3>2, <3>5 DEF Streams!Forward
      <3>6. CASE Streams!ReadPacket(s)
        <4>1. PICK kind \in {"video", "audio"} : /\ kind = "audio" => r.audio
                                                 /\ Streams!Thread(s, "read", [pc |-> kind])
          BY <3>6 DEF Streams!ReadPacket, r
        <4>2. r.pc = "read"
          BY <4>1 DEF Streams!Thread, r
        <4> QED BY <3>0, <3>2, <3>6, <4>1, <4>2 DEF Streams!ReadPacket, Heard
      <3>7. CASE Streams!ConnectOk(s)
        <4>1. PICK v \in Streams!Codecs, a \in BOOLEAN :
                 /\ Streams!Thread(s, "connect",
                       [pc |-> "read", connected |-> TRUE, open |-> TRUE, video |-> v,
                        audio |-> a, retries |-> 0, delay |-> Streams!MinDelay])
                 /\ Streams!Announce(s, v, a)
          BY <3>7 DEF Streams!ConnectOk
        <4> DEFINE f == [pc |-> "read", connected |-> TRUE, open |-> TRUE, video |-> v,
                         audio |-> a, retries |-> 0, delay |-> Streams!MinDelay]
                   k == [up |-> TRUE, video |-> v, audio |-> a]
        <4>2. /\ DOMAIN f \subseteq StreamFields
              /\ {"pc", "connected", "open", "video", "audio"} \subseteq DOMAIN f
              /\ f.pc = "read" /\ f.connected /\ f.open /\ f.video = v /\ f.audio = a
          BY DEF StreamFields
        <4>3. /\ k.up /\ k.video = v /\ k.audio = a
              /\ k \in [up : BOOLEAN, video : Streams!Codecs \cup {"none"}, audio : BOOLEAN]
          OBVIOUS
        <4>4. Streams!Thread(s, "connect", f) /\ heard' = [heard EXCEPT ![s] = k]
          BY <4>1 DEF Streams!Announce
        <4> HIDE DEF f, k
        <4>5. Heard(streams'[s], k)
          BY <3>1, <4>2, <4>3, <4>4 DEF Heard, StreamFields
        <4> QED BY <1>2, <4>2, <4>3, <4>4, <4>5, ThreadKeeps
      <3>8. CASE Streams!ConnectFail(s)
        <4>1. PICK n, open :
                 /\ heard' = heard
                 /\ \/ Streams!Thread(s, "connect", [pc |-> "ended", retries |-> n, open |-> open])
                    \/ \E d : Streams!Thread(s, "connect",
                                  [pc |-> "sleep", retries |-> n, open |-> open, delay |-> d])
          <5> DEFINE count == Streams!Min({streams[s].retries + 1,
                                           Streams!Max({config.maxRetry, 1})})
                     gone(open) == [pc |-> "ended", retries |-> count, open |-> open]
                     later(open) == [pc |-> "sleep", retries |-> count, open |-> open,
                                     delay |-> Streams!Min({2 * streams[s].delay, Streams!MaxDelay})]
          <5>1. \E open \in BOOLEAN : Streams!Thread(s, "connect",
                     IF Streams!GivesUp(count) THEN gone(open) ELSE later(open))
            BY <3>8 DEF Streams!ConnectFail
          <5>3. PICK open \in BOOLEAN : \/ Streams!Thread(s, "connect", gone(open))
                                       \/ Streams!Thread(s, "connect", later(open))
            <6> HIDE DEF gone, later
            <6> QED BY <5>1
          <5>2. heard' = heard
            BY <3>8 DEF Streams!ConnectFail
          <5> QED BY <5>2, <5>3
        <4> DEFINE Fails(f) == /\ DOMAIN f \subseteq StreamFields \ {"connected", "video", "audio"}
                               /\ "pc" \in DOMAIN f /\ f.pc \in {"ended", "sleep"}
                               /\ Streams!Thread(s, "connect", f)
        <4>2. PICK f : Fails(f)
          <5>1. CASE Streams!Thread(s, "connect", [pc |-> "ended", retries |-> n, open |-> open])
            BY <5>1 DEF StreamFields
          <5>2. ASSUME NEW d, Streams!Thread(s, "connect",
                          [pc |-> "sleep", retries |-> n, open |-> open, delay |-> d])
                PROVE  \E f : Fails(f)
            BY <5>2 DEF StreamFields
          <5> QED BY <4>1, <5>1, <5>2
        <4>3. Heard(streams'[s], h)
          BY <3>0, <3>1, <4>2 DEF Heard, StreamFields
        <4> QED BY <1>2, <3>0, <4>1, <4>2, <4>3, ThreadKeeps
      <3>9. CASE Streams!Disconnect(s)
        <4> DEFINE f == [pc |-> "loop", connected |-> FALSE, open |-> FALSE]
                   k == [h EXCEPT !.up = FALSE]
        <4>1. /\ DOMAIN f = {"pc", "connected", "open"} /\ DOMAIN f \subseteq StreamFields
              /\ f.pc = "loop" /\ ~f.connected
          BY DEF StreamFields
        <4>2. k \in [up : BOOLEAN, video : Streams!Codecs \cup {"none"}, audio : BOOLEAN]
          BY <3>0
        <4>3. Streams!Thread(s, "read", f) /\ heard' = [heard EXCEPT ![s] = k]
          BY <3>0, <3>9 DEF Streams!Disconnect, h
        <4> HIDE DEF f, k
        <4>4. Heard(streams'[s], k)
          BY <3>1, <4>1, <4>3 DEF Heard, StreamFields
        <4> QED BY <1>2, <4>1, <4>2, <4>3, <4>4, ThreadKeeps
      <3> QED BY <2>2, <3>3, <3>4, <3>5, <3>6, <3>7, <3>8, <3>9 DEF Streams!CaptureLoop
    <2> QED BY <1>2, <2>1, <2>2 DEF Streams!Next, Streams!Owner
  <1>3. StreamInv => Streams!ContextsOutliveThread /\ Streams!MediaAnnounced
    BY DEF StreamInv, Heard, Streams!ContextsOutliveThread, Streams!MediaAnnounced
  <1> QED BY <1>1, <1>2, <1>3

-----------------------------------------------------------------------------
(* capture_file. *)

(* The video packets of a pass that are still to come are later than the one last shown,  *)
(* and the pass after that begins later still.                                            *)
Timed(f) == f.packets \in Seq([kind : {"video", "audio"}, pts : Nat])
Coming(i) == /\ i \in DOMAIN file.packets /\ file.packets[i].kind = "video"
             /\ i > player.pos \/ (i = player.pos /\ player.pc = "pace")
Playing(n) == [pc : {"init", "loop", "read", "pace", "ended", "failed", "stopped"},
               pos : 0..n, offset : Nat, last : Nat, pass : Nat, left : Int]
PlayTypes ==
    /\ file \in Files /\ played \in [video : Int, audio : Int]
    /\ player \in Playing(Len(file.packets))
PlayInv == /\ PlayTypes
           /\ player.pc = "pace" => player.pos > 0
           /\ played.video <= player.last
           /\ File!Increasing("video") =>
                \A i \in DOMAIN file.packets :
                    Coming(i) => file.packets[i].pts + player.offset > played.video

LEMMA PlayHolds ==
  ASSUME \A f \in Files : Timed(f)
  PROVE  /\ File!Init => PlayInv
         /\ PlayInv /\ [File!Next]_File!fileVars =>
              /\ PlayInv'
              /\ [File!Increasing("video") /\ played'.video # played.video
                     => played'.video > played.video]_File!fileVars
  <1>0. PlayTypes => /\ Len(file.packets) \in Nat
                     /\ DOMAIN file.packets = 1..Len(file.packets)
                     /\ \A i \in DOMAIN file.packets : file.packets[i].pts \in Nat
                     /\ \A i \in DOMAIN file.packets : file.packets[i].kind \in {"video", "audio"}
    <2> SUFFICES ASSUME PlayTypes
                 PROVE  /\ Len(file.packets) \in Nat
                        /\ DOMAIN file.packets = 1..Len(file.packets)
                        /\ \A i \in DOMAIN file.packets :
                              file.packets[i] \in [kind : {"video", "audio"}, pts : Nat]
      OBVIOUS
    <2> DEFINE P == [kind : {"video", "audio"}, pts : Nat]
    <2>1. file.packets \in Seq(P)
      BY DEF PlayTypes, Timed
    <2> HIDE DEF PlayTypes, P
    <2>2. Len(file.packets) \in Nat /\ DOMAIN file.packets = 1..Len(file.packets)
      BY <2>1, LenProperties
    <2>3. \A i \in 1..Len(file.packets) : file.packets[i] \in P
      BY <2>1, ElementOfSeq
    <2> QED BY <2>2, <2>3 DEF P
  <1>1. ASSUME File!Init PROVE PlayInv
    <2>1. PlayTypes
      <3>1. Len(file.packets) \in Nat
        BY <1>1, LenProperties DEF File!Init, Timed
      <3> QED BY <1>1, <3>1 DEF File!Init, PlayTypes, Playing
    <2>2. player.offset = 0 /\ player.last = 0 /\ player.pc = "init" /\ played.video = -1
      BY <1>1 DEF File!Init
    <2> QED BY <1>0, <2>1, <2>2 DEF PlayInv
  <1>2. ASSUME PlayInv, File!Next
        PROVE  /\ PlayInv'
               /\ File!Increasing("video") /\ played'.video # played.video
                     => played'.video > played.video
    <2>0. /\ file' = file /\ Len(file.packets) \in Nat
          /\ DOMAIN file.packets = 1..Len(file.packets)
          /\ \A i \in DOMAIN file.packets : file.packets[i].pts \in Nat
          /\ File!Increasing("video")' = File!Increasing("video")
          /\ PlayTypes
      <3>1. file' = file
        BY <1>2 DEF File!Next, File!Start, File!StartFails, File!Replay, File!LoopTop, File!Read,
             File!Chunk, File!Emit, File!Rewind, File!Ends, File!Stop, File!Joined
      <3> QED BY <1>0, <1>2, <3>1 DEF PlayInv, File!Increasing
    <2>1. CASE \/ File!Start \/ File!StartFails \/ File!LoopTop \/ File!Ends \/ File!Stop
               \/ File!Joined \/ File!Chunk
      <3>1. /\ UNCHANGED <<file, played>>
            /\ \/ player' = player
               \/ \E to \in {"failed", "loop", "read", "ended", "stopped"} :
                      player' = [player EXCEPT !.pc = to]
               \/ player' = [player EXCEPT !.left = @ - 1]
        BY <2>1 DEF File!Start, File!StartFails, File!LoopTop, File!Ends, File!Stop, File!Joined,
             File!Chunk, File!Goto
      <3>2. /\ player'.pos = player.pos /\ player'.offset = player.offset
            /\ player'.last = player.last
            /\ player'.pc = "pace" => player.pc = "pace"
            /\ player' \in Playing(Len(file.packets))
        BY <2>0, <3>1 DEF PlayTypes, Playing
      <3>3. PlayTypes'
        BY <2>0, <3>1, <3>2 DEF PlayTypes
      <3> HIDE DEF PlayTypes
      <3>4. \A i : Coming(i)' => Coming(i)
        BY <2>0, <3>2 DEF Coming
      <3> QED BY <1>2, <2>0, <3>1, <3>2, <3>3, <3>4 DEF PlayInv
    <2>2. CASE File!Read
      <3>1. /\ player.pos < Len(file.packets) /\ UNCHANGED <<file, played>>
        BY <2>2 DEF File!Read
      <3>a. PICK w \in 0..2 : player' = [player EXCEPT !.pc = "pace", !.pos = @ + 1, !.left = w]
        <4> DEFINE wait == IF file.realtime /\ file.packets[player.pos + 1].kind = "video"
                           THEN 0..2 ELSE {0}
        <4>1. \E w \in wait : player' = [player EXCEPT !.pc = "pace", !.pos = @ + 1, !.left = w]
          BY <2>2 DEF File!Read
        <4>2. wait \subseteq 0..2
          OBVIOUS
        <4> HIDE DEF wait
        <4> QED BY <4>1, <4>2
      <3>2. /\ player'.pos = player.pos + 1 /\ player'.offset = player.offset
            /\ player'.last = player.last /\ player'.pc = "pace" /\ player.pos \in Nat
            /\ player' \in Playing(Len(file.packets))
        <4> DEFINE n == Len(file.packets)
        <4>1. n \in Nat /\ player \in Playing(n) /\ played \in [video : Int, audio : Int]
          BY <2>0 DEF PlayTypes
        <4>2. player.pos < n => player.pos + 1 \in 0..n
          BY <4>1 DEF Playing
        <4>3. player.pos < n
          BY <3>1
        <4> HIDE DEF n
        <4>4. /\ player'.pos = player.pos + 1 /\ player'.offset = player.offset
              /\ player'.last = player.last /\ player'.pc = "pace" /\ player.pos \in Nat
              /\ player' \in Playing(n)
          <5>1. player' = [pc |-> "pace", pos |-> player.pos + 1, offset |-> player.offset,
                           last |-> player.last, pass |-> player.pass, left |-> w]
            BY <3>a, <4>1 DEF Playing
          <5> QED BY <5>1, <4>1, <4>2, <4>3 DEF Playing
        <4> QED BY <4>4 DEF n
      <3>3. PlayTypes'
        BY <2>0, <3>1, <3>2 DEF PlayTypes
      <3>4. \A i : Coming(i)' => Coming(i)
        BY <2>0, <3>2 DEF Coming
      <3> QED BY <1>2, <2>0, <3>1, <3>2, <3>3, <3>4 DEF PlayInv
    <2>3. CASE File!Emit
      <3> DEFINE p == file.packets[player.pos]
                 t == p.pts + player.offset
      <3>1. /\ player.pc = "pace" /\ file' = file
            /\ played' = [played EXCEPT ![p.kind] = t]
            /\ player' = [player EXCEPT !.pc = "loop", !.left = 0,
                                        !.last = IF p.kind = "video" THEN t ELSE @]
        BY <2>3 DEF File!Emit, File!Packet
      <3>2. /\ player.pos \in DOMAIN file.packets /\ player.pos \in Nat
            /\ p.kind \in {"video", "audio"} /\ p.pts \in Nat /\ player.offset \in Nat
            /\ player.last \in Nat /\ played \in [video : Int, audio : Int]
        BY <1>0, <1>2, <2>0, <3>1 DEF PlayInv, PlayTypes, Playing
      <3>a. t \in Nat
        BY <3>2
      <3>3. /\ player'.pos = player.pos /\ player'.offset = player.offset /\ player'.pc = "loop"
            /\ player'.last = IF p.kind = "video" THEN t ELSE player.last
            /\ played'.video = IF p.kind = "video" THEN t ELSE played.video
            /\ played' \in [video : Int, audio : Int]
            /\ player' \in Playing(Len(file.packets))
        <4> DEFINE end == IF p.kind = "video" THEN t ELSE player.last
        <4>1. end \in Nat /\ player' = [player EXCEPT !.pc = "loop", !.left = 0, !.last = end]
          BY <3>1, <3>2, <3>a
        <4>2. /\ played'.video = IF p.kind = "video" THEN t ELSE played.video
              /\ played' \in [video : Int, audio : Int]
          <5> HIDE DEF p, t
          <5> QED BY <3>1, <3>2, <3>a
        <4>3. player'.last = end
              /\ player'.pos = player.pos /\ player'.offset = player.offset /\ player'.pc = "loop"
              /\ player' \in Playing(Len(file.packets))
          <5> HIDE DEF end
          <5> DEFINE n == Len(file.packets)
          <5>1. n \in Nat /\ player \in Playing(n) /\ played \in [video : Int, audio : Int]
            BY <2>0 DEF PlayTypes
          <5> HIDE DEF n
          <5>2. player'.last = end
                /\ player'.pos = player.pos /\ player'.offset = player.offset
                /\ player'.pc = "loop" /\ player' \in Playing(n)
            <6>1. player' = [pc |-> "loop", pos |-> player.pos, offset |-> player.offset,
                             last |-> end, pass |-> player.pass, left |-> 0]
              BY <4>1, <5>1 DEF Playing
            <6> QED BY <6>1, <4>1, <5>1 DEF Playing
          <5> QED BY <5>2 DEF n
        <4> QED BY <4>2, <4>3
      <3>4. PlayTypes'
        BY <2>0, <3>1, <3>3 DEF PlayTypes
      <3>5. \A i : Coming(i)' <=> Coming(i) /\ i > player.pos
        BY <2>0, <3>2, <3>3 DEF Coming
      <3>6. p.kind = "video" => Coming(player.pos)
        BY <3>1, <3>2 DEF Coming
      <3>7. File!Increasing("video") /\ p.kind = "video" => t > played.video
        BY <1>2, <3>2, <3>6 DEF PlayInv
      <3>8. File!Increasing("video") /\ p.kind = "video" =>
               \A i \in DOMAIN file.packets : Coming(i)' => file.packets[i].pts > p.pts
        BY <3>2, <3>5 DEF Coming, File!Increasing
      <3>9. File!Increasing("video") =>
               \A i \in DOMAIN file.packets :
                    Coming(i)' => file.packets[i].pts + player.offset > played'.video
        <4>1. CASE p.kind = "video"
          <5>1. \A a \in Nat, b \in Nat, c \in Nat : a > b => a + c > b + c
            OBVIOUS
          <5> QED BY <2>0, <3>2, <3>3, <3>8, <4>1, <5>1
        <4>2. CASE p.kind # "video"
          BY <1>2, <3>3, <3>5, <4>2 DEF PlayInv
        <4> QED BY <4>1, <4>2
      <3> HIDE DEF p, t
      <3> QED BY <1>2, <2>0, <3>3, <3>4, <3>7, <3>9, <3>a DEF PlayInv
    <2>4. CASE File!Rewind
      <3>1. /\ UNCHANGED <<file, played>>
            /\ player' = [player EXCEPT !.pc = "loop", !.pos = 0, !.offset = player.last + 1,
                                        !.pass = @ + 1]
        BY <2>4 DEF File!Rewind, File!NextOffset, File!FrameDur
      <3>2. /\ player'.offset = player.last + 1 /\ player'.last = player.last
            /\ player'.pc = "loop" /\ player.last \in Nat /\ played.video \in Int
            /\ player' \in Playing(Len(file.packets))
        <4> DEFINE n == Len(file.packets)
        <4>1. n \in Nat /\ player \in Playing(n) /\ played \in [video : Int, audio : Int]
          BY <2>0 DEF PlayTypes
        <4>2. 0 \in 0..n
          BY <4>1
        <4>3. UNCHANGED played
          BY <3>1
        <4> HIDE DEF n
        <4>4. /\ player'.offset = player.last + 1 /\ player'.last = player.last
              /\ player'.pc = "loop" /\ player.last \in Nat /\ player' \in Playing(n)
          <5>1. player' = [pc |-> "loop", pos |-> 0, offset |-> player.last + 1,
                           last |-> player.last, pass |-> player.pass + 1, left |-> player.left]
            BY <3>1, <4>1 DEF Playing
          <5> QED BY <5>1, <4>1, <4>2 DEF Playing
        <4> QED BY <4>1, <4>4 DEF n
      <3>3. PlayTypes'
        BY <2>0, <3>1, <3>2 DEF PlayTypes
      <3> QED BY <1>2, <2>0, <3>1, <3>2, <3>3 DEF PlayInv
    <2> QED BY <1>2, <2>1, <2>2, <2>3, <2>4 DEF File!Next, File!Replay
  <1>3. ASSUME PlayInv, UNCHANGED File!fileVars PROVE PlayInv'
    BY <1>3 DEF File!fileVars, PlayInv, PlayTypes, Playing, Coming, File!Increasing
  <1> QED BY <1>1, <1>2, <1>3

-----------------------------------------------------------------------------
(* The path of the media: decode_ffmpeg, decode_detect, encode_ffmpeg, the link. *)

(* The setups; and those where a surface goes to no stage with a queue before it, but to   *)
(* the encoder.                                                                            *)
Wired(s) == /\ QueueDepth \in Nat \ {0} /\ s.hwaccel \in BOOLEAN
            /\ \A i \in DOMAIN s.conns : s.conns[i].codec \notin {"none", "forwarded"}
Fused(s) == s.hwaccel => s.below # "detect"

Packets == {setup.conns[i] : i \in DOMAIN setup.conns}
FramesOf == [id : Nat, gpu : {FALSE, setup.hwaccel}, size : {p.size : p \in Packets} \cup {0}]
DecoderFields == {"ready", "codec", "scaler", "subscribed", "packet", "frame", "count"}
MediaTypes ==
    /\ setup \in MediaSetups
    /\ input \in [conn : 0..Len(setup.conns), n : [DOMAIN setup.conns -> Nat]]
    /\ ring \in Seq(Packets) /\ queue \in [decode : Seq(Packets), below : Seq(FramesOf)]
    /\ DOMAIN decoder = DecoderFields /\ decoder.frame \in FramesOf /\ decoder.count \in Nat
    /\ decoder.ready \in BOOLEAN /\ decoder.subscribed \in BOOLEAN
    /\ below \in [frame : FramesOf, announced : BOOLEAN]
(* A surface is held while its frame is in hand and has not gone on. *)
Held == Fused(setup) =>
        /\ used # "freed"
        /\ decoder.frame # Media!NoFrame /\ decoder.packet # "forwarded" /\ decoder.frame.gpu
             => decoder.frame.id \in surfaces
(* Nothing has been decoded while there is no decoder, and it listens until then. *)
Undecoded == /\ decoder.subscribed <=> ~decoder.ready
             /\ ~decoder.ready => /\ decoder.frame = Media!NoFrame /\ queue.below = << >>
                                  /\ below.frame = Media!NoFrame
             /\ input.conn = 0 => ring = << >> /\ queue.decode = << >>
(* Packets come after metadata, and the decoder is made of these. *)
Codecs == {setup.conns[i].codec : i \in DOMAIN setup.conns}
Learned == /\ input.conn > 0 /\ ~decoder.ready => codecKnown \in Codecs
           /\ decoder.ready => decoder.codec \in Codecs
MediaInv == MediaTypes /\ Held /\ Undecoded /\ Learned

(* A queue stays one of its things. *)
LEMMA Enqueued ==
  ASSUME NEW S, NEW q \in Seq(S), NEW x \in S, QueueDepth \in Nat \ {0}
  PROVE  Media!Enqueue(q, x) \in Seq(S) /\ Media!Enqueue(q, x) # << >>
  <1>1. CASE Len(q) < QueueDepth
    BY <1>1, AppendProperties DEF Media!Enqueue
  <1>2. CASE ~(Len(q) < QueueDepth)
    <2>1. q # << >>
      BY <1>2, EmptySeq
    <2>2. Tail(q) \in Seq(S)
      BY <2>1, HeadTailProperties
    <2> QED BY <1>2, <2>2, AppendProperties DEF Media!Enqueue
  <1> QED BY <1>1, <1>2

LEMMA MediaHolds ==
  ASSUME NEW C, \A s \in MediaSetups : Wired(s) /\ s.conns \in Seq(C)
  PROVE  /\ Media!Init => MediaInv
         /\ MediaInv /\ [Media!Next]_Media!mediaVars => MediaInv'
         /\ MediaInv => (Fused(setup) => Media!SurfaceAlive) /\ Media!CodecAnnounced
  <1>1. ASSUME Media!Init PROVE MediaInv
    <2>1. /\ Len(setup.conns) \in Nat /\ << >> \in Seq(Packets) /\ << >> \in Seq(FramesOf)
      BY <1>1, EmptySeq, LenProperties DEF Media!Init
    <2>2. Media!NoFrame \in FramesOf
      BY DEF Media!NoFrame, FramesOf
    <2>3. MediaTypes
      BY <1>1, <2>1, <2>2 DEF Media!Init, MediaTypes, DecoderFields
    <2> QED BY <1>1, <2>3 DEF Media!Init, MediaInv, Held, Undecoded, Learned
  <1>2. ASSUME MediaInv, Media!Next PROVE MediaInv'
    <2>0. /\ setup' = setup /\ Packets' = Packets /\ FramesOf' = FramesOf /\ Codecs' = Codecs
          /\ Fused(setup)' = Fused(setup) /\ setup \in MediaSetups /\ Wired(setup)
          /\ Len(setup.conns) \in Nat /\ DOMAIN setup.conns = 1..Len(setup.conns)
      <3>1. setup' = setup
        BY <1>2 DEF Media!Next, Media!Connect, Media!Capture, Media!Pump, Media!DropUnwanted,
             Media!DecodePacket, Media!ForwardFrame, Media!ReleaseFrame, Media!DetectFused, Media!Take,
             Media!Detect, Media!Encode
      <3>2. setup \in MediaSetups
        BY <1>2 DEF MediaInv, MediaTypes
      <3> QED BY <3>1, <3>2, LenProperties DEF Packets, FramesOf, Codecs, Fused
    <2>1. CASE Media!Connect
      <3>1. /\ input.conn + 1 \in DOMAIN setup.conns /\ input.conn < Len(setup.conns)
            /\ input' = [conn |-> input.conn + 1, n |-> input.n]
            /\ codecKnown' = IF decoder.subscribed THEN setup.conns[input.conn + 1].codec
                             ELSE codecKnown
            /\ UNCHANGED <<setup, ring, sent, decoder, queue, surfaces, below, used>>
        <4>1. input = [conn |-> input.conn, n |-> input.n]
          BY <1>2 DEF MediaInv, MediaTypes
        <4>2. input.conn \in Nat /\ input.conn < Len(setup.conns)
          BY <1>2, <2>0, <2>1 DEF Media!Connect, MediaInv, MediaTypes
        <4>3. input.conn + 1 \in DOMAIN setup.conns
          BY <2>0, <4>2
        <4>4. input' = [conn |-> input.conn + 1, n |-> input.n]
          BY <2>1, <4>1 DEF Media!Connect
        <4>5. codecKnown' = IF decoder.subscribed THEN setup.conns[input.conn + 1].codec
                            ELSE codecKnown
          BY <2>1 DEF Media!Connect, Media!Announce, Media!Learn
        <4> QED BY <2>1, <4>2, <4>3, <4>4, <4>5 DEF Media!Connect
      <3>2. MediaTypes' /\ Held' /\ Undecoded'
        BY <1>2, <2>0, <3>1 DEF MediaInv, MediaTypes, Held, Undecoded, Media!NoFrame
      <3>3. setup.conns[input.conn + 1].codec \in Codecs
        BY <3>1 DEF Codecs
      <3>4. Learned'
        BY <1>2, <2>0, <3>1, <3>3 DEF MediaInv, Undecoded, Learned
      <3> QED BY <3>2, <3>4 DEF MediaInv
    <2>2. CASE Media!Capture
      <3>1. PICK k \in Media!Open :
              /\ input' = [input EXCEPT !.n[k] = @ + 1]
              /\ ring' = ring \/ ring' = Append(ring, setup.conns[k])
        BY <2>2 DEF Media!Capture
      <3>2. /\ input \in [conn : 0..Len(setup.conns), n : [DOMAIN setup.conns -> Nat]]
            /\ ring \in Seq(Packets)
        BY <1>2 DEF MediaInv, MediaTypes
      <3>3. k \in 1..input.conn /\ k \in DOMAIN setup.conns /\ input.conn > 0
        BY <2>0, <3>1, <3>2 DEF Media!Open
      <3>4. setup.conns[k] \in Packets
        BY <3>3 DEF Packets
      <3>5. ring' \in Seq(Packets)
        <4>1. CASE ring' = ring
          BY <3>2, <4>1
        <4>2. CASE ring' = Append(ring, setup.conns[k])
          BY <3>2, <3>4, <4>2, AppendProperties
        <4> QED BY <3>1, <4>1, <4>2
      <3>6. /\ input'.conn = input.conn
            /\ input' \in [conn : 0..Len(setup.conns), n : [DOMAIN setup.conns -> Nat]]
        <4> DEFINE counts == [input.n EXCEPT ![k] = @ + 1]
        <4>1. input' = [input EXCEPT !.n = counts]
          BY <3>1, <3>2
        <4>2. counts \in [DOMAIN setup.conns -> Nat]
          BY <3>2, <3>3
        <4> HIDE DEF counts
        <4> QED BY <3>2, <4>1, <4>2
      <3>7. UNCHANGED <<setup, codecKnown, decoder, queue, surfaces, below, used>>
        BY <2>2 DEF Media!Capture
      <3> QED BY <1>2, <2>0, <3>3, <3>5, <3>6, <3>7 DEF MediaInv, MediaTypes, Held, Undecoded, Learned,
                Media!NoFrame
    <2>3. CASE Media!Pump
      <3>1. /\ ring # << >> /\ ring' = Tail(ring)
            /\ queue' = [queue EXCEPT !.decode = Media!Enqueue(@, Head(ring))]
            /\ UNCHANGED <<setup, input, codecKnown, decoder, surfaces, below, used>>
        BY <2>3 DEF Media!Pump
      <3>2. /\ Head(ring) \in Packets /\ Tail(ring) \in Seq(Packets)
        BY <1>2, <3>1, HeadTailProperties DEF MediaInv, MediaTypes
      <3>3. Media!Enqueue(queue.decode, Head(ring)) \in Seq(Packets)
        BY <1>2, <2>0, <3>2, Enqueued DEF MediaInv, MediaTypes, Wired
      <3>4. /\ queue' \in [decode : Seq(Packets), below : Seq(FramesOf)]
            /\ queue'.below = queue.below
        BY <1>2, <3>1, <3>3 DEF MediaInv, MediaTypes
      <3> QED BY <1>2, <2>0, <3>1, <3>2, <3>4 DEF MediaInv, MediaTypes, Held, Undecoded, Learned,
                Media!NoFrame
    <2>10. CASE Media!DropUnwanted
      <3>1. /\ queue.decode # << >> /\ queue' = [queue EXCEPT !.decode = Tail(@)]
            /\ UNCHANGED <<setup, input, ring, codecKnown, decoder, surfaces, below, used>>
        BY <2>10 DEF Media!DropUnwanted
      <3>2. Tail(queue.decode) \in Seq(Packets) /\ input.conn # 0
        BY <1>2, <3>1, HeadTailProperties DEF MediaInv, MediaTypes, Undecoded
      <3>3. /\ queue' \in [decode : Seq(Packets), below : Seq(FramesOf)]
            /\ queue'.below = queue.below
        BY <1>2, <3>1, <3>2 DEF MediaInv, MediaTypes
      <3> QED BY <1>2, <2>0, <3>1, <3>2, <3>3 DEF MediaInv, MediaTypes, Held, Undecoded, Learned,
                Media!NoFrame
    <2>4. CASE Media!DecodePacket
      <3> DEFINE d == Media!Ensured
                 p == Head(queue.decode)
                 f == [id |-> decoder.count + 1, gpu |-> setup.hwaccel, size |-> p.size]
      <3>1. /\ DOMAIN d = DecoderFields /\ d.ready = TRUE /\ d.subscribed = FALSE
            /\ d.frame = decoder.frame /\ d.count = decoder.count /\ d.packet = decoder.packet
            /\ input.conn > 0 => d.codec \in Codecs
        <4>1. CASE decoder.ready
          BY <1>2, <4>1 DEF Media!Ensured, MediaInv, MediaTypes, Undecoded, Learned
        <4>2. CASE ~decoder.ready
          <5>1. "none" \notin Codecs
            BY <2>0 DEF Wired, Codecs
          <5> QED BY <1>2, <4>2, <5>1 DEF Media!Ensured, MediaInv, MediaTypes, Undecoded, Learned,
                     DecoderFields
        <4> QED BY <4>1, <4>2
      <3>2. /\ decoder.frame = Media!NoFrame /\ queue.decode # << >>
            /\ \/ /\ decoder' = [d EXCEPT !.packet = p.codec, !.frame = f, !.count = @ + 1]
                  /\ surfaces' = IF f.gpu THEN surfaces \cup {f.id} ELSE surfaces
               \/ /\ decoder' = [d EXCEPT !.packet = p.codec]
                  /\ surfaces' = surfaces
            /\ queue' = [queue EXCEPT !.decode = Tail(@)]
            /\ UNCHANGED <<setup, input, ring, codecKnown, below, used>>
        BY <2>4 DEF Media!DecodePacket
      <3>3. p \in Packets /\ Tail(queue.decode) \in Seq(Packets) /\ input.conn > 0
        BY <1>2, <3>2, HeadTailProperties DEF MediaInv, MediaTypes, Undecoded
      <3>4. f \in FramesOf /\ f.gpu = setup.hwaccel
        <4>1. p.size \in {x.size : x \in Packets} \cup {0} /\ setup.hwaccel \in {FALSE, setup.hwaccel}
          BY <3>3
        <4> HIDE DEF p
        <4> QED BY <1>2, <4>1 DEF FramesOf, MediaInv, MediaTypes
      <3>5. /\ queue' \in [decode : Seq(Packets), below : Seq(FramesOf)]
            /\ queue'.below = queue.below
        BY <1>2, <3>2, <3>3 DEF MediaInv, MediaTypes
      <3> HIDE DEF d, p, f
      <3>6. /\ DOMAIN decoder' = DecoderFields /\ decoder'.ready = TRUE /\ decoder'.subscribed = FALSE
            /\ decoder'.codec = d.codec /\ decoder'.count \in Nat
            /\ \/ decoder'.frame = f /\ (f.gpu => f.id \in surfaces')
               \/ decoder'.frame = decoder.frame
        <4>1. decoder.count \in Nat
          BY <1>2 DEF MediaInv, MediaTypes
        <4>2. CASE /\ decoder' = [d EXCEPT !.packet = p.codec, !.frame = f, !.count = @ + 1]
                   /\ surfaces' = IF f.gpu THEN surfaces \cup {f.id} ELSE surfaces
          BY <3>1, <4>1, <4>2 DEF DecoderFields
        <4>3. CASE decoder' = [d EXCEPT !.packet = p.codec]
          BY <3>1, <4>1, <4>3 DEF DecoderFields
        <4> QED BY <3>2, <4>2, <4>3
      <3>7. MediaTypes'
        <4>1. decoder'.frame \in FramesOf
          BY <1>2, <3>4, <3>6 DEF MediaInv, MediaTypes
        <4>2. UNCHANGED <<input, ring, below>>
          BY <3>2
        <4> QED BY <1>2, <2>0, <3>5, <3>6, <4>1, <4>2 DEF MediaInv, MediaTypes
      <3>8. Held' /\ Undecoded' /\ Learned'
        BY <1>2, <2>0, <3>1, <3>2, <3>3, <3>5, <3>6 DEF MediaInv, Held, Undecoded, Learned,
             Media!NoFrame
      <3> QED BY <3>7, <3>8 DEF MediaInv
    <2>5. CASE Media!ForwardFrame
      <3> DEFINE s == IF decoder.frame.gpu \/ ~Media!Converts(decoder.frame.size) THEN decoder.scaler
                      ELSE Media!ScalerFor(decoder.frame.size)
      <3>1. /\ decoder.frame # Media!NoFrame
            /\ queue' = [queue EXCEPT !.below = Media!Enqueue(@, decoder.frame)]
            /\ decoder' = [decoder EXCEPT !.packet = "forwarded", !.scaler = s]
            /\ UNCHANGED <<setup, input, ring, codecKnown, surfaces, below, used>>
        BY <2>5 DEF Media!ForwardFrame
      <3> HIDE DEF s
      <3>2. Media!Enqueue(queue.below, decoder.frame) \in Seq(FramesOf)
        BY <1>2, <2>0, Enqueued DEF MediaInv, MediaTypes, Wired
      <3>3. /\ queue' \in [decode : Seq(Packets), below : Seq(FramesOf)]
            /\ queue'.decode = queue.decode
        BY <1>2, <3>1, <3>2 DEF MediaInv, MediaTypes
      <3>4. /\ DOMAIN decoder' = DecoderFields /\ decoder'.packet = "forwarded"
            /\ \A x \in DecoderFields \ {"packet", "scaler"} : decoder'[x] = decoder[x]
        BY <1>2, <3>1 DEF MediaInv, MediaTypes, DecoderFields
      <3>5. /\ decoder'.ready = decoder.ready /\ decoder'.subscribed = decoder.subscribed
            /\ decoder'.frame = decoder.frame /\ decoder'.count = decoder.count
            /\ decoder'.codec = decoder.codec
        BY <3>4 DEF DecoderFields
      <3>6. MediaTypes'
        BY <1>2, <2>0, <3>1, <3>3, <3>4, <3>5 DEF MediaInv, MediaTypes
      <3>7. Held' /\ Undecoded' /\ Learned'
        BY <1>2, <2>0, <3>1, <3>3, <3>4, <3>5 DEF MediaInv, Held, Undecoded, Learned, Media!NoFrame
      <3> QED BY <3>6, <3>7 DEF MediaInv
    <2>6. CASE Media!ReleaseFrame \/ Media!DetectFused
      <3>1. /\ \/ decoder' = [decoder EXCEPT !.frame = Media!NoFrame, !.packet = "none"]
               \/ decoder' = [decoder EXCEPT !.packet = "forwarded"]
            /\ UNCHANGED <<setup, input, ring, codecKnown, queue, below>>
        BY <2>6 DEF Media!ReleaseFrame, Media!DetectFused
      <3>2. Fused(setup) => used' # "freed"
        BY <1>2, <2>6 DEF Media!ReleaseFrame, Media!DetectFused, MediaInv, Held
      <3>3. /\ DOMAIN decoder' = DecoderFields
            /\ decoder'.packet = "forwarded" \/ decoder'.frame = Media!NoFrame
            /\ decoder'.frame \in {decoder.frame, Media!NoFrame}
            /\ \A x \in DecoderFields \ {"packet", "frame"} : decoder'[x] = decoder[x]
        BY <1>2, <3>1 DEF MediaInv, MediaTypes, DecoderFields
      <3>4. /\ decoder'.ready = decoder.ready /\ decoder'.subscribed = decoder.subscribed
            /\ decoder'.count = decoder.count /\ decoder'.codec = decoder.codec
        BY <3>3 DEF DecoderFields
      <3>5. Media!NoFrame \in FramesOf
        BY DEF Media!NoFrame, FramesOf
      <3>6. MediaTypes'
        BY <1>2, <2>0, <3>1, <3>3, <3>4, <3>5 DEF MediaInv, MediaTypes
      <3>7. Held' /\ Undecoded' /\ Learned'
        BY <1>2, <2>0, <3>1, <3>2, <3>3, <3>4 DEF MediaInv, Held, Undecoded, Learned, Media!NoFrame
      <3> QED BY <3>6, <3>7 DEF MediaInv
    <2>7. CASE Media!Take
      <3>1. /\ queue.below # << >> /\ below' = [below EXCEPT !.frame = Head(queue.below)]
            /\ queue' = [queue EXCEPT !.below = Tail(@)]
            /\ UNCHANGED <<setup, input, ring, codecKnown, decoder, surfaces, used>>
        BY <2>7 DEF Media!Take
      <3>2. Head(queue.below) \in FramesOf /\ Tail(queue.below) \in Seq(FramesOf)
        BY <1>2, <3>1, HeadTailProperties DEF MediaInv, MediaTypes
      <3>3. /\ queue' \in [decode : Seq(Packets), below : Seq(FramesOf)]
            /\ queue'.decode = queue.decode /\ below' \in [frame : FramesOf, announced : BOOLEAN]
        BY <1>2, <3>1, <3>2 DEF MediaInv, MediaTypes
      <3>4. decoder.ready
        BY <1>2, <3>1 DEF MediaInv, Undecoded
      <3> QED BY <1>2, <2>0, <3>1, <3>3, <3>4 DEF MediaInv, MediaTypes, Held, Undecoded, Learned,
                Media!NoFrame
    <2>8. CASE Media!Detect
      <3>1. /\ setup.below = "detect" /\ below.frame # Media!NoFrame
            /\ used' = IF below.frame.gpu /\ below.frame.id \notin surfaces THEN "freed" ELSE "alive"
            /\ below' = [below EXCEPT !.frame = Media!NoFrame]
            /\ UNCHANGED <<setup, input, ring, codecKnown, decoder, queue, surfaces>>
        BY <2>8 DEF Media!Detect
      <3>2. Fused(setup) => ~below.frame.gpu
        BY <1>2, <2>0, <3>1 DEF MediaInv, MediaTypes, FramesOf, Fused
      <3>3. Media!NoFrame \in FramesOf
        BY DEF Media!NoFrame, FramesOf
      <3>4. below' \in [frame : FramesOf, announced : BOOLEAN] /\ below'.frame = Media!NoFrame
        BY <1>2, <3>1, <3>3 DEF MediaInv, MediaTypes
      <3> QED BY <1>2, <2>0, <3>1, <3>2, <3>4 DEF MediaInv, MediaTypes, Held, Undecoded, Learned
    <2>9. CASE Media!Encode
      <3>1. /\ below.frame # Media!NoFrame
            /\ below' = [below EXCEPT !.frame = Media!NoFrame, !.announced = @ \/ ~below.frame.gpu]
            /\ codecKnown' = codecKnown \/ codecKnown' = Media!Learn(setup.outCodec)
            /\ UNCHANGED <<setup, input, ring, decoder, queue, surfaces, used>>
        BY <2>9 DEF Media!Encode, Media!Announce
      <3>2. decoder.ready /\ ~decoder.subscribed
        BY <1>2, <3>1 DEF MediaInv, Undecoded
      <3>3. codecKnown' = codecKnown
        BY <3>1, <3>2 DEF Media!Learn
      <3>4. Media!NoFrame \in FramesOf /\ below.frame.gpu \in BOOLEAN
        BY <1>2, <2>0 DEF Media!NoFrame, FramesOf, MediaInv, MediaTypes, Wired
      <3>5. below' \in [frame : FramesOf, announced : BOOLEAN] /\ below'.frame = Media!NoFrame
        BY <1>2, <3>1, <3>4 DEF MediaInv, MediaTypes
      <3> QED BY <1>2, <2>0, <3>1, <3>2, <3>3, <3>5 DEF MediaInv, MediaTypes, Held, Undecoded, Learned
    <2> QED BY <1>2, <2>1, <2>2, <2>3, <2>4, <2>5, <2>6, <2>7, <2>8, <2>9, <2>10
              DEF Media!Next
  <1>3. ASSUME MediaInv, UNCHANGED Media!mediaVars PROVE MediaInv'
    <2>1. UNCHANGED <<setup, input, ring, hello, sent, codecKnown, decoder, queue, surfaces, below,
                      used>>
      BY <1>3 DEF Media!mediaVars
    <2>2. UNCHANGED <<Packets, FramesOf, Codecs>> /\ Fused(setup)' = Fused(setup)
      BY <2>1 DEF Packets, FramesOf, Codecs, Fused
    <2>3. MediaTypes'
      BY <1>3, <2>1, <2>2 DEF MediaInv, MediaTypes
    <2>4. Held' /\ Undecoded' /\ Learned'
      BY <1>3, <2>1, <2>2 DEF MediaInv, Held, Undecoded, Learned, Media!NoFrame
    <2> QED BY <2>3, <2>4 DEF MediaInv
  <1>4. ASSUME MediaInv PROVE (Fused(setup) => Media!SurfaceAlive) /\ Media!CodecAnnounced
    <2>1. Codecs \subseteq {c.codec : c \in Media!ToSet(setup.conns)}
      BY DEF Codecs, Media!ToSet
    <2> QED BY <1>4, <2>1 DEF MediaInv, Held, Learned, Media!SurfaceAlive, Media!CodecAnnounced
  <1> QED BY <1>1, <1>2, <1>3, <1>4

-----------------------------------------------------------------------------
(* output_mqtt, output_webhook. *)

(* Who posts holds the mutex, and stop() takes it to destroy the handle. *)
SinkTypes == /\ sink \in [running : BOOLEAN, handle : {"none", "live", "freed"}]
             /\ caller \in [Posters -> {"out", "waiting", "posting"}]
Posting == \A c \in Posters : caller[c] = "posting" => mutex = c /\ sink.handle = "live"
SinkInv == SinkTypes /\ Posting

LEMMA SinkHolds ==
  ASSUME "none" \notin Posters
  PROVE  /\ Sink!Init \/ Sink!Off => SinkInv
         /\ SinkInv /\ [Sink!Next]_Sink!sinkVars => SinkInv'
         /\ SinkInv => Sink!HandleAlive
  <1>1. Sink!Init \/ Sink!Off => SinkInv
    <2>1. CASE Sink!Init
      BY <2>1 DEF Sink!Init, SinkInv, SinkTypes, Posting
    <2>2. CASE Sink!Off
      BY <2>2 DEF Sink!Off, SinkInv, SinkTypes, Posting
    <2> QED BY <2>1, <2>2
  <1>2. SinkInv /\ [Sink!Next]_Sink!sinkVars => SinkInv'
    <2> SUFFICES ASSUME SinkInv, [Sink!Next]_Sink!sinkVars PROVE SinkInv'
      OBVIOUS
    <2> USE DEF SinkInv, SinkTypes, Posting
    <2>1. CASE Sink!Start
      <3>1. CASE sink' = [running |-> TRUE, handle |-> "live"]
        BY <2>1, <3>1 DEF Sink!Start
      <3>2. CASE UNCHANGED sink
        BY <2>1, <3>2 DEF Sink!Start
      <3> QED BY <2>1, <3>1, <3>2 DEF Sink!Start
    <2>2. CASE Sink!Disarm
      BY <2>2 DEF Sink!Disarm
    <2>3. CASE Sink!Destroy
      BY <2>3 DEF Sink!Destroy
    <2>4. ASSUME NEW c \in Posters, Sink!Enter(c)
          PROVE  SinkInv'
      BY <2>4 DEF Sink!Enter
    <2>5. ASSUME NEW c \in Posters, Sink!Lock(c)
          PROVE  SinkInv'
      BY <2>5 DEF Sink!Lock, Sink!StillUp
    <2>6. ASSUME NEW c \in Posters, Sink!Unlock(c)
          PROVE  SinkInv'
      BY <2>6 DEF Sink!Unlock
    <2>7. CASE UNCHANGED Sink!sinkVars
      BY <2>7 DEF Sink!sinkVars
    <2> QED BY <2>1, <2>2, <2>3, <2>4, <2>5, <2>6, <2>7 DEF Sink!Next
  <1>3. SinkInv => Sink!HandleAlive
    BY DEF SinkInv, Posting, Sink!HandleAlive
  <1> QED BY <1>1, <1>2, <1>3

(* output_mqtt, output_webhook: no callback, however late, posts over a handle that stop() *)
(* has destroyed (output_mqtt.cpp:8), for any number of publishing threads.                *)
THEOREM SinkSafe ==
  ASSUME "none" \notin Posters
  PROVE  Sink!Spec => []Sink!HandleAlive
  BY SinkHolds, PTL DEF Sink!Spec

-----------------------------------------------------------------------------
(* zm-core: the life of a pipeline. *)

(* stopAll's order: runners are made before plugins start, run after they have started, *)
(* and are all joined before the first plugin stops.                                    *)
Begun == {"started", "failed"}
Alive == {"startRunners", "startCapture", "wait", "joinCapture", "stopRunners"}
Past == {"stopPlugins", "clear", "exit"}
Places == {"load", "startAll", "startPlugins"} \cup Alive \cup Past
Idle(i) == runner[i] \in {"none", "joined"}

LifeTypes ==
    /\ pipe \in Pipelines
    /\ main \in [at : Places, next : Nat \ {0}]
    /\ instance \in [Pipe!Plugins -> Begun \cup {"none", "stopped"}]
    /\ runner \in [Pipe!Plugins -> {"none", "made", "running", "stopping", "joined"}]
    /\ stage \in [Pipe!Plugins -> [queued : BOOLEAN, busy : BOOLEAN]]
    /\ capture \in {"none", "running", "stopping", "ended"}
Counted == main.next <= Len(pipe)
OnRunner == \A i \in Pipe!Plugins : stage[i].busy => runner[i] \in {"running", "stopping"}
InputApart == \A i \in Pipe!Plugins : Pipe!IsInput(i) => runner[i] = "none"
HasInput == main.at \in {"startPlugins", "startRunners", "startCapture"} \/ capture # "none"
                => Pipe!Inputs # {}
Unmade == main.at \in {"load", "startAll"} => \A i \in Pipe!Plugins : runner[i] = "none"
Starting == main.at = "startPlugins" => \A i \in Pipe!Plugins :
    /\ runner[i] \in {"none", "made"}
    /\ i < main.next /\ runner[i] = "made" => instance[i] \in Begun
Living == main.at \in Alive => \A i \in Pipe!Plugins : runner[i] # "none" => instance[i] \in Begun
Stopping == main.at = "stopRunners" => \A i \in Pipe!Plugins : i < main.next => Idle(i)
Stopped == main.at \in Past => \A i \in Pipe!Plugins : Idle(i)

LifeInv == /\ LifeTypes /\ Counted /\ OnRunner /\ InputApart /\ HasInput
           /\ Unmade /\ Starting /\ Living /\ Stopping /\ Stopped

(* The first input exists when there is one. *)
LEMMA FirstInput ==
  ASSUME NEW n \in Nat \ {0}, DOMAIN pipe = 1..n, Len(pipe) = n, Pipe!Inputs # {}
  PROVE  LET in == CHOOSE i \in Pipe!Plugins : Pipe!IsInput(i)
         IN  in \in Pipe!Plugins /\ Pipe!IsInput(in)
  <1>1. Pipe!Inputs \subseteq Nat
    BY DEF Pipe!Inputs, Pipe!Plugins
  <1>2. PICK m \in Pipe!Inputs : \A j \in Pipe!Inputs : m <= j
    BY <1>1, MinExists
  <1>3. m \in Pipe!Plugins /\ Pipe!IsInput(m)
    BY <1>2 DEF Pipe!IsInput, Pipe!Inputs
  <1> QED BY <1>3

(* deliver fills queues, and disturbs no call. *)
LEMMA Delivered ==
  ASSUME NEW to, Pipe!Plugins' = Pipe!Plugins, Pipe!Deliver(to),
         stage \in [Pipe!Plugins -> [queued : BOOLEAN, busy : BOOLEAN]]
  PROVE  /\ stage' \in [Pipe!Plugins -> [queued : BOOLEAN, busy : BOOLEAN]]
         /\ \A i \in Pipe!Plugins : stage'[i].busy = stage[i].busy
  BY DEF Pipe!Deliver

(* Main's loops go over every plugin. *)
LEMMA Stepped ==
  ASSUME NEW n \in Nat \ {0}, Len(pipe) = n, NEW then \in Places,
         main \in [at : Places, next : Nat \ {0}], main.next <= n, Pipe!Step(then)
  PROVE  /\ main' \in [at : Places, next : Nat \ {0}] /\ main'.next <= n
         /\ \/ main.next < n /\ main'.at = main.at /\ main'.next = main.next + 1
            \/ main.next = n /\ main'.at = then /\ main'.next = 1
  <1>1. CASE main.next < n
    <2>1. main' = [main EXCEPT !.next = main.next + 1]
      BY <1>1 DEF Pipe!Step
    <2> QED BY <1>1, <2>1
  <1>2. CASE main.next = n
    <2>1. main' = [at |-> then, next |-> 1]
      BY <1>2 DEF Pipe!Step
    <2> QED BY <1>2, <2>1
  <1> QED BY <1>1, <1>2

(* Main's steps. *)
LEMMA MainStep ==
  ASSUME NEW n \in Nat \ {0}, DOMAIN pipe = 1..n, Len(pipe) = n, LifeInv, Pipe!Main
  PROVE  LifeInv'
  <1>1. Pipe!Plugins = 1..n
    BY DEF Pipe!Plugins
  <1>2. /\ pipe' = pipe /\ Pipe!Plugins' = Pipe!Plugins /\ Pipe!Inputs' = Pipe!Inputs
        /\ \A i : Pipe!IsInput(i)' <=> Pipe!IsInput(i)
    BY DEF Pipe!Main, Pipe!Load, Pipe!MakeRunners, Pipe!StartPlugin, Pipe!StartRunner,
           Pipe!StartCapture, Pipe!StopCapture, Pipe!StopRunner, Pipe!StopPlugin,
           Pipe!ClearRunners, Pipe!Plugins, Pipe!Inputs, Pipe!IsInput
  <1> USE <1>1, <1>2 DEF LifeInv, LifeTypes, Counted, OnRunner, InputApart, HasInput,
          Unmade, Starting, Living, Stopping, Stopped, Idle, Begun, Alive, Past, Places, Pipe!Goto
  <1>4. CASE Pipe!Load
    BY <1>4 DEF Pipe!Load
  <1>5. CASE Pipe!MakeRunners
    <2>1. CASE Pipe!Inputs = {}
      BY <1>5, <2>1 DEF Pipe!MakeRunners
    <2>2. CASE Pipe!Inputs # {}
      <3>1. /\ main.at = "startAll" /\ main' = [at |-> "startPlugins", next |-> 1]
            /\ runner' = [i \in Pipe!Plugins |-> IF Pipe!IsInput(i) THEN "none" ELSE "made"]
            /\ instance' = instance /\ stage' = stage /\ capture' = capture
        BY <1>5, <2>2 DEF Pipe!MakeRunners
      <3>2. \A i \in Pipe!Plugins : ~stage[i].busy
        BY <3>1
      <3>3. LifeTypes' /\ Counted' /\ OnRunner' /\ InputApart'
        BY <3>1, <3>2
      <3>4. HasInput' /\ Unmade' /\ Starting'
        BY <2>2, <3>1
      <3>5. Living' /\ Stopping' /\ Stopped'
        BY <3>1
      <3> QED BY <3>3, <3>4, <3>5
    <2> QED BY <2>1, <2>2
  <1>6. CASE Pipe!StartPlugin
    <2>1. /\ main' \in [at : Places, next : Nat \ {0}] /\ main'.next <= n
          /\ \/ main.next < n /\ main'.at = main.at /\ main'.next = main.next + 1
             \/ main.next = n /\ main'.at = "startRunners" /\ main'.next = 1
      BY <1>6, Stepped DEF Pipe!StartPlugin
    <2> QED BY <1>6, <2>1 DEF Pipe!StartPlugin, Pipe!Started
  <1>7. CASE Pipe!StartRunner
    <2>1. /\ main' \in [at : Places, next : Nat \ {0}] /\ main'.next <= n
          /\ \/ main.next < n /\ main'.at = main.at /\ main'.next = main.next + 1
             \/ main.next = n /\ main'.at = "startCapture" /\ main'.next = 1
      BY <1>7, Stepped DEF Pipe!StartRunner
    <2> QED BY <1>7, <2>1 DEF Pipe!StartRunner
  <1>8. CASE Pipe!StartCapture
    BY <1>8 DEF Pipe!StartCapture
  <1>9. CASE Pipe!StopCapture
    BY <1>9 DEF Pipe!StopCapture
  <1>10. CASE Pipe!StopRunner
    <2>1. CASE /\ runner[main.next] = "running" /\ main' = main
               /\ runner' = [runner EXCEPT ![main.next] = "stopping"]
      BY <1>10, <2>1 DEF Pipe!StopRunner
    <2>2. CASE /\ runner[main.next] \in {"none", "joined"} /\ Pipe!Step("stopPlugins")
               /\ UNCHANGED runner
      <3>1. \A i \in Pipe!Plugins : i <= main.next => Idle(i)
        BY <1>10, <2>2 DEF Pipe!StopRunner
      <3>2. /\ main' \in [at : Places, next : Nat \ {0}] /\ main'.next <= n
            /\ \/ main.next < n /\ main'.at = main.at /\ main'.next = main.next + 1
               \/ main.next = n /\ main'.at = "stopPlugins" /\ main'.next = 1
        BY <2>2, Stepped
      <3> QED BY <1>10, <2>2, <3>1, <3>2 DEF Pipe!StopRunner
    <2> QED BY <1>10, <2>1, <2>2 DEF Pipe!StopRunner
  <1>11. CASE Pipe!StopPlugin
    <2>1. \/ UNCHANGED stage
          \/ Pipe!Deliver(Pipe!Children(main.next))
      BY <1>11 DEF Pipe!StopPlugin
    <2>2. /\ stage' \in [Pipe!Plugins -> [queued : BOOLEAN, busy : BOOLEAN]]
          /\ \A i \in Pipe!Plugins : stage'[i].busy = stage[i].busy
      BY <2>1, Delivered
    <2>3. /\ main' \in [at : Places, next : Nat \ {0}] /\ main'.next <= n
          /\ \/ main.next < n /\ main'.at = main.at /\ main'.next = main.next + 1
             \/ main.next = n /\ main'.at = "clear" /\ main'.next = 1
      BY <1>11, Stepped DEF Pipe!StopPlugin
    <2>4. /\ main.at = "stopPlugins" /\ UNCHANGED <<runner, capture>>
      BY <1>11 DEF Pipe!StopPlugin
    <2>5. \/ UNCHANGED instance
          \/ \E v \in Begun \cup {"none", "stopped"} : instance' = [instance EXCEPT ![main.next] = v]
      BY <1>11 DEF Pipe!StopPlugin
    <2>6. instance' \in [Pipe!Plugins -> Begun \cup {"none", "stopped"}]
      <3>1. instance \in [Pipe!Plugins -> Begun \cup {"none", "stopped"}]
        OBVIOUS
      <3>2. \A S, T, x : \A f \in [S -> T], v \in T : [f EXCEPT ![x] = v] \in [S -> T]
        OBVIOUS
      <3>3. CASE UNCHANGED instance
        BY <3>1, <3>3
      <3>4. ASSUME NEW v \in Begun \cup {"none", "stopped"},
                   instance' = [instance EXCEPT ![main.next] = v]
            PROVE  instance' \in [Pipe!Plugins -> Begun \cup {"none", "stopped"}]
        BY <3>1, <3>2, <3>4
      <3> QED BY <2>5, <3>3, <3>4
    <2> QED BY <2>2, <2>3, <2>4, <2>6
  <1>12. CASE Pipe!ClearRunners
    BY <1>12 DEF Pipe!ClearRunners
  <1> QED BY <1>4, <1>5, <1>6, <1>7, <1>8, <1>9, <1>10, <1>11, <1>12 DEF Pipe!Main

(* The other threads' steps. *)
LEMMA ThreadStep ==
  ASSUME NEW n \in Nat \ {0}, DOMAIN pipe = 1..n, Len(pipe) = n, LifeInv,
         \/ Pipe!Shutdown \/ Pipe!CaptureLoop
         \/ \E i \in Pipe!Plugins : Pipe!CallOnFrame(i) \/ Pipe!Forward(i) \/ Pipe!Stage(i)
  PROVE  LifeInv'
  <1>1. /\ pipe' = pipe /\ main' = main
        /\ Pipe!Plugins' = Pipe!Plugins /\ Pipe!Inputs' = Pipe!Inputs
        /\ \A i : Pipe!IsInput(i)' <=> Pipe!IsInput(i)
    BY DEF Pipe!Shutdown, Pipe!CaptureLoop, Pipe!CallOnFrame, Pipe!Forward, Pipe!Stage,
           Pipe!Return, Pipe!EndStage, Pipe!Plugins, Pipe!Inputs, Pipe!IsInput
  <1> USE <1>1 DEF LifeInv, LifeTypes, Counted, OnRunner, InputApart, HasInput,
          Unmade, Starting, Living, Stopping, Stopped, Idle, Begun, Alive, Past, Places
  <1>2. CASE Pipe!Shutdown
    BY <1>2 DEF Pipe!Shutdown
  <1>3. CASE Pipe!CaptureLoop
    <2> DEFINE in == CHOOSE i \in Pipe!Plugins : Pipe!IsInput(i)
    <2>1. Pipe!Inputs # {}
      BY <1>3 DEF Pipe!CaptureLoop
    <2>2. in \in Pipe!Plugins /\ runner[in] = "none"
      BY <2>1, FirstInput
    <2>3. /\ UNCHANGED runner
          /\ capture' = capture \/ capture' = "ended"
          /\ \/ UNCHANGED stage
             \/ Pipe!Deliver(Pipe!Children(in))
          /\ \/ UNCHANGED instance
             \/ \E v \in {"started", "failed", "stopped", "none"} : instance' = [instance EXCEPT ![in] = v]
      BY <1>3, <2>2 DEF Pipe!CaptureLoop, Pipe!Started
    <2> HIDE DEF in
    <2>4. capture # "none"
      BY <1>3 DEF Pipe!CaptureLoop
    <2>5. /\ stage' \in [Pipe!Plugins -> [queued : BOOLEAN, busy : BOOLEAN]]
          /\ \A i \in Pipe!Plugins : stage'[i].busy = stage[i].busy
      BY <2>3, Delivered
    <2> QED BY <2>1, <2>2, <2>3, <2>4, <2>5
  <1>4. ASSUME NEW i \in Pipe!Plugins, Pipe!CallOnFrame(i) PROVE LifeInv'
    BY <1>4 DEF Pipe!CallOnFrame
  <1>5. ASSUME NEW i \in Pipe!Plugins, Pipe!Forward(i) PROVE LifeInv'
    <2>1. /\ stage' \in [Pipe!Plugins -> [queued : BOOLEAN, busy : BOOLEAN]]
          /\ \A j \in Pipe!Plugins : stage'[j].busy = stage[j].busy
      <3>1. Pipe!Deliver(Pipe!Children(i))
        BY <1>5 DEF Pipe!Forward
      <3> QED BY <3>1, Delivered
    <2> QED BY <1>5, <2>1 DEF Pipe!Forward
  <1>6. ASSUME NEW i \in Pipe!Plugins, Pipe!Return(i) PROVE LifeInv'
    <2>1. /\ stage' \in [Pipe!Plugins -> [queued : BOOLEAN, busy : BOOLEAN]]
          /\ \A j \in Pipe!Plugins : stage'[j].busy => stage[j].busy
      <3>1. /\ stage \in [Pipe!Plugins -> [queued : BOOLEAN, busy : BOOLEAN]]
            /\ stage' = [stage EXCEPT ![i].busy = FALSE]
        BY <1>6 DEF Pipe!Return
      <3> HIDE DEF LifeInv
      <3> QED BY <3>1
    <2> QED BY <1>6, <2>1 DEF Pipe!Return
  <1>7. ASSUME NEW i \in Pipe!Plugins, Pipe!EndStage(i) PROVE LifeInv'
    BY <1>7 DEF Pipe!EndStage
  <1> QED BY <1>2, <1>3, <1>4, <1>5, <1>6, <1>7 DEF Pipe!Stage

(* The invariant holds. *)
LEMMA LifeHolds ==
  ASSUME NEW Plugin, Pipelines \subseteq Seq(Plugin) \ {<< >>}
  PROVE  /\ Pipe!Init => LifeInv
         /\ LifeInv /\ [Pipe!Next]_Pipe!pipeVars => LifeInv'
         /\ LifeInv => Pipe!CallsWithinLife
  <1>1. Pipe!Init => LifeInv
    <2> SUFFICES ASSUME Pipe!Init PROVE LifeInv
      OBVIOUS
    <2>1. pipe \in Seq(Plugin) /\ pipe # << >>
      BY DEF Pipe!Init
    <2>2. Len(pipe) \in Nat \ {0}
      BY <2>1
    <2> QED BY <2>2 DEF Pipe!Init, LifeInv, LifeTypes, Counted, OnRunner, InputApart, HasInput,
          Unmade, Starting, Living, Stopping, Stopped, Idle, Begun, Alive, Past, Places
  <1>2. LifeInv /\ [Pipe!Next]_Pipe!pipeVars => LifeInv'
    <2> SUFFICES ASSUME LifeInv, [Pipe!Next]_Pipe!pipeVars PROVE LifeInv'
      OBVIOUS
    <2> DEFINE n == Len(pipe)
    <2>1. n \in Nat \ {0} /\ DOMAIN pipe = 1..n
      BY DEF LifeInv, LifeTypes
    <2> HIDE DEF n
    <2>2. CASE UNCHANGED Pipe!pipeVars
      BY <2>2 DEF Pipe!pipeVars, LifeInv, LifeTypes, Counted, OnRunner, InputApart, HasInput,
          Unmade, Starting, Living, Stopping, Stopped, Idle, Begun, Alive, Past, Places, Pipe!Plugins, Pipe!Inputs, Pipe!IsInput
    <2>3. CASE Pipe!Main
      BY <2>1, <2>3, MainStep DEF n
    <2>4. CASE \/ Pipe!Shutdown \/ Pipe!CaptureLoop
               \/ \E i \in Pipe!Plugins : Pipe!CallOnFrame(i) \/ Pipe!Forward(i) \/ Pipe!Stage(i)
      BY <2>1, <2>4, ThreadStep DEF n
    <2> QED BY <2>2, <2>3, <2>4 DEF Pipe!Next
  <1>3. LifeInv => Pipe!CallsWithinLife
    BY DEF LifeInv, LifeTypes, OnRunner, Unmade, Starting, Living, Stopped, Idle, Begun, Alive, Past,
           Places, Pipe!CallsWithinLife
  <1> QED BY <1>1, <1>2, <1>3

(* PluginManager: a plugin's on_frame runs only between its start and its stop *)
(* (PluginManager.cpp:176), for every tree of plugins, whatever loads or starts *)
(* and whenever the worker is stopped.                                          *)
THEOREM LifeSafe ==
  ASSUME NEW Plugin, Pipelines \subseteq Seq(Plugin) \ {<< >>}
  PROVE  Pipe!Spec => []Pipe!CallsWithinLife
  BY LifeHolds, PTL DEF Pipe!Spec

(* Nothing is started behind stopAll's back, and the capture thread has stopped the input *)
(* when it ends.                                                                          *)
Leaving == {"wait", "joinCapture", "stopRunners"} \cup Past
Unstarted == main.at \in {"load", "startAll"} =>
    capture = "none" /\ \A i \in Pipe!Plugins : instance[i] = "none"
NoCapture == main.at \in Leaving /\ capture = "none" =>
    \A i \in Pipe!Plugins : instance[i] # "started"
InputStopped == capture = "ended" =>
    \A i \in Pipe!Plugins : Pipe!IsInput(i) => instance[i] # "started"
Joined == main.at \in {"stopRunners"} \cup Past => capture \in {"none", "ended"}
Halfway == main.at = "stopPlugins" =>
    \A i \in Pipe!Plugins : i < main.next => instance[i] # "started"
AllStopped == main.at \in {"clear", "exit"} => \A i \in Pipe!Plugins : instance[i] # "started"

LeftInv == Unstarted /\ NoCapture /\ InputStopped /\ Joined /\ Halfway /\ AllStopped

(* Main: the plugin it passes is stopped, or the input, which the capture thread stopped. *)
LEMMA MainLeaves ==
  ASSUME NEW n \in Nat \ {0}, DOMAIN pipe = 1..n, Len(pipe) = n, LifeInv, LeftInv, Pipe!Main,
         \A i, j \in Pipe!Inputs : i = j
  PROVE  LeftInv'
  <1>1. Pipe!Plugins = 1..n
    BY DEF Pipe!Plugins
  <1>2. /\ pipe' = pipe /\ Pipe!Plugins' = Pipe!Plugins
        /\ \A i : Pipe!IsInput(i)' <=> Pipe!IsInput(i)
    BY DEF Pipe!Main, Pipe!Load, Pipe!MakeRunners, Pipe!StartPlugin, Pipe!StartRunner,
           Pipe!StartCapture, Pipe!StopCapture, Pipe!StopRunner, Pipe!StopPlugin,
           Pipe!ClearRunners, Pipe!Plugins, Pipe!Inputs, Pipe!IsInput
  <1> USE <1>1, <1>2 DEF LifeInv, LifeTypes, Counted, LeftInv, Unstarted, NoCapture,
          InputStopped, Joined, Halfway, AllStopped, Leaving, Begun, Alive, Past, Places, Pipe!Goto
  <1>4. CASE Pipe!Load
    BY <1>4 DEF Pipe!Load
  <1>5. CASE Pipe!MakeRunners
    BY <1>5 DEF Pipe!MakeRunners
  <1>6. CASE Pipe!StartPlugin
    <2>1. main' \in [at : Places, next : Nat \ {0}] /\ main'.at \in {"startPlugins", "startRunners"}
      BY <1>6, Stepped DEF Pipe!StartPlugin
    <2> QED BY <1>6, <2>1 DEF Pipe!StartPlugin, Pipe!Started
  <1>7. CASE Pipe!StartRunner
    <2>1. main' \in [at : Places, next : Nat \ {0}] /\ main'.at \in {"startRunners", "startCapture"}
      BY <1>7, Stepped DEF Pipe!StartRunner
    <2> QED BY <1>7, <2>1 DEF Pipe!StartRunner
  <1>8. CASE Pipe!StartCapture
    BY <1>8 DEF Pipe!StartCapture
  <1>9. CASE Pipe!StopCapture
    BY <1>9 DEF Pipe!StopCapture
  <1>10. CASE Pipe!StopRunner
    <2>1. CASE UNCHANGED main
      BY <1>10, <2>1 DEF Pipe!StopRunner
    <2>2. CASE Pipe!Step("stopPlugins") /\ UNCHANGED <<instance, capture>>
      <3>1. /\ main' \in [at : Places, next : Nat \ {0}]
            /\ \/ main'.at = main.at
               \/ main'.at = "stopPlugins" /\ main'.next = 1
        BY <2>2, Stepped
      <3> QED BY <1>10, <2>2, <3>1 DEF Pipe!StopRunner
    <2> QED BY <1>10, <2>1, <2>2 DEF Pipe!StopRunner
  <1>11. CASE Pipe!StopPlugin
    <2>1. /\ main' \in [at : Places, next : Nat \ {0}] /\ main'.next <= n
          /\ \/ main.next < n /\ main'.at = main.at /\ main'.next = main.next + 1
             \/ main.next = n /\ main'.at = "clear" /\ main'.next = 1
      BY <1>11, Stepped DEF Pipe!StopPlugin
    <2>2. main.at = "stopPlugins" /\ UNCHANGED capture
      BY <1>11 DEF Pipe!StopPlugin
    <2>3. \A i \in Pipe!Plugins : instance'[i] = "started" => instance[i] = "started"
      BY <1>11 DEF Pipe!StopPlugin
    <2>4. instance'[main.next] # "started"
      <3>1. CASE pipe[main.next].type = "input"
        <4>1. Pipe!IsInput(main.next)
          BY <3>1 DEF Pipe!IsInput, Pipe!Inputs
        <4> QED BY <1>11, <3>1, <4>1, <2>2 DEF Pipe!StopPlugin
      <3>2. CASE pipe[main.next].type # "input"
        BY <1>11, <3>2 DEF Pipe!StopPlugin
      <3> QED BY <3>1, <3>2
    <2> QED BY <2>1, <2>2, <2>3, <2>4
  <1>12. CASE Pipe!ClearRunners
    BY <1>12 DEF Pipe!ClearRunners
  <1> QED BY <1>4, <1>5, <1>6, <1>7, <1>8, <1>9, <1>10, <1>11, <1>12 DEF Pipe!Main

(* The capture thread ends with the input stopped. *)
LEMMA ThreadLeaves ==
  ASSUME NEW n \in Nat \ {0}, DOMAIN pipe = 1..n, LifeInv, LeftInv,
         \/ Pipe!Shutdown \/ Pipe!CaptureLoop
         \/ \E i \in Pipe!Plugins : Pipe!CallOnFrame(i) \/ Pipe!Forward(i) \/ Pipe!Stage(i)
  PROVE  LeftInv'
  <1>1. /\ pipe' = pipe /\ main' = main /\ Pipe!Plugins' = Pipe!Plugins
        /\ \A i : Pipe!IsInput(i)' <=> Pipe!IsInput(i)
    BY DEF Pipe!Shutdown, Pipe!CaptureLoop, Pipe!CallOnFrame, Pipe!Forward, Pipe!Stage,
           Pipe!Return, Pipe!EndStage, Pipe!Plugins, Pipe!Inputs, Pipe!IsInput
  <1> DEFINE in == CHOOSE i \in Pipe!Plugins : Pipe!IsInput(i)
  <1>0. Pipe!Inputs # {} => in \in Pipe!Plugins /\ Pipe!IsInput(in)
    BY FirstInput
  <1> USE <1>1 DEF LifeInv, LifeTypes, LeftInv, Unstarted, NoCapture,
          InputStopped, Joined, Halfway, AllStopped, Leaving, Begun, Alive, Past, Places
  <1>2. CASE Pipe!CaptureLoop
    <2>1. capture \in {"running", "stopping"} /\ Pipe!Inputs # {}
      BY <1>2 DEF Pipe!CaptureLoop, HasInput
    <2>2. in \in Pipe!Plugins /\ Pipe!IsInput(in)
      BY <2>1, <1>0
    <2>3. \/ UNCHANGED capture
          \/ capture' = "ended" /\ instance'[in] # "started"
      BY <1>2, <2>2 DEF Pipe!CaptureLoop
    <2>4. \A i \in Pipe!Plugins : Pipe!IsInput(i) => i = in
      <3> HIDE DEF in
      <3> QED BY <2>2 DEF Pipe!IsInput, Pipe!Inputs, Pipe!Plugins
    <2> HIDE DEF in
    <2> QED BY <2>1, <2>2, <2>3, <2>4
  <1>3. CASE UNCHANGED <<instance, capture>>
    BY <1>3
  <1> QED BY <1>2, <1>3 DEF Pipe!Shutdown, Pipe!CallOnFrame, Pipe!Forward, Pipe!Stage,
        Pipe!Return, Pipe!EndStage

(* PluginManager: with one input, every plugin that was started has been stopped when main *)
(* returns (PluginManager.cpp:177), the input by the capture thread.                       *)
THEOREM NothingLeft ==
  ASSUME NEW Plugin, Pipelines \subseteq Seq(Plugin) \ {<< >>},
         \A p \in Pipelines : \A i, j \in DOMAIN p :
            p[i].type = "input" /\ p[j].type = "input" => i = j
  PROVE  Pipe!Spec => []Pipe!NothingLeftRunning
  <1>1. Pipe!Init => LeftInv
    BY DEF Pipe!Init, LeftInv, Unstarted, NoCapture, InputStopped, Joined, Halfway, AllStopped,
           Leaving, Past
  <1>2. LifeInv /\ LeftInv /\ [Pipe!Next]_Pipe!pipeVars => LeftInv'
    <2> SUFFICES ASSUME LifeInv, LeftInv, [Pipe!Next]_Pipe!pipeVars PROVE LeftInv'
      OBVIOUS
    <2> DEFINE n == Len(pipe)
    <2>1. /\ n \in Nat \ {0} /\ DOMAIN pipe = 1..n
          /\ \A i, j \in Pipe!Inputs : i = j
      BY DEF LifeInv, LifeTypes, Pipe!Inputs, Pipe!Plugins
    <2> HIDE DEF n
    <2>2. CASE UNCHANGED Pipe!pipeVars
      BY <2>2 DEF Pipe!pipeVars, LeftInv, Unstarted, NoCapture, InputStopped, Joined, Halfway,
           AllStopped, Pipe!Plugins, Pipe!Inputs, Pipe!IsInput
    <2>3. CASE Pipe!Main
      BY <2>1, <2>3, MainLeaves DEF n
    <2>4. CASE \/ Pipe!Shutdown \/ Pipe!CaptureLoop
               \/ \E i \in Pipe!Plugins : Pipe!CallOnFrame(i) \/ Pipe!Forward(i) \/ Pipe!Stage(i)
      BY <2>1, <2>4, ThreadLeaves DEF n
    <2> QED BY <2>2, <2>3, <2>4 DEF Pipe!Next
  <1>3. LeftInv => Pipe!NothingLeftRunning
    BY DEF LeftInv, AllStopped, Pipe!NothingLeftRunning
  <1> QED BY <1>1, <1>2, <1>3, LifeHolds, PTL DEF Pipe!Spec

-----------------------------------------------------------------------------
(* audio_detect. *)

(* The codec is known once a camera has published its own, the extradata once one has     *)
(* published these, and the decoder is made of both.                                       *)
AudioInv ==
    /\ announced \in [AudioCameras -> {"no", "codec", "all"}]
    /\ meta \in [codec : AudioCameras \cup {0}, extra : AudioCameras \cup {0}]
    /\ audioDecoder = Audio!Closed =>
          \A c \in AudioCameras :
             /\ announced[c] \in {"codec", "all"} => meta.codec \in AudioCameras
             /\ announced[c] = "all" => meta.extra \in AudioCameras
    /\ Audio!CodecLearntFirst

LEMMA AudioHolds ==
  ASSUME 0 \notin AudioCameras, Listened \subseteq AudioCameras
  PROVE  /\ Audio!Init => AudioInv
         /\ AudioInv /\ [Audio!Next]_Audio!audioVars => AudioInv'
  <1>1. Audio!Init => AudioInv
    BY DEF Audio!Init, AudioInv, Audio!Closed, Audio!CodecLearntFirst
  <1>2. ASSUME AudioInv, [Audio!Next]_Audio!audioVars PROVE AudioInv'
    <2> USE <1>2 DEF AudioInv, Audio!CodecLearntFirst
    <2>1. ASSUME NEW c \in AudioCameras, Audio!CodecLearnt(c) PROVE AudioInv'
      BY <2>1 DEF Audio!CodecLearnt, Audio!Subscribed
    <2>2. ASSUME NEW c \in AudioCameras, Audio!ExtraLearnt(c) PROVE AudioInv'
      BY <2>2 DEF Audio!ExtraLearnt, Audio!Subscribed
    <2>3. CASE Audio!OnFrame
      <3>1. PICK c \in Listened : announced[c] = "all"
        BY <2>3 DEF Audio!OnFrame
      <3>2. /\ UNCHANGED <<announced, meta>>
            /\ audioDecoder' = IF audioDecoder = Audio!Closed THEN Audio!LearntDecoder
                               ELSE audioDecoder
        BY <2>3 DEF Audio!OnFrame
      <3>3. CASE audioDecoder = Audio!Closed
        <4>1. meta.codec \in AudioCameras /\ meta.extra \in AudioCameras /\ meta.codec # 0
          BY <3>1, <3>3
        <4>2. Audio!LearntDecoder = [codec |-> meta.codec, extra |-> meta.extra]
          BY <4>1 DEF Audio!LearntDecoder
        <4>3. audioDecoder' \in [codec : AudioCameras, extra : AudioCameras]
          BY <3>2, <3>3, <4>1, <4>2
        <4>4. audioDecoder' # Audio!Closed
          BY <4>3 DEF Audio!Closed
        <4> QED BY <3>2, <4>3, <4>4 DEF Audio!Closed
      <3>4. CASE audioDecoder # Audio!Closed
        BY <3>2, <3>4 DEF Audio!Closed
      <3> QED BY <3>3, <3>4
    <2>4. CASE UNCHANGED Audio!audioVars
      BY <2>4 DEF Audio!audioVars, Audio!Closed
    <2> QED BY <2>1, <2>2, <2>3, <2>4 DEF Audio!Next
  <1> QED BY <1>1, <1>2

-----------------------------------------------------------------------------
(* output_mse. *)

(* Frames, of which the one that settles the picture's size is a key frame: the first with  *)
(* parameter sets, or the one at which they are no longer waited for.                       *)
Settles(f, n) == /\ f[n].sps \/ n >= Patience
                 /\ \A j \in 1..n - 1 : ~f[j].sps /\ j < Patience
Feedable(f) == /\ f \in Seq([sps : BOOLEAN, idr : BOOLEAN]) /\ Patience \in Nat
               /\ \A n \in DOMAIN f : Settles(f, n) => f[n].idr

(* A piece of the feed from a key frame on; pieces in a row. *)
Keyed(f, s) == \A i \in DOMAIN s : f[s[i]].idr <=> i = 1
Piece(f, s) == s \in Seq(Nat) /\ s # << >> /\ Keyed(f, s) /\ Mse!Successive(s)
Row(f, q) == /\ \A i \in DOMAIN q : Piece(f, q[i])
             /\ \A i \in 2..Len(q) : Head(q[i]) = Mse!Last(q[i - 1]) + 1

MseTypes == /\ stream \in [registered : BOOLEAN, arrived : Nat, noSps : Nat, detected : BOOLEAN]
            /\ muxer \in [open : Seq(Nat), output : Seq(Nat), number : Nat, init : BOOLEAN]
            /\ segments \in Seq(Seq(Nat)) /\ client \in [init : BOOLEAN, segment : Seq(Nat)]
(* Until the size is settled nothing is kept of what arrives; from then on the fragment     *)
(* begun goes from its key frame to the last frame, and follows the last segment.           *)
Unsettled == /\ muxer = Mse!NoMuxer /\ segments = << >> /\ stream.noSps = stream.arrived
             /\ \A j \in 1..stream.arrived : ~feed[j].sps /\ j < Patience
Cutting == /\ muxer.init = TRUE /\ Piece(feed, muxer.open) /\ Mse!Last(muxer.open) = stream.arrived
           /\ muxer.number = 0 => muxer.output = << >>
           /\ segments # << >> => Head(muxer.open) = Mse!Last(Mse!Last(segments)) + 1
MseInv == /\ Feedable(feed) /\ MseTypes /\ Row(feed, segments) /\ Keyed(feed, client.segment)
          /\ serving # "off" => IF stream.detected THEN Cutting ELSE Unsettled

LEMMA PieceBegun ==
  ASSUME NEW f, NEW n \in Nat, f[n].idr = TRUE
  PROVE  Piece(f, <<n>>) /\ Head(<<n>>) = n /\ Mse!Last(<<n>>) = n
  BY DEF Piece, Keyed, Mse!Successive, Mse!Last

LEMMA PieceGrows ==
  ASSUME NEW f, NEW s, Piece(f, s), NEW n \in Nat, Mse!Last(s) = n - 1, f[n].idr = FALSE
  PROVE  /\ Piece(f, Append(s, n)) /\ Head(Append(s, n)) = Head(s) /\ Mse!Last(Append(s, n)) = n
  <1>1. s \in Seq(Nat) /\ Len(s) \in Nat \ {0} /\ s[Len(s)] \in Nat /\ n = s[Len(s)] + 1
    BY EmptySeq, LenProperties DEF Piece, Mse!Last
  <1>2. /\ Append(s, n) \in Seq(Nat) /\ Len(Append(s, n)) = Len(s) + 1
        /\ DOMAIN Append(s, n) = 1..Len(s) + 1
        /\ \A i \in 1..Len(s) : Append(s, n)[i] = s[i]
        /\ Append(s, n)[Len(s) + 1] = n
    BY <1>1, AppendProperties
  <1> DEFINE t == Append(s, n)
  <1> HIDE DEF t
  <1>3. DOMAIN s = 1..Len(s)
    BY <1>1
  <1>4. Keyed(f, t)
    BY <1>1, <1>2, <1>3 DEF Piece, Keyed, t
  <1>5. Mse!Successive(t)
    BY <1>1, <1>2, <1>3 DEF Piece, Mse!Successive, t
  <1>6. Head(t) = Head(s) /\ Mse!Last(t) = n /\ t # << >>
    BY <1>1, <1>2 DEF Mse!Last, t
  <1> QED BY <1>2, <1>4, <1>5, <1>6 DEF Piece, t

LEMMA RowShorter ==
  ASSUME NEW f, NEW q \in Seq(Seq(Nat)), q # << >>, Row(f, q)
  PROVE  /\ Tail(q) \in Seq(Seq(Nat)) /\ Row(f, Tail(q)) /\ Piece(f, Head(q)) /\ Piece(f, Mse!Last(q))
         /\ Tail(q) # << >> => Mse!Last(Tail(q)) = Mse!Last(q)
  <1>1. /\ Tail(q) \in Seq(Seq(Nat)) /\ Len(Tail(q)) = Len(q) - 1 /\ Len(q) \in Nat \ {0}
        /\ \A i \in 1..Len(q) - 1 : Tail(q)[i] = q[i + 1]
        /\ DOMAIN q = 1..Len(q) /\ DOMAIN Tail(q) = 1..Len(q) - 1
    BY EmptySeq, LenProperties, HeadTailProperties
  <1> DEFINE t == Tail(q)
  <1> HIDE DEF t
  <1>2. \A i \in DOMAIN t : Piece(f, t[i])
    BY <1>1 DEF Row, t
  <1>3. ASSUME NEW i \in 2..Len(t) PROVE Head(t[i]) = Mse!Last(t[i - 1]) + 1
    <2>1. i + 1 \in 2..Len(q) /\ t[i] = q[i + 1] /\ t[i - 1] = q[i]
      BY <1>1 DEF t
    <2>2. Head(q[i + 1]) = Mse!Last(q[(i + 1) - 1]) + 1
      BY <2>1 DEF Row
    <2> QED BY <1>1, <2>1, <2>2
  <1>4. Piece(f, Head(q)) /\ Piece(f, Mse!Last(q))
    <2>1. Head(q) = q[1] /\ Mse!Last(q) = q[Len(q)] /\ 1 \in DOMAIN q /\ Len(q) \in DOMAIN q
      BY <1>1 DEF Mse!Last
    <2> QED BY <2>1 DEF Row
  <1>5. t # << >> => Mse!Last(t) = Mse!Last(q)
    BY <1>1, EmptySeq DEF Mse!Last, t
  <1> QED BY <1>1, <1>2, <1>3, <1>4, <1>5 DEF Row, t

LEMMA RowLonger ==
  ASSUME NEW f, NEW q \in Seq(Seq(Nat)), Row(f, q), NEW s, Piece(f, s),
         q # << >> => Head(s) = Mse!Last(Mse!Last(q)) + 1
  PROVE  /\ Append(q, s) \in Seq(Seq(Nat)) /\ Row(f, Append(q, s)) /\ Mse!Last(Append(q, s)) = s
  <1>1. s \in Seq(Nat) /\ Len(q) \in Nat /\ DOMAIN q = 1..Len(q)
    BY LenProperties DEF Piece
  <1>2. /\ Append(q, s) \in Seq(Seq(Nat)) /\ Len(Append(q, s)) = Len(q) + 1
        /\ DOMAIN Append(q, s) = 1..Len(q) + 1
        /\ \A i \in 1..Len(q) : Append(q, s)[i] = q[i]
        /\ Append(q, s)[Len(q) + 1] = s
    BY <1>1, AppendProperties
  <1> DEFINE t == Append(q, s)
  <1> HIDE DEF t
  <1>3. \A i \in DOMAIN t : Piece(f, t[i])
    BY <1>1, <1>2 DEF Row, t
  <1>4. ASSUME NEW i \in 2..Len(t) PROVE Head(t[i]) = Mse!Last(t[i - 1]) + 1
    <2>1. CASE i <= Len(q)
      BY <1>1, <1>2, <2>1 DEF Row, t
    <2>2. CASE i = Len(q) + 1
      <3>1. Len(t) = Len(q) + 1 /\ t[Len(q) + 1] = s /\ \A j \in 1..Len(q) : t[j] = q[j]
        BY <1>2 DEF t
      <3>2. t[i] = s /\ t[i - 1] = q[Len(q)]
        BY <1>1, <2>2, <3>1
      <3>3. q # << >>
        BY <1>1, <2>2, <3>1, EmptySeq
      <3> QED BY <3>2, <3>3 DEF Mse!Last
    <2> QED BY <1>1, <1>2, <1>4, <2>1, <2>2 DEF t
  <1>5. Mse!Last(t) = s
    BY <1>1, <1>2 DEF Mse!Last, t
  <1> QED BY <1>2, <1>3, <1>4, <1>5 DEF Row, t

LEMMA SeenRecord ==
  ASSUME NEW a \in Nat, NEW l \in Nat, NEW d \in BOOLEAN,
         NEW r, r = [registered |-> TRUE, arrived |-> a, noSps |-> l, detected |-> d]
  PROVE  /\ r \in [registered : BOOLEAN, arrived : Nat, noSps : Nat, detected : BOOLEAN]
         /\ r.arrived = a /\ r.noSps = l /\ r.detected = d
  OBVIOUS

LEMMA ItsElement == ASSUME NEW S, NEW q \in Seq(S), NEW i \in 1..Len(q) PROVE q[i] \in S
  OBVIOUS

(* Each frame, each reader and the stop keep it so. *)
LEMMA MseFrame ==
  ASSUME MaxSegments \in Nat, MseInv, Mse!OnFrame PROVE MseInv'
  <1> DEFINE n == stream.arrived + 1
             seen == Mse!Seen(n)
             begun == IF muxer.init THEN muxer ELSE Mse!Initialized
             m == Mse!Written(begun, n)
  <1>1. /\ serving = "on" /\ n <= Len(feed) /\ stream' = seen
        /\ muxer' = IF ~seen.detected THEN muxer
                    ELSE IF Mse!Complete(m, n) THEN [m EXCEPT !.number = @ + 1] ELSE m
        /\ segments' = IF seen.detected /\ Mse!Complete(m, n) THEN Mse!Pushed(m.output) ELSE segments
        /\ UNCHANGED <<feed, client, serving>>
    BY DEF Mse!OnFrame
  <1>2. /\ stream \in [registered : BOOLEAN, arrived : Nat, noSps : Nat, detected : BOOLEAN]
        /\ muxer \in [open : Seq(Nat), output : Seq(Nat), number : Nat, init : BOOLEAN]
        /\ segments \in Seq(Seq(Nat)) /\ client \in [init : BOOLEAN, segment : Seq(Nat)]
        /\ Row(feed, segments) /\ Keyed(feed, client.segment)
        /\ Patience \in Nat /\ feed \in Seq([sps : BOOLEAN, idr : BOOLEAN])
        /\ \A k \in DOMAIN feed : Settles(feed, k) => feed[k].idr
        /\ IF stream.detected THEN Cutting ELSE Unsettled
    BY <1>1 DEF MseInv, MseTypes, Feedable
  <1>3. /\ n \in DOMAIN feed /\ n \in Nat /\ n = stream.arrived + 1
        /\ feed[n].sps \in BOOLEAN /\ feed[n].idr \in BOOLEAN
    <2>1. n \in 1..Len(feed) /\ DOMAIN feed = 1..Len(feed)
      BY <1>1, <1>2
    <2>2. feed \in Seq([sps : BOOLEAN, idr : BOOLEAN])
      BY <1>2
    <2>3. feed[n] \in [sps : BOOLEAN, idr : BOOLEAN]
      <3> HIDE DEF n
      <3> QED BY <2>1, <2>2, ItsElement
    <2>4. n \in Nat
      BY <1>2
    <2> QED BY <2>1, <2>3, <2>4
  <1> HIDE DEF n
  <1>4. /\ seen \in [registered : BOOLEAN, arrived : Nat, noSps : Nat, detected : BOOLEAN]
        /\ seen.arrived = n
        /\ stream.detected => seen.detected
        /\ ~stream.detected => /\ seen.noSps = IF feed[n].sps THEN stream.noSps ELSE stream.noSps + 1
                              /\ seen.detected = (feed[n].sps \/ seen.noSps >= Patience)
    <2>1. /\ stream \in [registered : BOOLEAN, arrived : Nat, noSps : Nat, detected : BOOLEAN]
          /\ stream.arrived + 1 = n /\ Patience \in Nat
      BY <1>2, <1>3
    <2>2. CASE stream.detected
      <3>1. seen = [stream EXCEPT !.arrived = n]
        BY <2>1, <2>2 DEF Mse!Seen
      <3> QED BY <1>3, <2>1, <2>2, <3>1
    <2>3. CASE ~stream.detected
      <3> DEFINE late == IF feed[n].sps THEN stream.noSps ELSE stream.noSps + 1
      <3>1. late \in Nat
        BY <2>1
      <3>2. seen = [registered |-> TRUE, arrived |-> n, noSps |-> late,
                    detected |-> feed[n].sps \/ late >= Patience]
        BY <2>1, <2>3 DEF Mse!Seen, Mse!AnalyzeSPS
      <3> DEFINE known == feed[n].sps \/ late >= Patience
      <3>3. known \in BOOLEAN
        OBVIOUS
      <3>5. seen = [registered |-> TRUE, arrived |-> n, noSps |-> late, detected |-> known]
        BY <3>2
      <3> HIDE DEF late, known
      <3>4. /\ seen \in [registered : BOOLEAN, arrived : Nat, noSps : Nat, detected : BOOLEAN]
            /\ seen.arrived = n /\ seen.noSps = late
            /\ seen.detected = known
        BY <1>3, <3>1, <3>3, <3>5, SeenRecord
      <3> QED BY <2>3, <3>4 DEF late, known
    <2> QED BY <2>2, <2>3
  <1> HIDE DEF seen, m, begun
  <1>5. CASE ~seen.detected
    <2>1. ~stream.detected /\ Unsettled
      BY <1>2, <1>4, <1>5
    <2>2. ~feed[n].sps /\ n < Patience /\ seen.noSps = n
      BY <1>2, <1>3, <1>4, <1>5, <2>1 DEF Unsettled
    <2>3. UNCHANGED <<muxer, segments, feed, client, serving>> /\ stream' = seen
      BY <1>1, <1>5
    <2>4. stream'.arrived = n /\ stream'.noSps = n /\ muxer' = Mse!NoMuxer /\ segments' = << >>
      BY <1>4, <2>1, <2>2, <2>3 DEF Unsettled, Mse!NoMuxer
    <2>5. ASSUME NEW j \in 1..n PROVE ~feed[j].sps /\ j < Patience
      <3>1. CASE j = n
        BY <2>2, <3>1
      <3>2. CASE j # n
        <4>1. j \in 1..stream.arrived
          BY <1>2, <1>3, <3>2
        <4> QED BY <2>1, <4>1 DEF Unsettled
      <3> QED BY <3>1, <3>2
    <2>6. Unsettled'
      BY <2>3, <2>4, <2>5 DEF Unsettled, Mse!NoMuxer
    <2> QED BY <1>2, <1>4, <1>5, <2>3, <2>6 DEF MseInv, MseTypes, Feedable
  <1>6. CASE seen.detected /\ ~stream.detected
    <2>1. Unsettled
      BY <1>2, <1>6
    <2>2. Settles(feed, n)
      <3>1. feed[n].sps \/ n >= Patience
        BY <1>2, <1>3, <1>4, <1>6, <2>1 DEF Unsettled
      <3>2. ASSUME NEW j \in 1..n - 1 PROVE ~feed[j].sps /\ j < Patience
        <4>1. j \in 1..stream.arrived
          BY <1>2, <1>3
        <4> QED BY <2>1, <4>1 DEF Unsettled
      <3> QED BY <3>1, <3>2 DEF Settles
    <2>3. feed[n].idr = TRUE
      BY <1>2, <1>3, <2>2
    <2>4. begun = [open |-> << >>, output |-> << >>, number |-> 0, init |-> TRUE]
      BY <2>1 DEF begun, Unsettled, Mse!NoMuxer, Mse!Initialized
    <2>5. m = [open |-> <<n>>, output |-> << >>, number |-> 0, init |-> TRUE]
      <3>1. << >> \o << >> = << >>
        OBVIOUS
      <3> QED BY <2>3, <2>4, <3>1 DEF m, Mse!Written, Mse!IsKeyframe
    <2>6. muxer' = m /\ segments' = << >> /\ UNCHANGED <<feed, client, serving>> /\ stream' = seen
      BY <1>1, <1>6, <2>1, <2>5 DEF Mse!Complete, Unsettled
    <2>7. Piece(feed, <<n>>) /\ Mse!Last(<<n>>) = n /\ <<n>> \in Seq(Nat)
      BY <1>3, <2>3, PieceBegun DEF Piece
    <2>8. Cutting'
      BY <1>4, <2>5, <2>6, <2>7 DEF Cutting
    <2>9. MseTypes'
      BY <1>2, <1>4, <2>5, <2>6, <2>7, EmptySeq DEF MseTypes
    <2> QED BY <1>2, <1>6, <2>6, <2>8, <2>9 DEF MseInv, Feedable, Row
  <1>7. CASE stream.detected
    <2>1. Cutting /\ begun = muxer /\ seen.detected
      BY <1>2, <1>4, <1>7 DEF Cutting, begun
    <2>2. /\ muxer.init = TRUE /\ Piece(feed, muxer.open) /\ n = Mse!Last(muxer.open) + 1
          /\ segments # << >> => Head(muxer.open) = Mse!Last(Mse!Last(segments)) + 1
          /\ muxer.number = 0 => muxer.output = << >>
          /\ muxer.open # << >> /\ muxer.open \in Seq(Nat) /\ muxer.number \in Nat
      BY <1>2, <1>3, <2>1 DEF Cutting, Piece
    <2>3. CASE feed[n].idr = TRUE
      <3> DEFINE q == IF Len(segments) > MaxSegments THEN Tail(segments) ELSE segments
      <3>1. m = [open |-> <<n>>, output |-> muxer.open, number |-> muxer.number, init |-> TRUE]
        <4> DEFINE kept == IF muxer.number > 0 THEN << >> ELSE muxer.output
        <4>1. m = [[muxer EXCEPT !.output = kept \o muxer.open] EXCEPT !.open = <<n>>]
          BY <2>1, <2>3 DEF m, Mse!Written, Mse!IsKeyframe
        <4>2. kept = << >>
          BY <2>2
        <4>3. << >> \o muxer.open = muxer.open
          BY <2>2
        <4>4. kept \o muxer.open = muxer.open
          BY <4>2, <4>3
        <4> HIDE DEF kept
        <4>5. m = [[muxer EXCEPT !.output = muxer.open] EXCEPT !.open = <<n>>]
          BY <4>1, <4>4
        <4> QED BY <1>2, <2>2, <4>5
      <3>2. Mse!Complete(m, n)
        BY <2>2, <2>3, <3>1 DEF Mse!Complete, Mse!IsKeyframe
      <3>3. /\ muxer' = [open |-> <<n>>, output |-> muxer.open, number |-> muxer.number + 1, init |-> TRUE]
            /\ segments' = Append(q, muxer.open)
            /\ UNCHANGED <<feed, client, serving>> /\ stream' = seen
        BY <1>1, <2>1, <3>1, <3>2 DEF Mse!Pushed
      <3>4. /\ q \in Seq(Seq(Nat)) /\ Row(feed, q)
            /\ q # << >> => Head(muxer.open) = Mse!Last(Mse!Last(q)) + 1
        <4>1. CASE Len(segments) > MaxSegments
          <5>1. segments # << >>
            BY <1>2, <4>1
          <5> QED BY <1>2, <2>2, <4>1, <5>1, RowShorter
        <4>2. CASE ~(Len(segments) > MaxSegments)
          BY <1>2, <2>2, <4>2
        <4> QED BY <4>1, <4>2
      <3> HIDE DEF q
      <3>5. /\ segments' \in Seq(Seq(Nat)) /\ Row(feed, segments')
            /\ Mse!Last(segments') = muxer.open
        BY <2>2, <3>3, <3>4, RowLonger
      <3>6. Piece(feed, <<n>>) /\ Mse!Last(<<n>>) = n /\ Head(<<n>>) = n /\ <<n>> \in Seq(Nat)
        BY <1>3, <2>3, PieceBegun DEF Piece
      <3>7. Cutting'
        BY <1>4, <2>2, <3>3, <3>5, <3>6 DEF Cutting
      <3>8. MseTypes'
        <4>1. muxer' \in [open : Seq(Nat), output : Seq(Nat), number : Nat, init : BOOLEAN]
          BY <2>2, <3>3, <3>6
        <4> QED BY <1>2, <1>4, <3>3, <3>5, <4>1 DEF MseTypes
      <3> QED BY <1>2, <1>4, <2>1, <3>3, <3>5, <3>7, <3>8 DEF MseInv, Feedable
    <2>4. CASE feed[n].idr = FALSE
      <3>1. m = [muxer EXCEPT !.open = Append(muxer.open, n)]
        BY <2>1, <2>4 DEF m, Mse!Written, Mse!IsKeyframe
      <3>2. ~Mse!Complete(m, n)
        BY <2>4 DEF Mse!Complete, Mse!IsKeyframe
      <3>3. muxer' = m /\ UNCHANGED <<segments, feed, client, serving>> /\ stream' = seen
        BY <1>1, <2>1, <3>2
      <3>4. /\ Piece(feed, Append(muxer.open, n)) /\ Head(Append(muxer.open, n)) = Head(muxer.open)
            /\ Mse!Last(Append(muxer.open, n)) = n /\ Append(muxer.open, n) \in Seq(Nat)
        <4>1. /\ Piece(feed, Append(muxer.open, n)) /\ Head(Append(muxer.open, n)) = Head(muxer.open)
              /\ Mse!Last(Append(muxer.open, n)) = n
          <5>1. Mse!Last(muxer.open) \in Nat
            <6>1. Len(muxer.open) \in 1..Len(muxer.open)
              BY <2>2, EmptySeq, LenProperties
            <6> QED BY <2>2, <6>1, ItsElement DEF Mse!Last
          <5>2. n \in Nat /\ Mse!Last(muxer.open) = n - 1
            BY <2>2, <5>1
          <5>3. Piece(feed, muxer.open) /\ feed[n].idr = FALSE
            BY <2>2, <2>4
          <5> DEFINE s == muxer.open
          <5> HIDE DEF s
          <5>4. Piece(feed, s) /\ Mse!Last(s) = n - 1
            BY <5>2, <5>3 DEF s
          <5>5. /\ Piece(feed, Append(s, n)) /\ Head(Append(s, n)) = Head(s)
                /\ Mse!Last(Append(s, n)) = n
            BY <5>2, <5>3, <5>4, PieceGrows
          <5> QED BY <5>5 DEF s
        <4> QED BY <4>1 DEF Piece
      <3>5. /\ muxer'.open = Append(muxer.open, n) /\ muxer'.number = muxer.number
            /\ muxer'.output = muxer.output /\ muxer'.init = TRUE
            /\ muxer' \in [open : Seq(Nat), output : Seq(Nat), number : Nat, init : BOOLEAN]
        BY <1>2, <2>2, <3>1, <3>3, <3>4
      <3>6. Cutting'
        BY <1>4, <2>2, <3>3, <3>4, <3>5 DEF Cutting
      <3>7. MseTypes'
        BY <1>2, <1>4, <3>3, <3>5 DEF MseTypes
      <3> QED BY <1>2, <1>4, <2>1, <3>3, <3>6, <3>7 DEF MseInv, Feedable
    <2> QED BY <1>3, <2>3, <2>4
  <1> QED BY <1>4, <1>5, <1>6, <1>7

(* For feeds whose size is settled by a key frame. *)
CutInv == Mse!SettledByKey => MseInv

LEMMA MseHolds ==
  ASSUME Feeds \subseteq Seq([sps : BOOLEAN, idr : BOOLEAN]), Patience \in Nat, MaxSegments \in Nat
  PROVE  /\ Mse!Init \/ Mse!Off => CutInv
         /\ CutInv /\ [Mse!Next]_Mse!mseVars => CutInv'
         /\ CutInv => Mse!SegmentsCut
  <1>1. ASSUME Mse!Init \/ Mse!Off, Mse!SettledByKey PROVE MseInv
    <2>1. /\ stream = Mse!Fresh /\ muxer = Mse!NoMuxer /\ segments = << >>
          /\ client = [init |-> FALSE, segment |-> << >>]
      BY <1>1 DEF Mse!Init, Mse!Off
    <2>2. Feedable(feed)
      <3>1. CASE Mse!Init
        BY <1>1, <3>1 DEF Mse!Init, Feedable, Settles, Mse!SettledByKey, Mse!Settling
      <3>2. CASE Mse!Off
        BY <3>2 DEF Mse!Off, Feedable
      <3> QED BY <1>1, <3>1, <3>2
    <2>3. MseTypes /\ stream.detected = FALSE
      BY <2>1, EmptySeq DEF MseTypes, Mse!Fresh, Mse!NoMuxer
    <2>4. Unsettled
      BY <2>1 DEF Unsettled, Mse!Fresh
    <2> QED BY <2>1, <2>2, <2>3, <2>4 DEF MseInv, Row, Keyed
  <1>2. ASSUME MseInv, Mse!Start PROVE MseInv'
    BY <1>2 DEF Mse!Start, MseInv, Feedable, MseTypes, Unsettled, Cutting
  <1>3. ASSUME MseInv, Mse!GetInit PROVE MseInv'
    <2>1. client' = [client EXCEPT !.init = TRUE] /\ UNCHANGED <<feed, stream, muxer, segments, serving>>
      BY <1>3 DEF Mse!GetInit
    <2>2. client' \in [init : BOOLEAN, segment : Seq(Nat)] /\ client'.segment = client.segment
      BY <1>3, <2>1 DEF MseInv, MseTypes
    <2> QED BY <1>3, <2>1, <2>2 DEF MseInv, Feedable, MseTypes, Unsettled, Cutting
  <1>4. ASSUME MseInv, Mse!GetLatest PROVE MseInv'
    <2>1. /\ client' = [client EXCEPT !.segment = Mse!Last(segments)] /\ segments # << >>
          /\ UNCHANGED <<feed, stream, muxer, segments, serving>>
      BY <1>4 DEF Mse!GetLatest
    <2>2. Piece(feed, Mse!Last(segments))
      BY <1>4, <2>1, RowShorter DEF MseInv, MseTypes
    <2>3. client' \in [init : BOOLEAN, segment : Seq(Nat)] /\ Keyed(feed, client'.segment)
      BY <1>4, <2>1, <2>2 DEF MseInv, MseTypes, Piece
    <2> QED BY <1>4, <2>1, <2>3 DEF MseInv, Feedable, MseTypes, Unsettled, Cutting
  <1>5. ASSUME MseInv, Mse!TakeOldest PROVE MseInv'
    <2>1. /\ client' = [client EXCEPT !.segment = Head(segments)] /\ segments # << >>
          /\ segments' = Tail(segments) /\ UNCHANGED <<feed, stream, muxer, serving>>
      BY <1>5 DEF Mse!TakeOldest
    <2>2. /\ Tail(segments) \in Seq(Seq(Nat)) /\ Row(feed, Tail(segments))
          /\ Piece(feed, Head(segments))
          /\ Tail(segments) # << >> => Mse!Last(Tail(segments)) = Mse!Last(segments)
      BY <1>5, <2>1, RowShorter DEF MseInv, MseTypes
    <2>3. client' \in [init : BOOLEAN, segment : Seq(Nat)] /\ Keyed(feed, client'.segment)
      BY <1>5, <2>1, <2>2 DEF MseInv, MseTypes, Piece
    <2>4. serving # "off" => IF stream.detected THEN Cutting' ELSE Unsettled'
      BY <1>5, <2>1, <2>2 DEF MseInv, Unsettled, Cutting
    <2> QED BY <1>5, <2>1, <2>2, <2>3, <2>4 DEF MseInv, Feedable, MseTypes
  <1>6. ASSUME MseInv, Mse!Stop PROVE MseInv'
    <2>1. /\ serving' = "off" /\ stream' = Mse!Fresh /\ muxer' = Mse!NoMuxer /\ segments' = << >>
          /\ UNCHANGED <<feed, client>>
      BY <1>6 DEF Mse!Stop
    <2>2. MseTypes'
      BY <1>6, <2>1, EmptySeq DEF MseInv, MseTypes, Mse!Fresh, Mse!NoMuxer
    <2> QED BY <1>6, <2>1, <2>2 DEF MseInv, Feedable, Row
  <1>7. ASSUME MseInv, UNCHANGED Mse!mseVars PROVE MseInv'
    BY <1>7 DEF Mse!mseVars, MseInv, Feedable, MseTypes, Unsettled, Cutting
  <1>8. MseInv => Mse!SegmentsClean
    BY DEF MseInv, Row, Piece, Keyed, Mse!Clean, Mse!SegmentsClean
  <1>9. MseInv /\ [Mse!Next]_Mse!mseVars => MseInv'
    BY <1>2, <1>3, <1>4, <1>5, <1>6, <1>7, MseFrame DEF Mse!Next
  <1>10. [Mse!Next]_Mse!mseVars => Mse!SettledByKey' = Mse!SettledByKey
    <2>1. [Mse!Next]_Mse!mseVars => feed' = feed
      BY DEF Mse!Next, Mse!Start, Mse!OnFrame, Mse!GetInit, Mse!GetLatest, Mse!TakeOldest,
           Mse!Stop, Mse!mseVars
    <2> QED BY <2>1 DEF Mse!SettledByKey, Mse!Settling
  <1> QED BY <1>1, <1>8, <1>9, <1>10 DEF CutInv, Mse!SegmentsCut

-----------------------------------------------------------------------------
(* output_webrtc. *)

(* Instances of a worker of which no two give one stream id to different cameras; what they *)
(* push into the queue, and what a viewer of theirs may be shown.                           *)
Unambiguous(P) == \A p, q \in P : p.stream = q.stream => p.camera = q.camera
OwnFrames(P) == {[camera |-> p.camera, from |-> p.camera] : p \in P}
Sights(P) == {[asked |-> c, seen |-> c] : c \in {0} \cup {p.camera : p \in P}}

ShownInv == /\ Unambiguous(plugins) /\ started \subseteq plugins
            /\ frames \in Seq(OwnFrames(plugins)) /\ shown \in [Viewers -> Sights(plugins)]

LEMMA ShownHolds ==
  ASSUME \A P \in Deployments : Unambiguous(P), MaxFrames \in Nat
  PROVE  /\ Webrtc!Init \/ Webrtc!Off => ShownInv
         /\ ShownInv /\ [Webrtc!Next]_Webrtc!webrtcVars => ShownInv'
         /\ ShownInv => Webrtc!ShownAsAsked
  <1>1. ASSUME Webrtc!Init \/ Webrtc!Off PROVE ShownInv
    <2>1. Unambiguous(plugins)
      BY <1>1 DEF Webrtc!Init, Webrtc!Off, Unambiguous
    <2>2. started = {} /\ frames = << >> /\ shown = [v \in Viewers |-> Webrtc!Nothing]
      BY <1>1 DEF Webrtc!Init, Webrtc!Off, Webrtc!Rest
    <2>3. Webrtc!Nothing \in Sights(plugins)
      BY DEF Webrtc!Nothing, Sights
    <2> QED BY <2>1, <2>2, <2>3, EmptySeq DEF ShownInv
  <1>2. ASSUME ShownInv, NEW p \in plugins, Webrtc!PushFrame(p) PROVE ShownInv'
    <2>1. PICK c \in Webrtc!CameraOf(p) :
            frames' = Append(IF Len(frames) > MaxFrames THEN Tail(frames) ELSE frames,
                             [camera |-> c, from |-> p.camera])
      BY <1>2 DEF Webrtc!PushFrame
    <2>2. UNCHANGED <<plugins, started, shown>> /\ p \in started
      BY <1>2 DEF Webrtc!PushFrame
    <2>3. PICK q \in started : q.stream = p.stream /\ c = q.camera
      BY DEF Webrtc!CameraOf
    <2>4. c = p.camera
      BY <1>2, <2>2, <2>3 DEF ShownInv, Unambiguous
    <2>5. [camera |-> c, from |-> p.camera] \in OwnFrames(plugins)
      BY <2>4 DEF OwnFrames
    <2> DEFINE kept == IF Len(frames) > MaxFrames THEN Tail(frames) ELSE frames
    <2>6. kept \in Seq(OwnFrames(plugins))
      <3>1. frames \in Seq(OwnFrames(plugins))
        BY <1>2 DEF ShownInv
      <3>2. CASE Len(frames) > MaxFrames
        <4>1. frames # << >>
          BY <3>1, <3>2, EmptySeq
        <4> QED BY <3>1, <3>2, <4>1, HeadTailProperties
      <3>3. CASE ~(Len(frames) > MaxFrames)
        BY <3>1, <3>3
      <3> QED BY <3>2, <3>3
    <2> HIDE DEF kept
    <2>7. frames' \in Seq(OwnFrames(plugins))
      BY <2>1, <2>5, <2>6, AppendProperties DEF kept
    <2> QED BY <1>2, <2>2, <2>7 DEF ShownInv
  <1>3. ASSUME ShownInv, NEW v \in Viewers, NEW c, Webrtc!CreateOffer(v, c) PROVE ShownInv'
    <2>1. shown' = [shown EXCEPT ![v] = Webrtc!Nothing] /\ UNCHANGED <<plugins, started, frames>>
      BY <1>3 DEF Webrtc!CreateOffer
    <2>2. Webrtc!Nothing \in Sights(plugins)
      BY DEF Webrtc!Nothing, Sights
    <2> QED BY <1>3, <2>1, <2>2 DEF ShownInv
  <1>4. ASSUME ShownInv, Webrtc!Send PROVE ShownInv'
    <2> DEFINE f == Head(frames)
    <2>1. /\ frames # << >> /\ frames' = Tail(frames) /\ UNCHANGED <<plugins, started>>
          /\ shown' = [v \in Viewers |->
                          IF Webrtc!Watching(v, f) /\ viewers[v].ssrc \in tracks
                          THEN [asked |-> viewers[v].camera, seen |-> f.from] ELSE shown[v]]
      BY <1>4 DEF Webrtc!Send
    <2>2. f \in OwnFrames(plugins) /\ Tail(frames) \in Seq(OwnFrames(plugins))
      BY <1>4, <2>1, HeadTailProperties DEF ShownInv
    <2> HIDE DEF f
    <2>3. PICK p \in plugins : f = [camera |-> p.camera, from |-> p.camera]
      BY <2>2 DEF OwnFrames
    <2>4. ASSUME NEW v \in Viewers, Webrtc!Watching(v, f)
          PROVE  [asked |-> viewers[v].camera, seen |-> f.from] \in Sights(plugins)
      BY <2>3, <2>4 DEF Webrtc!Watching, Sights
    <2>5. \A v \in Viewers : shown[v] \in Sights(plugins)
      BY <1>4 DEF ShownInv
    <2>6. shown' \in [Viewers -> Sights(plugins)]
      BY <2>1, <2>4, <2>5
    <2> QED BY <1>4, <2>1, <2>2, <2>6 DEF ShownInv
  <1>5. ASSUME ShownInv, NEW p \in plugins, Webrtc!Start(p) \/ Webrtc!Stop(p) PROVE ShownInv'
    BY <1>5 DEF Webrtc!Start, Webrtc!Stop, ShownInv
  <1>6. ASSUME ShownInv, \E v \in Viewers : Webrtc!SetAnswer(v) \/ Webrtc!DropViewer(v) \/ Webrtc!Leave(v)
        PROVE  ShownInv'
    BY <1>6 DEF Webrtc!SetAnswer, Webrtc!DropViewer, Webrtc!Leave, ShownInv
  <1>7. ASSUME ShownInv, Webrtc!Cleanup \/ UNCHANGED Webrtc!webrtcVars PROVE ShownInv'
    BY <1>7 DEF Webrtc!Cleanup, Webrtc!webrtcVars, ShownInv
  <1>8. ASSUME ShownInv, NEW v \in Viewers PROVE shown[v].asked = shown[v].seen
    <2>1. shown[v] \in Sights(plugins)
      BY <1>8 DEF ShownInv
    <2> QED BY <2>1 DEF Sights
  <1> QED BY <1>1, <1>2, <1>3, <1>4, <1>5, <1>6, <1>7, <1>8
          DEF Webrtc!Next, Webrtc!Commands, Webrtc!ShownAsAsked

-----------------------------------------------------------------------------
(* decode_ffmpeg's scaler. *)

(* A frame has the size of a packet, and so has the scaler; where one is kept rightly it    *)
(* fits.                                                                                   *)
FitInv == /\ decoder.frame # Media!NoFrame => \E p \in Packets : decoder.frame.size = p.size
          /\ decoder.scaler # 0 => \E p \in Packets : decoder.scaler = p.size
          /\ Media!ScalerRemade

LEMMA FitHolds ==
  ASSUME \A s \in MediaSetups : Wired(s)
  PROVE  /\ Media!Init => FitInv
         /\ MediaInv /\ FitInv /\ [Media!Next]_Media!mediaVars => FitInv'
  <1>1. ASSUME Media!Init PROVE FitInv
    BY <1>1 DEF Media!Init, FitInv, Media!ScalerRemade, Media!ScalerFits, Media!Scaled, Media!NoFrame
  <1>2. ASSUME MediaInv, FitInv, [Media!Next]_Media!mediaVars PROVE FitInv'
    <2>1. setup' = setup /\ Packets' = Packets /\ Media!KeptRightly' = Media!KeptRightly
      <3>1. setup' = setup
        BY <1>2 DEF Media!Next, Media!Connect, Media!Capture, Media!Pump, Media!DropUnwanted,
             Media!DecodePacket, Media!ForwardFrame, Media!ReleaseFrame, Media!DetectFused,
             Media!Take, Media!Detect, Media!Encode, Media!mediaVars
      <3> QED BY <3>1 DEF Packets, Media!KeptRightly
    <2>2. /\ DOMAIN decoder = DecoderFields /\ setup \in MediaSetups
          /\ queue.decode \in Seq(Packets)
      BY <1>2 DEF MediaInv, MediaTypes
    <2>3. /\ \A p \in Packets : p.codec # "forwarded"
          /\ Media!KeptRightly =>
                \/ \A p, q \in Packets : p.size = q.size
                \/ setup.scale # Media!Orig /\ \A p \in Packets : p.size # setup.scale
      <3>1. Packets = Media!ToSet(setup.conns)
        BY DEF Packets, Media!ToSet
      <3> QED BY <2>2, <3>1 DEF Packets, Wired, Media!KeptRightly
    <2>4. CASE Media!DecodePacket
      <3> DEFINE d == Media!Ensured
                 p == Head(queue.decode)
                 f == [id |-> decoder.count + 1, gpu |-> setup.hwaccel, size |-> p.size]
      <3>1. /\ queue.decode # << >>
            /\ \/ decoder' = [d EXCEPT !.packet = p.codec, !.frame = f, !.count = @ + 1]
               \/ decoder' = [d EXCEPT !.packet = p.codec]
        BY <2>4 DEF Media!DecodePacket
      <3>2. DOMAIN d = DecoderFields /\ d.frame = decoder.frame /\ d.scaler = decoder.scaler
        BY <2>2 DEF Media!Ensured, DecoderFields
      <3>3. p \in Packets
        BY <2>2, <3>1, HeadTailProperties
      <3>4. f.size = p.size
        OBVIOUS
      <3> HIDE DEF d, p, f
      <3>5. /\ decoder'.packet = p.codec /\ decoder'.scaler = decoder.scaler
            /\ decoder'.frame = f \/ decoder'.frame = decoder.frame
        BY <3>1, <3>2 DEF DecoderFields
      <3>6. p.codec # "forwarded"
        BY <2>3, <3>3
      <3> QED BY <1>2, <2>1, <3>3, <3>4, <3>5, <3>6
             DEF FitInv, Media!ScalerRemade, Media!ScalerFits, Media!Scaled, Media!NoFrame
    <2>5. CASE Media!ForwardFrame
      <3> DEFINE s == IF decoder.frame.gpu \/ ~Media!Converts(decoder.frame.size) THEN decoder.scaler
                      ELSE Media!ScalerFor(decoder.frame.size)
      <3>1. /\ decoder.frame # Media!NoFrame /\ UNCHANGED setup
            /\ decoder' = [decoder EXCEPT !.packet = "forwarded", !.scaler = s]
        BY <2>5 DEF Media!ForwardFrame
      <3>2. PICK p \in Packets : decoder.frame.size = p.size
        BY <1>2, <3>1 DEF FitInv
      <3>3. s \in {decoder.scaler, p.size}
        BY <3>2 DEF Media!ScalerFor
      <3>4. Media!KeptRightly /\ ~decoder.frame.gpu /\ Media!Converts(decoder.frame.size)
              => s = decoder.frame.size
        BY <1>2, <2>3, <3>2 DEF FitInv, Media!ScalerFor, Media!OutSize
      <3> HIDE DEF s
      <3>5. decoder'.frame = decoder.frame /\ decoder'.scaler = s
        BY <2>2, <3>1 DEF DecoderFields
      <3>6. Media!Converts(decoder.frame.size)' = Media!Converts(decoder.frame.size)
        BY <3>1, <3>5 DEF Media!Converts, Media!OutSize
      <3>7. Media!ScalerRemade'
        BY <2>1, <3>4, <3>5, <3>6 DEF Media!ScalerRemade, Media!ScalerFits, Media!Scaled
      <3>8. decoder'.scaler # 0 => \E x \in Packets : decoder'.scaler = x.size
        BY <1>2, <3>2, <3>3, <3>5 DEF FitInv
      <3> QED BY <2>1, <3>2, <3>5, <3>7, <3>8 DEF FitInv
    <2>6. CASE Media!ReleaseFrame
      <3>1. decoder' = [decoder EXCEPT !.frame = Media!NoFrame, !.packet = "none"]
        BY <2>6 DEF Media!ReleaseFrame
      <3>2. /\ decoder'.frame = Media!NoFrame /\ decoder'.packet = "none"
            /\ decoder'.scaler = decoder.scaler
        BY <2>2, <3>1 DEF DecoderFields
      <3> QED BY <1>2, <2>1, <3>2 DEF FitInv, Media!ScalerRemade, Media!ScalerFits, Media!Scaled
    <2>7. CASE Media!DetectFused
      <3>1. decoder' = [decoder EXCEPT !.packet = "forwarded"] /\ setup.below = "fused"
        BY <2>7 DEF Media!DetectFused
      <3>2. decoder'.frame = decoder.frame /\ decoder'.scaler = decoder.scaler
        BY <2>2, <3>1 DEF DecoderFields
      <3> QED BY <1>2, <2>1, <3>1, <3>2 DEF FitInv, Media!ScalerRemade, Media!ScalerFits, Media!Scaled
    <2>8. CASE UNCHANGED decoder
      BY <1>2, <2>1, <2>8 DEF FitInv, Media!ScalerRemade, Media!ScalerFits, Media!Scaled,
           Media!Converts, Media!OutSize
    <2> QED BY <1>2, <2>4, <2>5, <2>6, <2>7, <2>8 DEF Media!Next, Media!Connect, Media!Capture,
              Media!Pump, Media!DropUnwanted, Media!Take, Media!Detect, Media!Encode, Media!mediaVars
  <1> QED BY <1>1, <1>2

-----------------------------------------------------------------------------
(* audio_detect's windows. *)

(* The samples of all the hops made have been let go, and less than a window is kept where *)
(* windows can be run.                                                                     *)
WindowInv == /\ pcm \in [front : Nat, heard : Nat] /\ windowsRun \in Nat
             /\ pcm.front <= pcm.heard /\ Audio!WindowsHop

(* A quotient, times its divisor and once more, encloses the number. *)
LEMMA Quotient ==
  ASSUME NEW k \in Nat, NEW h \in Nat \ {0}
  PROVE  k \div h \in Nat /\ h * (k \div h) <= k /\ k < h * (k \div h) + h
  OBVIOUS

LEMMA WindowsHold ==
  ASSUME Runs \subseteq BOOLEAN, Hop \in Nat \ {0}, Window \in Nat, Hop <= Window, MaxSamples \in Nat
  PROVE  /\ Audio!Init => WindowInv
         /\ WindowInv /\ [Audio!Next]_Audio!audioVars => WindowInv'
  <1>1. ASSUME Audio!Init PROVE WindowInv
    <2>1. pcm = [front |-> 0, heard |-> 0] /\ windowsRun = 0
      BY <1>1 DEF Audio!Init
    <2>2. Hop * 0 = 0 /\ 0 < Window
      OBVIOUS
    <2>3. Audio!WindowsApart /\ Audio!BufferRolls
      BY <2>1, <2>2 DEF Audio!WindowsApart, Audio!BufferRolls
    <2> QED BY <2>1, <2>3 DEF WindowInv, Audio!WindowsHop
  <1>2. ASSUME WindowInv, Audio!OnFrame PROVE WindowInv'
    <2>1. PICK c \in Listened, n \in 0..MaxSamples, runs \in Runs :
            LET decoded == IF audioDecoder' = [codec |-> c, extra |-> c] THEN n ELSE 0
                d == Audio!Drained(Audio!Resampled(pcm, decoded), runs)
            IN pcm' = d.pcm /\ windowsRun' = windowsRun + d.run
      BY <1>2 DEF Audio!OnFrame
    <2> DEFINE samples == pcm.heard + (IF audioDecoder' = [codec |-> c, extra |-> c] THEN n ELSE 0)
               waiting == samples - pcm.front
               k == IF runs /\ waiting >= Window THEN 1 + (waiting - Window) \div Hop ELSE 0
    <2>2. /\ pcm \in [front : Nat, heard : Nat] /\ windowsRun \in Nat
          /\ pcm.front <= pcm.heard /\ pcm.front = Hop * windowsRun
      BY <1>2 DEF WindowInv, Audio!WindowsHop, Audio!WindowsApart
    <2>3. samples \in Nat /\ waiting \in Nat
      BY <2>2
    <2>4. pcm' = [front |-> pcm.front + k * Hop, heard |-> samples] /\ windowsRun' = windowsRun + k
      BY <2>1, <2>2 DEF Audio!Drained, Audio!Resampled, Audio!Erased
    <2> HIDE DEF samples
    <2>5. k \in Nat /\ k * Hop <= waiting /\ (runs => waiting - k * Hop < Window)
      <3>1. CASE runs /\ waiting >= Window
        <4> DEFINE over == waiting - Window
                   m == over \div Hop
        <4>1. over \in Nat /\ k = 1 + m
          BY <2>3, <3>1
        <4> HIDE DEF over
        <4>2. m \in Nat /\ Hop * m <= over /\ over < Hop * m + Hop
          BY <4>1, Quotient
        <4> HIDE DEF m
        <4>3. m \in Nat /\ Hop * m <= waiting - Window /\ waiting - Window < Hop * m + Hop
          BY <4>2 DEF over
        <4>4. k * Hop = Hop * m + Hop
          BY <4>1, <4>3
        <4> QED BY <2>3, <4>1, <4>3, <4>4
      <3>2. CASE ~(runs /\ waiting >= Window)
        BY <2>3, <3>2
      <3> QED BY <3>1, <3>2
    <2> HIDE DEF k
    <2>6. k * Hop \in Nat /\ Hop * (windowsRun + k) = Hop * windowsRun + k * Hop
      BY <2>2, <2>5
    <2>7. /\ pcm.front + k * Hop \in Nat /\ pcm.front + k * Hop <= samples
          /\ runs => samples - (pcm.front + k * Hop) < Window
      BY <2>2, <2>3, <2>5, <2>6
    <2>8. Audio!WindowsApart'
      BY <2>2, <2>4, <2>6 DEF Audio!WindowsApart
    <2>9. ASSUME Runs = {TRUE} PROVE Audio!BufferRolls'
      <3>1. runs
        BY <2>1, <2>9
      <3> QED BY <2>4, <2>7, <3>1 DEF Audio!BufferRolls
    <2>10. Audio!WindowsHop'
      BY <2>8, <2>9 DEF Audio!WindowsHop
    <2>11. samples \in Nat /\ windowsRun + k \in Nat
      BY <2>2, <2>3, <2>5
    <2> QED BY <2>4, <2>7, <2>10, <2>11 DEF WindowInv
  <1>3. ASSUME WindowInv, UNCHANGED <<pcm, windowsRun>> PROVE WindowInv'
    BY <1>3 DEF WindowInv, Audio!WindowsHop, Audio!WindowsApart, Audio!BufferRolls
  <1> QED BY <1>1, <1>2, <1>3 DEF Audio!Next, Audio!CodecLearnt, Audio!ExtraLearnt, Audio!audioVars

-----------------------------------------------------------------------------
(* MediaPlugins: each part takes its own steps only. *)
LEMMA EachPart ==
  ASSUME [MediaNext]_allVars
  PROVE  /\ [Next]_vars /\ [Streams!Next]_Streams!streamVars /\ [File!Next]_File!fileVars
         /\ [Media!Next]_Media!mediaVars /\ [Sink!Next]_Sink!sinkVars
         /\ [Audio!Next]_Audio!audioVars /\ [Pipe!Next]_Pipe!pipeVars
         /\ [Mse!Next]_Mse!mseVars /\ [Webrtc!Next]_Webrtc!webrtcVars
         /\ part' = part /\ (part # "pipe" => UNCHANGED pipeVars)
         /\ part # "wire" => UNCHANGED wireVars
  <1> USE DEF busVars, streamVars, fileVars, mediaVars, sinkVars, audioVars, pipeVars, mseVars,
          webrtcVars, wireVars, Streams!streamVars, File!fileVars, Media!mediaVars,
          Sink!sinkVars, Audio!audioVars, Pipe!pipeVars, Mse!mseVars, Webrtc!webrtcVars
  <1>1. CASE MediaNext
    BY <1>1 DEF MediaNext, Others, Rests
  <1>2. CASE UNCHANGED allVars
    BY <1>2 DEF allVars
  <1> QED BY <1>1, <1>2

(* Each event on the bus reaches each steady subscriber once, whatever else goes on. *)
THEOREM BusDelivers == MediaSpec => []EachOnce
  <1>1. MediaInit => BusInv
    BY InitInv DEF MediaInit
  <1>2. BusInv /\ [MediaNext]_allVars => BusInv'
    BY EachPart, StepInv
  <1>3. BusInv => EachOnce
    BY DEF BusInv, Apart, SteadyListed, EachOnce, Remaining
  <1> QED BY <1>1, <1>2, <1>3, PTL DEF MediaSpec

(* Nothing is used after it has been freed: for any cameras, any tree of plugins, any       *)
(* threads that post and any media; if a decoder on the GPU has no queue before its         *)
(* detector, without which SurfaceFreed shows the contrary.                                 *)
THEOREM NothingFreedIsUsed ==
  ASSUME NEW C, \A s \in MediaSetups : Wired(s) /\ Fused(s) /\ s.conns \in Seq(C),
         NEW Plugin, Pipelines \subseteq Seq(Plugin) \ {<< >>}, "none" \notin Posters
  PROVE  MediaSpec => []NothingUsedAfterFree
  <1> DEFINE Life == IF part = "pipe" THEN LifeInv ELSE Pipe!Off
             All == StreamInv /\ MediaInv /\ SinkInv /\ Life
  <1>1. MediaInit => All
    <2>1. MediaInit => /\ Streams!Init /\ Media!Init /\ (Sink!Init \/ Sink!Off)
                       /\ IF part = "pipe" THEN Pipe!Init ELSE Pipe!Off
      BY DEF MediaInit
    <2> QED BY <2>1, StreamsHold, MediaHolds, SinkHolds, LifeHolds
  <1>2. All /\ [MediaNext]_allVars => All'
    <2> SUFFICES ASSUME All, [MediaNext]_allVars PROVE All'
      OBVIOUS
    <2>1. StreamInv' /\ MediaInv' /\ SinkInv'
      BY EachPart, StreamsHold, MediaHolds, SinkHolds
    <2>2. CASE part = "pipe"
      BY <2>1, <2>2, EachPart, LifeHolds
    <2>3. CASE part # "pipe"
      BY <2>1, <2>3, EachPart DEF pipeVars, Pipe!Off
    <2> QED BY <2>2, <2>3
  <1>3. All => NothingUsedAfterFree
    <2>1. Pipe!Off => Pipe!CallsWithinLife
      BY DEF Pipe!Off, Pipe!CallsWithinLife, Pipe!Plugins
    <2>2. MediaInv => Media!SurfaceAlive
      BY MediaHolds DEF MediaInv, MediaTypes
    <2> QED BY <2>1, <2>2, StreamsHold, SinkHolds, LifeHolds DEF NothingUsedAfterFree
  <1> QED BY <1>1, <1>2, <1>3, PTL DEF MediaSpec

(* Whoever gets media has been told a codec before, and makes its decoder of what it was    *)
(* told: for any cameras on the bus, any streams of a source, of whatever codecs and sizes,  *)
(* wanted or not, and any cameras listened to.  That the codec is the stream's own is not    *)
(* claimed: it does not hold of a source of two codecs, nor of two cameras (WantedCodec,    *)
(* DecoderFits).                                                                             *)
THEOREM MediaAreKnown ==
  ASSUME NEW C, \A s \in MediaSetups : Wired(s) /\ s.conns \in Seq(C),
         0 \notin AudioCameras, Listened \subseteq AudioCameras
  PROVE  MediaSpec => []MediaKnown
  <1> DEFINE All == StreamInv /\ MediaInv /\ AudioInv
  <1>1. MediaInit => All
    <2>1. MediaInit => Streams!Init /\ Media!Init /\ Audio!Init
      BY DEF MediaInit
    <2> QED BY <2>1, StreamsHold, MediaHolds, AudioHolds
  <1>2. All /\ [MediaNext]_allVars => All'
    BY EachPart, StreamsHold, MediaHolds, AudioHolds
  <1>3. All => MediaKnown
    BY StreamsHold, MediaHolds DEF AudioInv, MediaKnown
  <1> QED BY <1>1, <1>2, <1>3, PTL DEF MediaSpec

(* A file that is played again and again goes forward in time: for any files whose video    *)
(* does.                                                                                    *)
THEOREM PlaysForward ==
  ASSUME \A f \in Files : Timed(f)
  PROVE  MediaSpec => TimeGoesForward
  <1>1. MediaInit => PlayInv
    <2>1. MediaInit => File!Init
      BY DEF MediaInit
    <2> QED BY <2>1, PlayHolds
  <1>2. PlayInv /\ [MediaNext]_allVars => PlayInv'
    BY EachPart, PlayHolds
  <1>3. PlayInv /\ [MediaNext]_allVars =>
          [File!Increasing("video") /\ played'.video # played.video
               => played'.video > played.video]_File!fileVars
    BY EachPart, PlayHolds
  <1>4. MediaSpec => File!VideoForward
    BY <1>1, <1>2, <1>3, PTL DEF MediaSpec, File!VideoForward
  <1> QED BY <1>4 DEF TimeGoesForward

(* A reader of nothing has all that was sent. *)
LEMMA NothingSent == Wire!Off => Wire!AsSent
  <1> SUFFICES ASSUME Wire!Off PROVE Wire!AsSent
    OBVIOUS
  <1>1. exchange.units = << >> /\ received = << >> /\ state = "dead"
    BY DEF Wire!Off
  <1> DEFINE said == [i \in DOMAIN exchange.units |-> Wire!Said(exchange.units[i])]
  <1>2. said = << >>
    BY <1>1
  <1> HIDE DEF said
  <1>3. Wire!IsPrefix(SubSeq(said, 1, -1), received)
    <2>1. SubSeq(<< >>, 1, -1) = << >> /\ SubSeq(<< >>, 1, 0) = << >> /\ Len(<< >>) = 0
      OBVIOUS
    <2> QED BY <1>1, <1>2, <2>1 DEF Wire!IsPrefix
  <1>4. Wire!SelectInSeq(exchange.units, LAMBDA u : u.version # Wire!kProtocolVersion) = 0
    <2>1. 1..Len(exchange.units) = {}
      BY <1>1
    <2> QED BY <2>1 DEF Wire!SelectInSeq
  <1>5. 0 - 1 = -1
    OBVIOUS
  <1> QED BY <1>1, <1>3, <1>4, <1>5 DEF Wire!AsSent, said

(* What is cut or converted is right at every boundary, the units of the protocol apart:    *)
(* for any frames, any media and outputs, any samples and hops, whether windows can be run  *)
(* or not, any viewers, and plugins of which no two give one stream id to two cameras.  The *)
(* conditions are in the property: without them SegmentsClean, ScalerFits and BufferRolls   *)
(* do not hold.                                                                             *)
THEOREM CutRight ==
  ASSUME Feeds \subseteq Seq([sps : BOOLEAN, idr : BOOLEAN]), Patience \in Nat, MaxSegments \in Nat,
         NEW C, \A s \in MediaSetups : Wired(s) /\ s.conns \in Seq(C),
         Runs \subseteq BOOLEAN, Hop \in Nat \ {0}, Window \in Nat, Hop <= Window,
         MaxSamples \in Nat, \A P \in Deployments : Unambiguous(P), MaxFrames \in Nat
  PROVE  MediaSpec => [](part # "wire" => CutAndShownRight)
  <1> DEFINE Rest == part # "wire" => Wire!Off
             All == CutInv /\ MediaInv /\ FitInv /\ WindowInv /\ ShownInv /\ Rest
  <1>1. MediaInit => All
    <2>1. MediaInit => /\ Media!Init /\ Audio!Init /\ (Mse!Init \/ Mse!Off)
                       /\ (Webrtc!Init \/ Webrtc!Off) /\ Rest
      BY DEF MediaInit
    <2> QED BY <2>1, MseHolds, MediaHolds, FitHolds, WindowsHold, ShownHolds
  <1>2. All /\ [MediaNext]_allVars => All'
    <2> SUFFICES ASSUME All, [MediaNext]_allVars PROVE All'
      OBVIOUS
    <2>1. CutInv' /\ MediaInv' /\ FitInv' /\ WindowInv' /\ ShownInv'
      BY EachPart, MseHolds, MediaHolds, FitHolds, WindowsHold, ShownHolds
    <2>2. Rest'
      BY EachPart DEF wireVars, Wire!Off
    <2> QED BY <2>1, <2>2
  <1>3. All => (part # "wire" => CutAndShownRight)
    BY MseHolds, ShownHolds, NothingSent DEF FitInv, WindowInv, CutAndShownRight
  <1> QED BY <1>1, <1>2, <1>3, PTL DEF MediaSpec
=============================================================================
