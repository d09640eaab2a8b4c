----------------------------- MODULE StoreProofs -----------------------------
(***************************************************************************)
(* The recorder keeps its clips in order, complete and rightly named, and  *)
(* misses nothing that should be recorded, for every camera, every         *)
(* configuration and every number of packets.                              *)
(*                                                                         *)
(* The invariant, Core, ties three lists together.  The open clip and the  *)
(* pre-roll buffer are both ends of the list of packets received (Seams):  *)
(* that is why a clip that opens with the buffer continues with the next   *)
(* packet.  Tokens number the clips, closed ones first (Tokens), and the   *)
(* requests not dealt with are younger than every answered one (Owing):    *)
(* so while the newest clip is open, an answer for it is the last to come, *)
(* and is in the clip or still pending (Names) - a late answer for an      *)
(* older clip cannot overwrite it.                                         *)
(*                                                                         *)
(* The second part needs more, inductive together with Core.               *)
(* Segments: between BeginFrame and WriteFrame a new segment is empty and  *)
(* its keyframe is in work (Decodable); the keyframe in work is in time    *)
(* for the open segment, or it would have been rotated (OnTime); and an    *)
(* open segment begins after the last packet of the one before (Gapless).  *)
(* Events: what has left the buffer is older than the pre-roll, what is    *)
(* not in the open clip came before its pre-roll, and time has passed the  *)
(* end of every closed clip, so no later packet can belong to it           *)
(* (Covering).                                                             *)
(***************************************************************************)
EXTENDS Store, Extrema, SequenceTheorems

Packet == [n : Nat, pts : Nat, kind : {"key", "delta", "audio"}]
Clip == [token : Nat \ {0}, id : Nat, cause : {"continuous", "trigger"}, frames : Seq(Packet),
         opened : Nat, until : Nat, known : BOOLEAN]

Types == /\ setup \in Setups /\ running \in BOOLEAN /\ video \in BOOLEAN
         /\ buffer \in Seq(Packet) /\ received \in Seq(Packet)
         /\ frame \in Packet \cup {NoPacket}
         /\ clip \in Clip \cup {NoClip} /\ saved \in Seq(Clip)
         /\ lastTrigger \in Nat /\ clipSeq \in Nat
         /\ pending \in Nat /\ owed \in Seq(Nat) /\ answered \in SUBSET Nat

(* Packets are numbered as they arrive and their times do not go back.  No packet is  *)
(* in work once handle_stop is called, and no segment is open when it is done; no     *)
(* clip is open before the codec is known.                                           *)
Feed == /\ \A k \in 1..Len(received) : received[k].n = k
        /\ \A j, k \in 1..Len(received) : j <= k => received[j].pts <= received[k].pts
        /\ frame # NoPacket => (received # << >> /\ frame = Last(received))
        /\ ~running => frame = NoPacket
        /\ stopped => (~running /\ (setup.mode # "event" => ~Recording))
        /\ Recording => video

(* Tokens number the clips, closed ones first. *)
Tokens == /\ \A i \in 1..Len(saved) : saved[i].token = i
          /\ Recording => clip.token = Len(saved) + 1
          /\ clipSeq = Len(saved) + (IF Recording THEN 1 ELSE 0)

(* The requests not dealt with are younger than the answered ones. *)
Owing == /\ \A i \in 1..Len(owed) : owed[i] \in 1..clipSeq
         /\ \A i, j \in 1..Len(owed) : i < j => owed[i] < owed[j]
         /\ answered \subseteq 1..clipSeq
         /\ \A i \in 1..Len(owed) : \A a \in answered : a < owed[i]

(* A clip has its own id or none; it has it if it was answered before its last packet. *)
Named(c) == c.id \in {0, c.token} /\ (c.known => c.id = c.token)

(* The open clip, if answered, has its id or is about to get it. *)
Names == /\ \A i \in 1..Len(saved) : Named(saved[i])
         /\ Recording => Named(clip)
         /\ (Recording /\ clip.token \in answered)
               => (clip.id = clip.token \/ pending = clip.token)

(* How many packets handle_frame is done with. *)
Handled == IF MtxFree THEN Len(received) ELSE Len(received) - 1

(* s holds the last packets of the first k received. *)
EndsAt(s, k) == /\ Len(s) <= k
                /\ \A j \in 1..Len(s) : s[j] = received[k - Len(s) + j]

Unbroken(c) == \A j \in 1..Len(c.frames) - 1 : c.frames[j + 1].n = c.frames[j].n + 1

(* The buffer ends with the last packet received, the open clip with the last handled. *)
Seams == /\ EndsAt(buffer, Len(received))
         /\ setup.mode # "event" => buffer = << >>
         /\ (setup.mode = "event" /\ received # << >>) => buffer # << >>
         /\ Recording => EndsAt(clip.frames, Handled)
         /\ \A i \in 1..Len(saved) : Unbroken(saved[i])

Core == Types /\ Feed /\ Tokens /\ Owing /\ Names /\ Seams

-----------------------------------------------------------------------------

(* The window is never shorter than the pre-roll, and longer unless the cap is equal to it. *)
LEMMA WindowLong ==
  /\ MaxBufferSec \in Nat /\ MaxBufferSec >= PreRollSec
  /\ WindowSec \in Nat
  /\ MaxBufferConfig # PreRollSec => WindowSec > PreRollSec
  <1>1. MaxBufferSec \in Nat /\ MaxBufferSec >= PreRollSec
    BY PreRollAssumption DEF MaxBufferSec
  <1> DEFINE w == Min({PreRollSec + 2, MaxBufferSec})
  <1>2. w \in {PreRollSec + 2, MaxBufferSec}
    BY <1>1, PreRollAssumption, MinExists
  <1>3. MaxBufferConfig # PreRollSec => MaxBufferSec > PreRollSec
    BY PreRollAssumption DEF MaxBufferSec
  <1> QED BY <1>1, <1>2, <1>3, PreRollAssumption DEF WindowSec

(* What buffer_append keeps is the end of what was there with the new packet. *)
LEMMA AlignedTrim ==
  ASSUME NEW buf \in Seq(Packet), NEW cutoff \in Int, buf # << >>,
         \A i, j \in 1..Len(buf) : i <= j => buf[i].pts <= buf[j].pts
  PROVE  /\ BeforeOldKey(buf, cutoff) \in 0..Len(buf) - 1
         /\ \A i \in 1..BeforeOldKey(buf, cutoff) : buf[i].pts <= cutoff
  <1> DEFINE newer == {i \in 1..Len(buf) : buf[i].pts > cutoff}
             leading == 1 .. (IF newer = {} THEN Len(buf) ELSE Min(newer) - 1)
             keys == {i \in leading : IsKey(buf[i])}
  <1>0. Len(buf) \in Nat \ {0} /\ \A i \in 1..Len(buf) : buf[i].pts \in Nat
    <2>1. Len(buf) \in Nat \ {0}
      OBVIOUS
    <2>2. \A i \in 1..Len(buf) : buf[i] \in Packet
      OBVIOUS
    <2> QED BY <2>1, <2>2 DEF Packet
  <1>1. leading \subseteq 1..Len(buf) /\ \A i \in leading : buf[i].pts <= cutoff
    <2>1. CASE newer = {}
      BY <1>0, <2>1
    <2>2. CASE newer # {}
      <3>1. newer \subseteq Nat
        OBVIOUS
      <3>2. Min(newer) \in newer /\ \A i \in newer : Min(newer) <= i
        <4> HIDE DEF newer
        <4> QED BY <2>2, <3>1, MinExists
      <3>3. leading = 1..Min(newer) - 1 /\ Min(newer) \in 1..Len(buf)
        BY <2>2, <3>2
      <3>4. ASSUME NEW i \in leading PROVE i \in 1..Len(buf) /\ buf[i].pts <= cutoff
        <4>1. i \in 1..Len(buf) /\ i < Min(newer)
          BY <1>0, <3>3
        <4>2. i \notin newer
          BY <3>2, <3>3, <4>1
        <4> QED BY <1>0, <4>1, <4>2
      <3> QED BY <3>4
    <2> QED BY <2>1, <2>2
  <1>2. CASE keys = {}
    <2>1. BeforeOldKey(buf, cutoff) = 0
      BY <1>2 DEF BeforeOldKey
    <2> HIDE DEF newer, leading, keys
    <2> QED BY <1>0, <2>1
  <1>3. CASE keys # {}
    <2>1. Max(keys) \in keys
      <3>1. keys \subseteq 0..Len(buf)
        BY <1>0, <1>1
      <3> HIDE DEF keys
      <3> QED BY <1>0, <1>3, <3>1, MaxExists
    <2>2. Max(keys) \in 1..Len(buf) /\ buf[Max(keys)].pts <= cutoff
      BY <1>1, <2>1
    <2>3. BeforeOldKey(buf, cutoff) = Max(keys) - 1
      BY <1>3 DEF BeforeOldKey
    <2>4. ASSUME NEW i \in 1..Max(keys) - 1 PROVE buf[i].pts <= cutoff
      <3>1. i \in 1..Len(buf) /\ i <= Max(keys)
        BY <1>0, <2>2
      <3>2. buf[i].pts <= buf[Max(keys)].pts
        BY <2>2, <3>1
      <3> QED BY <1>0, <2>2, <3>1, <3>2
    <2> HIDE DEF newer, leading, keys
    <2> QED BY <1>0, <2>2, <2>3, <2>4
  <1> QED BY <1>2, <1>3

(* How many packets the cap drops: all too old, and no more than up to one that is     *)
(* young enough, the last one, or the last keyframe (store.cpp:289-303).                 *)
LEMMA CapTrim ==
  ASSUME NEW buf \in Seq(Packet), NEW hardCutoff \in Int, buf # << >>
  PROVE  LET d == HardTrim(buf, hardCutoff) IN
         /\ d \in 0..Len(buf) - 1
         /\ \A i \in 1..d : buf[i].pts < hardCutoff
         /\ \/ d + 1 = Len(buf)
            \/ buf[d + 1].pts >= hardCutoff
            \/ \A i \in d + 2..Len(buf) : ~IsKey(buf[i])
  <1> DEFINE ends == {d \in 0..Len(buf) : \/ d + 1 >= Len(buf)
                                          \/ buf[d + 1].pts >= hardCutoff
                                          \/ \A i \in d + 2..Len(buf) : ~IsKey(buf[i])}
             d == HardTrim(buf, hardCutoff)
  <1>0. /\ Len(buf) \in Nat \ {0}
        /\ \A i \in 1..Len(buf) : buf[i].pts \in Nat
    <2>1. Len(buf) \in Nat \ {0} /\ \A i \in 1..Len(buf) : buf[i] \in Packet
      OBVIOUS
    <2> QED BY <2>1 DEF Packet
  <1>1. Len(buf) - 1 \in ends /\ ends \subseteq Nat
    BY <1>0
  <1>2. d \in ends /\ \A e \in ends : d <= e
    <2>1. d = Min(ends)
      BY DEF HardTrim
    <2> HIDE DEF ends, d
    <2> QED BY <1>1, <2>1, MinExists
  <1>3. d \in 0..Len(buf) - 1
    <2> HIDE DEF d, ends
    <2>1. d \in Nat /\ d <= Len(buf) - 1
      BY <1>1, <1>2
    <2> QED BY <1>0, <2>1
  <1>4. ASSUME NEW i \in 1..d PROVE buf[i].pts < hardCutoff
    <2> HIDE DEF d
    <2>1. i - 1 \in 0..Len(buf) /\ i \in 1..Len(buf) /\ ~(d <= i - 1)
      BY <1>0, <1>3
    <2>2. i - 1 \notin ends
      BY <1>2, <2>1
    <2>3. ~(buf[(i - 1) + 1].pts >= hardCutoff) /\ (i - 1) + 1 = i
      BY <2>1, <2>2
    <2> QED BY <1>0, <2>1, <2>3
  <1> HIDE DEF d
  <1>5. \/ d + 1 = Len(buf)
        \/ buf[d + 1].pts >= hardCutoff
        \/ \A i \in d + 2..Len(buf) : ~IsKey(buf[i])
    BY <1>0, <1>2, <1>3
  <1> USE DEF d
  <1> QED BY <1>3, <1>4, <1>5

(* What buffer_append keeps is the end of what was there and the new packet; what it *)
(* drops is older than the pre-roll; and it stops dropping only for a reason.        *)
LEMMA BufferKept ==
  ASSUME NEW buf \in Seq(Packet), NEW packet \in Packet,
         \A i, j \in 1..Len(buf) : i <= j => buf[i].pts <= buf[j].pts,
         \A i \in 1..Len(buf) : buf[i].pts <= packet.pts
  PROVE  LET all == Append(buf, packet)
             kept == BufferAppend(buf, packet) IN
         /\ kept \in Seq(Packet) /\ Len(kept) \in 1..Len(all)
         /\ \A j \in 1..Len(kept) : kept[j] = all[Len(all) - Len(kept) + j]
         /\ \A i \in 1..Len(all) - Len(kept) :
               MaxBufferConfig # PreRollSec => all[i].pts < packet.pts - PreRollSec
         /\ \/ packet.pts - kept[1].pts <= MaxBufferSec
            \/ \A j \in 2..Len(kept) : ~IsKey(kept[j])
  <1> DEFINE all == Append(buf, packet)
             a == BeforeOldKey(all, packet.pts - WindowSec)
             aligned == DropFirst(all, a)
             h == HardTrim(aligned, packet.pts - MaxBufferSec)
             kept == BufferAppend(buf, packet)
  <1>1. /\ all \in Seq(Packet) /\ Len(all) = Len(buf) + 1 /\ Len(buf) \in Nat
        /\ \A i \in 1..Len(buf) : all[i] = buf[i]
        /\ all[Len(all)] = packet /\ all # << >>
    BY AppendProperties
  <1>2. packet.pts \in Nat /\ \A i \in 1..Len(all) : all[i] \in Packet /\ all[i].pts \in Nat
    <2>1. \A i \in 1..Len(all) : all[i] \in Packet
      BY <1>1, ElementOfSeq
    <2> QED BY <2>1 DEF Packet
  <1>3. \A i, j \in 1..Len(all) : i <= j => all[i].pts <= all[j].pts
    <2> HIDE DEF all
    <2> QED BY <1>1, <1>2
  <1>4. /\ MaxBufferSec \in Nat /\ WindowSec \in Nat /\ PreRollSec \in Nat
        /\ MaxBufferSec >= PreRollSec
        /\ MaxBufferConfig # PreRollSec => WindowSec > PreRollSec
    BY WindowLong, PreRollAssumption
  <1> HIDE DEF all
  <1>5. a \in 0..Len(all) - 1 /\ \A i \in 1..a : all[i].pts <= packet.pts - WindowSec
    <2>1. packet.pts - WindowSec \in Int
      BY <1>2, <1>4
    <2> QED BY <1>1, <1>3, <2>1, AlignedTrim
  <1> HIDE DEF a
  <1>6. /\ aligned \in Seq(Packet) /\ Len(aligned) = Len(all) - a
        /\ \A i \in 1..Len(aligned) : aligned[i] = all[a + i]
    BY <1>1, <1>2, <1>5, SubSeqProperties DEF DropFirst
  <1>7. aligned # << >> /\ Len(aligned) \in Nat \ {0}
    BY <1>1, <1>5, <1>6, EmptySeq
  <1> HIDE DEF aligned
  <1>8. /\ h \in 0..Len(aligned) - 1
        /\ \A i \in 1..h : aligned[i].pts < packet.pts - MaxBufferSec
        /\ \/ h + 1 = Len(aligned)
           \/ aligned[h + 1].pts >= packet.pts - MaxBufferSec
           \/ \A i \in h + 2..Len(aligned) : ~IsKey(aligned[i])
    <2>1. packet.pts - MaxBufferSec \in Int
      BY <1>2, <1>4
    <2> QED BY <1>6, <1>7, <2>1, CapTrim
  <1> HIDE DEF h
  <1>9. kept = DropFirst(aligned, h)
    BY DEF BufferAppend, all, a, aligned, h
  <1> HIDE DEF kept
  <1>10. /\ kept \in Seq(Packet) /\ Len(kept) = Len(aligned) - h
         /\ \A i \in 1..Len(kept) : kept[i] = aligned[h + i]
    <2>1. \A i \in h + 1..Len(aligned) : aligned[i] \in Packet
      BY <1>6, <1>8, ElementOfSeq
    <2> QED BY <1>7, <1>8, <1>9, <2>1, SubSeqProperties DEF DropFirst
  <1>11. Len(kept) \in 1..Len(all) /\ Len(all) - Len(kept) = a + h
    <2>1. /\ Len(all) \in Nat /\ Len(aligned) = Len(all) - a /\ Len(kept) = Len(aligned) - h
          /\ a \in 0..Len(all) - 1 /\ h \in 0..Len(aligned) - 1
      BY <1>1, <1>5, <1>6, <1>8, <1>10
    <2> QED BY <2>1
  <1>12. \A j \in 1..Len(kept) : kept[j] = all[Len(all) - Len(kept) + j]
    BY <1>1, <1>5, <1>6, <1>8, <1>10, <1>11
  <1>13. ASSUME NEW i \in 1..Len(all) - Len(kept), MaxBufferConfig # PreRollSec
         PROVE  all[i].pts < packet.pts - PreRollSec
    <2>1. CASE i <= a
      <3>1. i \in 1..a /\ i \in 1..Len(all)
        BY <1>1, <1>5, <1>11, <2>1
      <3>2. all[i].pts \in Nat /\ all[i].pts <= packet.pts - WindowSec
        BY <1>2, <1>5, <3>1
      <3>3. WindowSec > PreRollSec
        BY <1>4, <1>13
      <3> QED BY <1>2, <1>4, <3>2, <3>3
    <2>2. CASE i > a
      <3>1. i - a \in 1..h /\ i - a \in 1..Len(aligned) /\ a + (i - a) = i
        BY <1>1, <1>5, <1>6, <1>8, <1>11, <2>2
      <3>2. aligned[i - a] = all[i] /\ aligned[i - a].pts < packet.pts - MaxBufferSec
        BY <1>6, <1>8, <3>1
      <3>3. i \in 1..Len(all)
        BY <1>1, <1>11
      <3> QED BY <1>2, <1>4, <3>2, <3>3
    <2> QED BY <1>1, <1>5, <1>11, <2>1, <2>2
  <1>14. \/ packet.pts - kept[1].pts <= MaxBufferSec
         \/ \A j \in 2..Len(kept) : ~IsKey(kept[j])
    <2>1. kept[1] = aligned[h + 1] /\ h + 1 \in 1..Len(aligned)
      BY <1>7, <1>8, <1>10, <1>11
    <2>2. CASE h + 1 = Len(aligned)
      BY <1>7, <1>8, <1>10, <2>2
    <2>3. CASE aligned[h + 1].pts >= packet.pts - MaxBufferSec
      <3>1. aligned[h + 1].pts \in Nat
        BY <1>1, <1>2, <1>5, <1>6, <2>1
      <3> QED BY <1>2, <1>4, <2>1, <2>3, <3>1
    <2>4. CASE \A i \in h + 2..Len(aligned) : ~IsKey(aligned[i])
      <3>1. Len(kept) = Len(aligned) - h /\ h \in Nat /\ Len(aligned) \in Nat
        BY <1>7, <1>8, <1>10
      <3>2. ASSUME NEW j \in 2..Len(kept)
            PROVE  h + j \in h + 2..Len(aligned) /\ j \in 1..Len(kept)
        BY <3>1
      <3> QED BY <1>10, <2>4, <3>2
    <2> QED BY <1>8, <2>2, <2>3, <2>4
  <1> USE DEF all, kept
  <1> QED BY <1>10, <1>11, <1>12, <1>13, <1>14
-----------------------------------------------------------------------------
(* What the steps do to the clips. *)

Fresh(token, cause, preroll, now) ==
    [token |-> token, id |-> 0, cause |-> cause, frames |-> preroll, opened |-> now,
     until |-> 0, known |-> FALSE]

Starts(cause, preroll, now) ==
    /\ video
    /\ clipSeq' = clipSeq + 1 /\ owed' = Append(owed, clipSeq + 1)
    /\ clip' = Fresh(clipSeq + 1, cause, preroll, now)

StaysClosed == (~video \/ setup.canFail) /\ clip' = NoClip /\ UNCHANGED <<clipSeq, owed>>

(* open_recording opens a clip or leaves none open. *)
LEMMA OpenEffect ==
  ASSUME NEW cause, NEW preroll, NEW now, OpenRecording(cause, preroll, now)
  PROVE  Starts(cause, preroll, now) \/ StaysClosed
  BY DEF OpenRecording, Starts, StaysClosed, Fresh, NoClip

(* The fields of a clip; an open clip is not NoClip. *)
LEMMA ClipFields ==
  ASSUME NEW c \in Clip
  PROVE  /\ c # NoClip
         /\ c.token \in Nat \ {0} /\ c.id \in Nat /\ c.cause \in {"continuous", "trigger"}
         /\ c.frames \in Seq(Packet) /\ c.opened \in Nat /\ c.until \in Nat
         /\ c.known \in BOOLEAN
  BY DEF Clip, NoClip

(* A new clip is one. *)
LEMMA FreshTyped ==
  ASSUME NEW token \in Nat \ {0}, NEW cause \in {"continuous", "trigger"},
         NEW preroll \in Seq(Packet), NEW now \in Nat
  PROVE  Fresh(token, cause, preroll, now) \in Clip
  BY DEF Fresh, Clip

(* The fields of a packet; a packet in work is not NoPacket. *)
LEMMA PacketFields ==
  ASSUME NEW p \in Packet
  PROVE  p # NoPacket /\ p.n \in Nat /\ p.pts \in Nat /\ p.kind \in {"key", "delta", "audio"}
  BY DEF Packet, NoPacket

(* start_ts and last_pts are times. *)
LEMMA TimesTyped ==
  ASSUME NEW c \in Clip \cup {NoClip}
  PROVE  StartTs(c) \in Nat /\ LastPts(c) \in Nat
  <1>1. c.frames \in Seq(Packet)
    <2>1. NoClip.frames = << >> /\ << >> \in Seq(Packet)
      BY EmptySeq DEF NoClip
    <2> QED BY <2>1, ClipFields
  <1>2. /\ Len(c.frames) \in Nat
        /\ \A i \in 1..Len(c.frames) : c.frames[i].pts \in Nat
    BY <1>1, ElementOfSeq, PacketFields, LenProperties
  <1> DEFINE timed == {i \in 1..Len(c.frames) : c.frames[i].pts # 0}
             shown == {i \in 1..Len(c.frames) : c.frames[i].kind # "audio"}
  <1>3. timed # {} => Min(timed) \in 1..Len(c.frames)
    <2>1. timed \subseteq Nat /\ timed \subseteq 1..Len(c.frames)
      OBVIOUS
    <2> HIDE DEF timed
    <2> QED BY <2>1, MinExists
  <1>4. shown # {} => Max(shown) \in 1..Len(c.frames)
    <2>1. shown \subseteq 0..Len(c.frames) /\ shown \subseteq 1..Len(c.frames)
      BY <1>2
    <2> HIDE DEF shown
    <2> QED BY <1>2, <2>1, MaxExists
  <1> QED BY <1>2, <1>3, <1>4 DEF StartTs, LastPts

(* The packet that arrives. *)
LEMMA Arrival ==
  ASSUME Types, Feed, NEW kind \in setup.kinds, NEW step \in setup.steps,
         BeginFrame(kind, step)
  PROVE  /\ frame' \in Packet /\ received' = Append(received, frame')
         /\ frame'.n = Len(received) + 1 /\ Len(received) \in Nat
         /\ frame'.pts >= Now /\ Now \in Nat
         /\ \A k \in 1..Len(received) : received[k].pts <= frame'.pts
  <1>1. kind \in {"key", "delta", "audio"} /\ step \in Nat
    BY StoreAssumption DEF Types
  <1>2. /\ Len(received) \in Nat
        /\ \A k \in 1..Len(received) : received[k].pts \in Nat
    BY ElementOfSeq, PacketFields, LenProperties DEF Types
  <1>3. received # << >> => Len(received) \in 1..Len(received)
    BY <1>2, EmptySeq DEF Types
  <1>4. Now \in Nat /\ \A k \in 1..Len(received) : received[k].pts <= Now
    BY <1>2, <1>3 DEF Now, Last, Feed
  <1>5. frame' = [n |-> Len(received) + 1, pts |-> Now + step, kind |-> kind]
    BY DEF BeginFrame
  <1>6. received' = Append(received, frame')
    BY DEF BeginFrame
  <1>7. frame' \in Packet
    BY <1>1, <1>2, <1>4, <1>5 DEF Packet
  <1> QED BY <1>1, <1>2, <1>4, <1>5, <1>6, <1>7

(* DriveContinuous leaves the clip, opens one, or closes it and perhaps opens another. *)
LEMMA DriveEffect ==
  ASSUME NEW packet, DriveContinuous(packet)
  PROVE  \/ UNCHANGED recorder /\ (Recording => ~RotationDue(packet))
         \/ /\ ~Recording /\ OpeningDue(packet) /\ UNCHANGED saved
            /\ Starts("continuous", << >>, packet.pts)
         \/ /\ Recording /\ RotationDue(packet) /\ CloseClip(clip)
            /\ Starts("continuous", << >>, packet.pts)
         \/ Recording /\ RotationDue(packet) /\ CloseClip(clip) /\ StaysClosed
         \/ ~Recording /\ OpeningDue(packet) /\ UNCHANGED saved /\ StaysClosed
  BY OpenEffect DEF DriveContinuous, recorder

(* The packet written to the open clip. *)
LEMMA Written ==
  ASSUME Types, Names, Recording, frame # NoPacket,
         NEW written,
         written = [ApplyPending(clip) EXCEPT !.frames = Append(@, frame),
                                              !.known = clip.token \in answered]
  PROVE  /\ written \in Clip /\ written.token = clip.token /\ written.opened = clip.opened
         /\ written.frames = Append(clip.frames, frame)
         /\ Named(written)
         /\ written.token \in answered => written.id = written.token
         /\ ApplyPending(clip) # clip => written.id = written.token
  <1>1. clip \in Clip /\ frame \in Packet
    BY DEF Types, Recording
  <1>2. ApplyPending(clip) = clip \/ ApplyPending(clip) = [clip EXCEPT !.id = clip.token]
    BY DEF ApplyPending, TokenMatches
  <1>3. /\ clip.id \in {0, clip.token} /\ clip.token \in Nat \ {0}
        /\ clip.token \in answered => (clip.id = clip.token \/ pending = clip.token)
    BY <1>1, ClipFields DEF Names, Named
  <1>4. clip.token \in answered => ApplyPending(clip).id = clip.token
    BY <1>1, <1>3 DEF ApplyPending, TokenMatches, Clip
  <1>5. Append(clip.frames, frame) \in Seq(Packet)
    BY <1>1, ClipFields, AppendProperties
  <1>6. \A c \in Clip : /\ [c EXCEPT !.id = c.token] \in Clip
                         /\ [c EXCEPT !.id = c.token].token = c.token
                         /\ [c EXCEPT !.id = c.token].id = c.token
                         /\ [c EXCEPT !.id = c.token].opened = c.opened
                         /\ [c EXCEPT !.id = c.token].frames = c.frames
    BY DEF Clip
  <1>7. /\ ApplyPending(clip) \in Clip /\ ApplyPending(clip).token = clip.token
        /\ ApplyPending(clip).id \in {0, clip.token}
        /\ ApplyPending(clip).opened = clip.opened /\ ApplyPending(clip).frames = clip.frames
        /\ ApplyPending(clip) # clip => ApplyPending(clip).id = clip.token
    <2>1. CASE ApplyPending(clip) = clip
      BY <1>1, <1>3, <2>1
    <2>2. CASE ApplyPending(clip) = [clip EXCEPT !.id = clip.token]
      BY <1>1, <1>6, <2>2, Zenon
    <2> QED BY <1>2, <2>1, <2>2
  <1>8. /\ written \in Clip /\ written.token = clip.token /\ written.id = ApplyPending(clip).id
        /\ written.opened = clip.opened /\ written.frames = Append(clip.frames, frame)
        /\ written.known = (clip.token \in answered)
    <2>1. (clip.token \in answered) \in BOOLEAN
      OBVIOUS
    <2> QED BY <1>5, <1>7, <2>1 DEF Clip
  <1> QED BY <1>3, <1>4, <1>7, <1>8 DEF Named

(* A clip that is announced. *)
LEMMA Announced ==
  ASSUME Types, NEW c \in Clip, CloseClip(c)
  PROVE  \E d \in Clip :
            /\ saved' = Append(saved, d) /\ saved' \in Seq(Clip)
            /\ d.token = c.token /\ d.id = c.id /\ d.known = c.known /\ d.frames = c.frames
            /\ d.opened = c.opened /\ d.until = lastTrigger
            /\ Len(saved) \in Nat /\ Len(saved') = Len(saved) + 1
            /\ saved'[Len(saved')] = d
            /\ \A i \in 1..Len(saved) : saved'[i] = saved[i]
  <1> DEFINE d == [c EXCEPT !.until = lastTrigger]
  <1>1. /\ d \in Clip /\ d.token = c.token /\ d.id = c.id /\ d.known = c.known
        /\ d.frames = c.frames /\ d.opened = c.opened /\ d.until = lastTrigger
    BY DEF Clip, Types
  <1>2. saved' = Append(saved, d)
    BY DEF CloseClip
  <1> HIDE DEF d
  <1>3. /\ saved' \in Seq(Clip) /\ Len(saved) \in Nat /\ Len(saved') = Len(saved) + 1
        /\ saved'[Len(saved')] = d /\ \A i \in 1..Len(saved) : saved'[i] = saved[i]
    BY <1>1, <1>2, AppendProperties, LenProperties DEF Types
  <1> QED BY <1>1, <1>2, <1>3

(* Announcing the open clip keeps what is known of the closed ones. *)
LEMMA GrowSaved ==
  ASSUME Types, Tokens, Names, Seams, Recording, NEW c \in Clip, CloseClip(c),
         c.token = clip.token, Named(c), Unbroken(c)
  PROVE  /\ saved' \in Seq(Clip) /\ Len(saved) \in Nat /\ Len(saved') = Len(saved) + 1
         /\ \A i \in 1..Len(saved') : /\ saved'[i].token = i
                                      /\ Named(saved'[i]) /\ Unbroken(saved'[i])
  <1>1. PICK d \in Clip :
            /\ saved' \in Seq(Clip) /\ Len(saved) \in Nat /\ Len(saved') = Len(saved) + 1
            /\ d.token = c.token /\ d.id = c.id /\ d.known = c.known /\ d.frames = c.frames
            /\ saved'[Len(saved')] = d
            /\ \A i \in 1..Len(saved) : saved'[i] = saved[i]
    BY Announced
  <1>2. d.token = Len(saved') /\ Named(d) /\ Unbroken(d)
    BY <1>1 DEF Tokens, Named, Unbroken
  <1>3. ASSUME NEW i \in 1..Len(saved')
        PROVE  saved'[i].token = i /\ Named(saved'[i]) /\ Unbroken(saved'[i])
    <2>1. CASE i \in 1..Len(saved)
      BY <1>1, <2>1 DEF Tokens, Names, Seams
    <2>2. CASE i = Len(saved')
      BY <1>1, <1>2, <2>2
    <2> QED BY <1>1, <2>1, <2>2
  <1> QED BY <1>1, <1>3

(* A new clip: its token is the next one, and it is neither answered nor named. *)
LEMMA StartInv ==
  ASSUME Types, Tokens, Owing, NEW cause \in {"continuous", "trigger"},
         NEW preroll \in Seq(Packet), NEW now \in Nat, Starts(cause, preroll, now),
         answered' = answered, saved' \in Seq(Clip), Len(saved') = clipSeq
  PROVE  /\ clip' \in Clip /\ clipSeq' \in Nat /\ owed' \in Seq(Nat)
         /\ Recording' /\ clip'.frames = preroll /\ clip'.opened = now
         /\ clip'.token = Len(saved') + 1 /\ clipSeq' = Len(saved') + 1
         /\ Owing' /\ Named(clip') /\ clip'.token \notin answered'
  <1>1. clip' = Fresh(clipSeq + 1, cause, preroll, now) /\ clipSeq' = clipSeq + 1
    BY DEF Starts
  <1>2. clip' \in Clip /\ clipSeq + 1 \in Nat \ {0}
    BY <1>1, FreshTyped DEF Types
  <1>3. /\ clip'.token = clipSeq + 1 /\ clip'.id = 0 /\ clip'.known = FALSE
        /\ clip'.frames = preroll /\ clip'.opened = now
    BY <1>1 DEF Fresh
  <1>4. clip'.token \notin answered
    BY <1>2, <1>3 DEF Owing, Types
  <1>5. /\ owed' \in Seq(Nat) /\ Len(owed) \in Nat /\ Len(owed') = Len(owed) + 1
        /\ \A i \in 1..Len(owed) : owed'[i] = owed[i]
        /\ owed'[Len(owed) + 1] = clipSeq + 1
    BY <1>2, AppendProperties, LenProperties DEF Starts, Types
  <1>6. Owing'
    <2> clipSeq \in Nat /\ \A i \in 1..Len(owed') : i \in 1..Len(owed) \/ i = Len(owed) + 1
      BY <1>5 DEF Types
    <2>1. ASSUME NEW i \in 1..Len(owed') PROVE owed'[i] \in 1..clipSeq'
      <3>1. CASE i \in 1..Len(owed)
        <4>1. owed[i] \in 1..clipSeq /\ owed'[i] = owed[i]
          BY <1>5, <3>1 DEF Owing
        <4> QED BY <1>1, <4>1
      <3>2. CASE i = Len(owed) + 1
        BY <1>1, <1>5, <3>2
      <3> QED BY <3>1, <3>2
    <2>2. \A i, j \in 1..Len(owed') : i < j => owed'[i] < owed'[j]
      <3> SUFFICES ASSUME NEW i \in 1..Len(owed'), NEW j \in 1..Len(owed'), i < j
                   PROVE  owed'[i] < owed'[j]
        OBVIOUS
      <3>1. i \in 1..Len(owed) /\ owed'[i] = owed[i] /\ owed[i] \in 1..clipSeq
        BY <1>5 DEF Owing
      <3>2. CASE j \in 1..Len(owed)
        BY <1>5, <3>1, <3>2 DEF Owing
      <3>3. CASE j = Len(owed) + 1
        BY <1>5, <3>1, <3>3
      <3> QED BY <1>5, <3>2, <3>3
    <2>3. answered' \subseteq 1..clipSeq'
      BY <1>1, <1>2 DEF Owing, Types
    <2>4. ASSUME NEW i \in 1..Len(owed'), NEW a \in answered' PROVE a < owed'[i]
      <3>1. CASE i \in 1..Len(owed)
        BY <1>5, <3>1 DEF Owing
      <3>2. CASE i = Len(owed) + 1
        <4>1. a \in 1..clipSeq
          BY DEF Owing
        <4> QED BY <1>5, <3>2, <4>1
      <3> QED BY <3>1, <3>2
    <2> QED BY <2>1, <2>2, <2>3, <2>4 DEF Owing
  <1>7. Recording' /\ Named(clip')
    BY <1>2, <1>3, ClipFields DEF Recording, Named
  <1> QED BY <1>1, <1>2, <1>3, <1>4, <1>5, <1>6, <1>7

(* The last packets received have consecutive numbers. *)
LEMMA Consecutive ==
  ASSUME Types, Feed, NEW s \in Seq(Packet), NEW k \in 0..Len(received), EndsAt(s, k)
  PROVE  \A j \in 1..Len(s) - 1 : s[j + 1].n = s[j].n + 1
  <1> SUFFICES ASSUME NEW j \in 1..Len(s) - 1
               PROVE  s[j + 1].n = s[j].n + 1
    OBVIOUS
  <1>1. Len(s) \in Nat /\ Len(received) \in Nat /\ Len(s) <= k
    BY LenProperties DEF Types, EndsAt
  <1>2. /\ k - Len(s) + j \in 1..Len(received) /\ k - Len(s) + (j + 1) \in 1..Len(received)
        /\ j \in 1..Len(s) /\ j + 1 \in 1..Len(s)
    BY <1>1
  <1>3. /\ s[j] = received[k - Len(s) + j] /\ s[j + 1] = received[k - Len(s) + (j + 1)]
    BY <1>2 DEF EndsAt
  <1>4. s[j].n = k - Len(s) + j /\ s[j + 1].n = k - Len(s) + (j + 1)
    BY <1>2, <1>3 DEF Feed
  <1> QED BY <1>1, <1>4

(* handle_frame is never done with more than was received. *)
LEMMA HandledRange ==
  ASSUME Types, Feed
  PROVE  Len(received) \in Nat /\ Handled \in 0..Len(received)
  <1>1. Len(received) \in Nat /\ (received # << >> => Len(received) > 0)
    BY EmptySeq, LenProperties DEF Types
  <1> QED BY <1>1 DEF Handled, MtxFree, Feed

(* Whatever ends with the k-th packet still does when another arrives. *)
LEMMA EndsStill ==
  ASSUME Types, NEW s \in Seq(Packet), NEW k \in 0..Len(received), EndsAt(s, k),
         NEW p \in Packet, received' = Append(received, p)
  PROVE  /\ Len(s) <= k
         /\ \A j \in 1..Len(s) : s[j] = received'[k - Len(s) + j]
  <1>1. Len(s) \in Nat /\ Len(received) \in Nat /\ Len(s) <= k
    BY LenProperties DEF Types, EndsAt
  <1>2. \A j \in 1..Len(received) : received'[j] = received[j]
    BY AppendProperties DEF Types
  <1>3. \A j \in 1..Len(s) : k - Len(s) + j \in 1..Len(received)
    BY <1>1
  <1> QED BY <1>1, <1>2, <1>3 DEF EndsAt
-----------------------------------------------------------------------------
(* The recorder starts with nothing received and no clip. *)
LEMMA InitCore == Init => Core
  <1> SUFFICES ASSUME Init PROVE Core
    OBVIOUS
  <1> USE DEF Init
  <1>1. /\ << >> \in Seq(Packet) /\ << >> \in Seq(Clip) /\ << >> \in Seq(Nat)
        /\ Len(<< >>) = 0
    BY EmptySeq
  <1>2. Types
    BY <1>1 DEF Types
  <1>3. Feed /\ Tokens /\ Owing /\ Names
    BY <1>1 DEF Feed, Tokens, Owing, Names, Recording
  <1>4. Seams
    BY <1>1 DEF Seams, EndsAt, Recording
  <1> QED BY <1>2, <1>3, <1>4 DEF Core

(* In event mode the buffer goes on ending with the last packet received, what has left *)
(* it is older than the pre-roll, and what it holds is within the cap or has no later   *)
(* keyframe to start with.                                                              *)
LEMMA BufferStep ==
  ASSUME Core, setup.mode = "event", NEW kind \in setup.kinds, NEW step \in setup.steps,
         BeginFrame(kind, step)
  PROVE  /\ buffer' \in Seq(Packet) /\ buffer' # << >> /\ Len(buffer') \in Nat
         /\ Len(buffer') <= Len(received')
         /\ \A j \in 1..Len(buffer') : buffer'[j] = received'[Len(received') - Len(buffer') + j]
         /\ (/\ MaxBufferConfig # PreRollSec
             /\ \A k \in 1..Len(received) - Len(buffer) : received[k].pts < Now - PreRollSec)
               => \A k \in 1..Len(received') - Len(buffer') :
                     received'[k].pts < frame'.pts - PreRollSec
         /\ \/ frame'.pts - buffer'[1].pts <= MaxBufferSec
            \/ \A j \in 2..Len(buffer') : ~IsKey(buffer'[j])
  <1> USE DEF Core
  <1>1. /\ frame' \in Packet /\ received' = Append(received, frame') /\ Len(received) \in Nat
        /\ frame'.pts >= Now /\ Now \in Nat /\ frame'.pts \in Nat
        /\ \A k \in 1..Len(received) : received[k].pts <= frame'.pts
    BY Arrival, PacketFields
  <1>2. /\ received' \in Seq(Packet) /\ Len(received') = Len(received) + 1
        /\ \A k \in 1..Len(received) : received'[k] = received[k]
        /\ received'[Len(received')] = frame'
    BY <1>1, AppendProperties DEF Types
  <1>3. buffer' = BufferAppend(buffer, frame')
    BY DEF BeginFrame
  <1>4. /\ Len(buffer) \in Nat /\ Len(buffer) <= Len(received)
        /\ \A j \in 1..Len(buffer) : /\ buffer[j] = received[Len(received) - Len(buffer) + j]
                                      /\ Len(received) - Len(buffer) + j \in 1..Len(received)
    <2>1. Len(buffer) \in Nat
      BY LenProperties DEF Types
    <2> QED BY <1>1, <2>1 DEF Seams, EndsAt
  <1>5. /\ \A i, j \in 1..Len(buffer) : i <= j => buffer[i].pts <= buffer[j].pts
        /\ \A i \in 1..Len(buffer) : buffer[i].pts <= frame'.pts
    <2> DEFINE at(i) == Len(received) - Len(buffer) + i
    <2>1. \A i, j \in 1..Len(buffer) : i <= j => at(i) <= at(j)
      BY <1>1, <1>4
    <2>2. \A i \in 1..Len(buffer) : buffer[i] = received[at(i)] /\ at(i) \in 1..Len(received)
      BY <1>4
    <2> HIDE DEF at
    <2> QED BY <1>1, <2>1, <2>2 DEF Feed
  <1> DEFINE all == Append(buffer, frame')
  <1>6. /\ buffer' \in Seq(Packet) /\ Len(buffer') \in 1..Len(all)
        /\ \A j \in 1..Len(buffer') : buffer'[j] = all[Len(all) - Len(buffer') + j]
        /\ \A i \in 1..Len(all) - Len(buffer') :
              MaxBufferConfig # PreRollSec => all[i].pts < frame'.pts - PreRollSec
        /\ \/ frame'.pts - buffer'[1].pts <= MaxBufferSec
           \/ \A j \in 2..Len(buffer') : ~IsKey(buffer'[j])
    BY <1>1, <1>3, <1>5, BufferKept DEF Types
  <1>7. /\ Len(all) = Len(buffer) + 1 /\ all[Len(buffer) + 1] = frame'
        /\ \A j \in 1..Len(buffer) : all[j] = buffer[j]
    BY <1>1, AppendProperties DEF Types
  <1> HIDE DEF all
  <1>8. ASSUME NEW j \in 1..Len(buffer')
        PROVE  buffer'[j] = received'[Len(received') - Len(buffer') + j]
    <2> DEFINE i == Len(all) - Len(buffer') + j
    <2>1. /\ i \in 1..Len(all) /\ buffer'[j] = all[i]
          /\ Len(received') - Len(buffer') + j = Len(received) - Len(buffer) + i
      BY <1>1, <1>2, <1>4, <1>6, <1>7
    <2> HIDE DEF i
    <2>2. CASE i \in 1..Len(buffer)
      BY <1>2, <1>4, <1>7, <2>1, <2>2
    <2>3. CASE i = Len(buffer) + 1
      <3>1. Len(received) - Len(buffer) + i = Len(received')
        BY <1>1, <1>2, <1>4, <2>3
      <3> QED BY <1>2, <1>7, <2>1, <2>3, <3>1
    <2> QED BY <1>4, <1>7, <2>1, <2>2, <2>3
  <1>9. Len(buffer') <= Len(received') /\ buffer' # << >>
    BY <1>1, <1>2, <1>4, <1>6, <1>7, EmptySeq
  <1>10. ASSUME MaxBufferConfig # PreRollSec,
                \A k \in 1..Len(received) - Len(buffer) : received[k].pts < Now - PreRollSec,
                NEW k \in 1..Len(received') - Len(buffer')
         PROVE  received'[k].pts < frame'.pts - PreRollSec
    <2>1. /\ Len(buffer') \in 1..Len(all) /\ Len(all) = Len(buffer) + 1
          /\ Len(received') = Len(received) + 1
      BY <1>2, <1>6, <1>7
    <2> DEFINE i == k - (Len(received) - Len(buffer))
    <2>2. /\ k \in 1..Len(received)
          /\ k \in 1..Len(received) - Len(buffer) \/ i \in 1..Len(buffer)
          /\ k = Len(received) - Len(buffer) + i
      BY <1>1, <1>4, <2>1
    <2>3. received'[k] = received[k] /\ received[k].pts \in Nat
      BY <1>2, <2>2, ElementOfSeq, PacketFields DEF Types
    <2>4. CASE k \in 1..Len(received) - Len(buffer)
      <3>1. received[k].pts < Now - PreRollSec
        BY <1>10, <2>4
      <3> QED BY <1>1, <2>3, <3>1, PreRollAssumption
    <2>5. CASE i \in 1..Len(buffer)
      <3>1. i \in 1..Len(all) - Len(buffer')
        BY <1>1, <1>4, <2>1, <2>5
      <3>2. all[i] = buffer[i] /\ buffer[i] = received[k]
        BY <1>4, <1>7, <2>2, <2>5
      <3> QED BY <1>6, <1>10, <2>3, <3>1, <3>2
    <2> QED BY <2>2, <2>4, <2>5
  <1>11. Len(buffer') \in Nat
    BY <1>6, LenProperties
  <1>12. \/ frame'.pts - buffer'[1].pts <= MaxBufferSec
         \/ \A j \in 2..Len(buffer') : ~IsKey(buffer'[j])
    BY <1>6
  <1> QED BY <1>6, <1>8, <1>9, <1>10, <1>11, <1>12

(* A packet arrives. *)
LEMMA BeginInv ==
  ASSUME Core, NEW kind \in setup.kinds, NEW step \in setup.steps, BeginFrame(kind, step)
  PROVE  Core'
  <1> USE DEF Core
  <1>1. /\ frame' \in Packet /\ frame' # NoPacket /\ received' = Append(received, frame')
        /\ frame'.n = Len(received) + 1 /\ Len(received) \in Nat
        /\ frame'.pts >= Now /\ Now \in Nat /\ frame'.pts \in Nat
        /\ \A k \in 1..Len(received) : received[k].pts <= frame'.pts
    BY Arrival, PacketFields
  <1>2. /\ received' \in Seq(Packet) /\ received' # << >>
        /\ Len(received') = Len(received) + 1
        /\ \A k \in 1..Len(received) : received'[k] = received[k]
        /\ received'[Len(received')] = frame'
    BY <1>1, AppendProperties DEF Types
  <1>3. /\ running /\ frame = NoPacket
        /\ UNCHANGED <<setup, running, stopped, video, lastTrigger, pending, answered>>
    BY DEF BeginFrame, MtxFree, gate
  <1>4. Handled = Len(received) /\ Handled' = Len(received)
    BY <1>1, <1>2, <1>3 DEF Handled, MtxFree
  <1>5. /\ \A k \in 1..Len(received') : received'[k].n = k
        /\ \A j, k \in 1..Len(received') : j <= k => received'[j].pts <= received'[k].pts
    <2>1. \A k \in 1..Len(received') : k \in 1..Len(received) \/ k = Len(received')
      BY <1>1, <1>2
    <2>2. \A k \in 1..Len(received') : received'[k].n = k
      BY <1>1, <1>2, <2>1 DEF Feed
    <2>3. ASSUME NEW j \in 1..Len(received'), NEW k \in 1..Len(received'), j <= k
          PROVE  received'[j].pts <= received'[k].pts
      <3>1. CASE k \in 1..Len(received)
        BY <1>1, <1>2, <2>3, <3>1 DEF Feed
      <3>2. CASE k = Len(received')
        BY <1>1, <1>2, <2>1, <3>2
      <3> QED BY <2>1, <3>1, <3>2
    <2> QED BY <2>2, <2>3
  <1>6. ASSUME Recording' => video
        PROVE  Feed'
    BY <1>1, <1>2, <1>3, <1>5, <1>6 DEF Feed, Last
  <1>7. ASSUME NEW s \in Seq(Packet), EndsAt(s, Len(received))
        PROVE  /\ Len(s) <= Len(received)
               /\ \A j \in 1..Len(s) : s[j] = received'[Len(received) - Len(s) + j]
    <2>1. Len(received) \in 0..Len(received)
      BY <1>1
    <2> QED BY <1>1, <1>7, <2>1, EndsStill
  <1>8. CASE setup.mode = "event"
    <2>1. /\ buffer' = BufferAppend(buffer, frame') /\ UNCHANGED recorder
      BY <1>8 DEF BeginFrame
    <2>4. /\ buffer' \in Seq(Packet) /\ buffer' # << >>
          /\ Len(buffer') <= Len(received')
          /\ \A j \in 1..Len(buffer') : buffer'[j] = received'[Len(received') - Len(buffer') + j]
      BY <1>8, BufferStep
    <2>8. Types'
      BY <1>1, <1>2, <1>3, <2>1, <2>4 DEF Types, recorder
    <2>9. Feed' /\ Tokens' /\ Owing' /\ Names'
      BY <1>3, <1>6, <2>1 DEF Feed, Tokens, Owing, Names, recorder, Recording
    <2>10. Seams'
      <3>1. EndsAt(buffer, Len(received))'
        BY <2>4 DEF EndsAt
      <3>2. Recording' => EndsAt(clip.frames, Handled)'
        <4> SUFFICES ASSUME Recording' PROVE EndsAt(clip.frames, Handled)'
          OBVIOUS
        <4>1. Recording /\ clip' = clip /\ clip \in Clip
          BY <2>1 DEF Recording, recorder, Types
        <4>2. clip.frames \in Seq(Packet) /\ EndsAt(clip.frames, Len(received))
          BY <1>4, <4>1, ClipFields DEF Seams
        <4> QED BY <1>4, <1>7, <4>1, <4>2 DEF EndsAt
      <3> QED BY <1>3, <1>8, <2>1, <2>4, <3>1, <3>2 DEF Seams, recorder
    <2> QED BY <2>8, <2>9, <2>10
  <1>9. CASE setup.mode # "event"
    <2>1. /\ DriveContinuous(frame') /\ buffer' = buffer /\ buffer = << >>
      BY <1>9 DEF BeginFrame, Seams
    <2>2. EndsAt(buffer, Len(received))' /\ buffer' \in Seq(Packet) /\ Len(<< >>) = 0
      BY <1>1, <1>2, <2>1 DEF EndsAt, Types
    <2>3. << >> \in Seq(Packet) /\ "continuous" \in {"continuous", "trigger"}
      BY EmptySeq
    <2>4. Len(saved) \in Nat
      BY LenProperties DEF Types
    <2>5. CASE UNCHANGED recorder
      <3>0. Types'
        BY <1>1, <1>2, <1>3, <2>2, <2>5 DEF Types, recorder
      <3>1. Feed' /\ Tokens' /\ Owing' /\ Names'
        BY <1>3, <1>6, <2>5 DEF Feed, Tokens, Owing, Names, recorder, Recording
      <3>2. Recording' => EndsAt(clip.frames, Handled)'
        <4> SUFFICES ASSUME Recording' PROVE EndsAt(clip.frames, Handled)'
          OBVIOUS
        <4>1. Recording /\ clip' = clip /\ clip \in Clip
          BY <2>5 DEF Recording, recorder, Types
        <4>2. clip.frames \in Seq(Packet) /\ EndsAt(clip.frames, Len(received))
          BY <1>4, <4>1, ClipFields DEF Seams
        <4> QED BY <1>4, <1>7, <4>1, <4>2 DEF EndsAt
      <3>3. Seams'
        BY <1>3, <1>9, <2>1, <2>2, <2>5, <3>2 DEF Seams, recorder
      <3> QED BY <3>0, <3>1, <3>3
    <2>6. ASSUME Recording, CloseClip(clip)
          PROVE  /\ saved' \in Seq(Clip) /\ Len(saved') = Len(saved) + 1
                 /\ \A i \in 1..Len(saved') : /\ saved'[i].token = i
                                              /\ Named(saved'[i]) /\ Unbroken(saved'[i])
      <3>1. clip \in Clip /\ clip.frames \in Seq(Packet)
        BY <2>6, ClipFields DEF Recording, Types
      <3>2. Unbroken(clip)
        BY <1>1, <1>4, <2>6, <3>1, Consecutive, HandledRange DEF Seams, Unbroken
      <3> QED BY <2>6, <3>1, <3>2, GrowSaved DEF Names
    <2>7. ASSUME Starts("continuous", << >>, frame'.pts), saved' \in Seq(Clip),
                 Len(saved') = clipSeq,
                 \A i \in 1..Len(saved') : /\ saved'[i].token = i
                                          /\ Named(saved'[i]) /\ Unbroken(saved'[i])
          PROVE  Core'
      <3>1. /\ clip' \in Clip /\ clipSeq' \in Nat /\ owed' \in Seq(Nat)
            /\ Recording' /\ clip'.frames = << >>
            /\ clip'.token = Len(saved') + 1 /\ clipSeq' = Len(saved') + 1
            /\ Owing' /\ Named(clip') /\ clip'.token \notin answered'
        BY <1>1, <1>3, <2>3, <2>7, StartInv
      <3>2. Types'
        BY <1>1, <1>2, <1>3, <2>2, <2>7, <3>1 DEF Types
      <3>3. Feed'
        BY <1>3, <1>6, <2>7 DEF Starts
      <3>4. Tokens' /\ Names'
        BY <2>7, <3>1 DEF Tokens, Names
      <3>5. EndsAt(clip.frames, Handled)'
        BY <1>1, <1>4, <2>2, <3>1 DEF EndsAt
      <3>6. Seams'
        BY <1>3, <1>9, <2>1, <2>2, <2>7, <3>5 DEF Seams
      <3> QED BY <3>1, <3>2, <3>3, <3>4, <3>6
    <2>8. CASE ~Recording /\ UNCHANGED saved /\ Starts("continuous", << >>, frame'.pts)
      BY <2>4, <2>7, <2>8 DEF Types, Tokens, Names, Seams
    <2>9. CASE Recording /\ CloseClip(clip) /\ Starts("continuous", << >>, frame'.pts)
      BY <2>4, <2>6, <2>7, <2>9 DEF Tokens
    <2>10. CASE Recording /\ CloseClip(clip) /\ StaysClosed
      <3>1. Types'
        BY <1>1, <1>2, <1>3, <2>2, <2>6, <2>10 DEF Types, StaysClosed
      <3>2. Feed' /\ Owing'
        BY <1>3, <1>6, <2>4, <2>6, <2>10 DEF Owing, StaysClosed, Recording
      <3>4. Tokens'
        BY <2>4, <2>6, <2>10 DEF Tokens, StaysClosed, Recording
      <3>5. Names'
        BY <2>4, <2>6, <2>10 DEF Names, StaysClosed, Recording
      <3>3. Seams'
        BY <1>3, <1>9, <2>1, <2>2, <2>6, <2>10 DEF Seams, StaysClosed, Recording
      <3> QED BY <3>1, <3>2, <3>3, <3>4, <3>5
    <2>11. CASE ~Recording /\ UNCHANGED saved /\ StaysClosed
      <3>1. UNCHANGED recorder
        BY <2>11 DEF StaysClosed, Recording, recorder
      <3> QED BY <2>5, <3>1
    <2> QED BY <2>1, <2>5, <2>8, <2>9, <2>10, <2>11, DriveEffect
  <1> QED BY <1>8, <1>9

(* The packet is written, and an event clip may end. *)
LEMMA WriteInv ==
  ASSUME Core, WriteFrame
  PROVE  Core'
  <1> USE DEF Core
  <1>1. /\ frame # NoPacket /\ frame' = NoPacket
        /\ UNCHANGED <<setup, running, stopped, video, buffer, lastTrigger, clipSeq, received,
                       owed, answered>>
    BY DEF WriteFrame, gate
  <1>2. /\ Len(received) \in Nat /\ Len(received) >= 1 /\ frame = received[Len(received)]
        /\ Handled = Len(received) - 1 /\ Handled' = Len(received) /\ frame \in Packet
    <2>1. Len(received) \in Nat /\ (received # << >> => Len(received) > 0)
      BY EmptySeq, LenProperties DEF Types
    <2> QED BY <1>1, <2>1 DEF Handled, MtxFree, Feed, Last, Types
  <1>3. EndsAt(buffer, Len(received))'
    BY <1>1 DEF Seams, EndsAt
  <1>4. CASE ~Recording
    <2>1. UNCHANGED <<clip, saved, pending>>
      BY <1>4 DEF WriteFrame
    <2> QED BY <1>1, <1>3, <1>4, <2>1
            DEF Types, Feed, Tokens, Owing, Names, Seams, Recording
  <1>5. CASE Recording
    <2> DEFINE written == [ApplyPending(clip) EXCEPT !.frames = Append(@, frame),
                                                     !.known = clip.token \in answered]
               old == clip.frames
    <2>1. /\ pending' = IF ApplyPending(clip) # clip THEN 0 ELSE pending
          /\ \/ CloseClip(written) /\ clip' = NoClip
             \/ clip' = written /\ UNCHANGED saved
      BY <1>5 DEF WriteFrame
    <2>2. /\ written \in Clip /\ written.token = clip.token
          /\ written.frames = Append(old, frame) /\ Named(written)
          /\ written.token \in answered => written.id = written.token
          /\ ApplyPending(clip) # clip => written.id = written.token
      BY <1>1, <1>5, Written
    <2> HIDE DEF written
    <2>3. old \in Seq(Packet) /\ EndsAt(old, Handled) /\ Len(old) \in Nat
      BY <1>5, ClipFields, LenProperties DEF Seams, Types, Recording
    <2>4. /\ written.frames \in Seq(Packet) /\ Len(written.frames) = Len(old) + 1
          /\ \A j \in 1..Len(old) : written.frames[j] = old[j]
          /\ written.frames[Len(old) + 1] = frame
      BY <1>2, <2>2, <2>3, AppendProperties
    <2>5. EndsAt(written.frames, Len(received))
      <3>1. Len(written.frames) <= Len(received)
        BY <1>2, <2>3, <2>4 DEF EndsAt
      <3>2. ASSUME NEW j \in 1..Len(written.frames)
            PROVE  written.frames[j] = received[Len(received) - Len(written.frames) + j]
        <4>1. CASE j \in 1..Len(old)
          <5>1. old[j] = received[Handled - Len(old) + j]
            BY <2>3, <4>1 DEF EndsAt
          <5>2. Handled - Len(old) + j = Len(received) - Len(written.frames) + j
            BY <1>2, <2>3, <2>4
          <5> QED BY <2>4, <4>1, <5>1, <5>2
        <4>2. CASE j = Len(old) + 1
          <5>0. Len(written.frames) = j /\ j \in Nat
            BY <2>4, <4>2
          <5>1. Len(received) - Len(written.frames) + j = Len(received)
            BY <1>2, <5>0
          <5>2. written.frames[j] = frame
            BY <2>4, <4>2
          <5> QED BY <1>2, <5>1, <5>2
        <4>3. j \in 1..Len(old) \/ j = Len(old) + 1
          BY <2>3, <2>4
        <4> QED BY <4>1, <4>2, <4>3
      <3> QED BY <3>1, <3>2 DEF EndsAt
    <2>6. Unbroken(written)
      <3>1. Len(received) \in 0..Len(received)
        BY <1>2
      <3> QED BY <2>4, <2>5, <3>1, Consecutive DEF Unbroken
    <2>7. pending' \in Nat
      BY <2>1 DEF Types
    <2>8. CASE CloseClip(written) /\ clip' = NoClip
      <3>1. /\ saved' \in Seq(Clip) /\ Len(saved) \in Nat /\ Len(saved') = Len(saved) + 1
            /\ \A i \in 1..Len(saved') : /\ saved'[i].token = i
                                         /\ Named(saved'[i]) /\ Unbroken(saved'[i])
        BY <1>5, <2>2, <2>6, <2>8, GrowSaved
      <3>2. Types'
        BY <1>1, <2>7, <2>8, <3>1 DEF Types
      <3>3. Feed' /\ Owing' /\ Names'
        BY <1>1, <2>8, <3>1 DEF Feed, Owing, Names, Recording
      <3>5. Tokens'
        BY <1>1, <1>5, <2>8, <3>1 DEF Tokens, Recording
      <3>4. Seams'
        BY <1>1, <1>3, <2>8, <3>1 DEF Seams, Recording
      <3> QED BY <3>2, <3>3, <3>4, <3>5
    <2>9. CASE clip' = written /\ UNCHANGED saved
      <3>1. Recording' /\ clip' \in Clip
        BY <2>2, <2>9, ClipFields DEF Recording
      <3>2. Types'
        BY <1>1, <2>7, <2>9, <3>1 DEF Types
      <3>3. Feed' /\ Tokens' /\ Owing'
        BY <1>1, <1>5, <2>2, <2>9, <3>1 DEF Feed, Tokens, Owing
      <3>4. Names'
        BY <1>1, <2>1, <2>2, <2>9 DEF Names
      <3>5. EndsAt(clip.frames, Handled)'
        BY <1>1, <1>2, <2>5, <2>9 DEF EndsAt
      <3>6. Seams'
        BY <1>1, <1>3, <2>9, <3>5 DEF Seams
      <3> QED BY <3>2, <3>3, <3>4, <3>6
    <2> QED BY <2>1, <2>8, <2>9
  <1> QED BY <1>4, <1>5

(* A trigger opens a clip with the packets of the buffer, or names the open one. *)
LEMMA TriggerInv ==
  ASSUME Core, Trigger
  PROVE  Core'
  <1> USE DEF Core
  <1> DEFINE now == IF buffer = << >> THEN LastPts(clip) ELSE Last(buffer).pts
  <1>1. /\ frame = NoPacket /\ lastTrigger' = now
        /\ UNCHANGED <<setup, running, stopped, video, buffer, pending, frame, received, saved,
                       answered>>
    BY DEF Trigger, TakesMtx, MtxFree
  <1>2. now \in Nat
    <2>1. LastPts(clip) \in Nat
      BY TimesTyped DEF Types
    <2>2. buffer # << >> => Last(buffer) \in Packet
      <3>1. buffer # << >> => Len(buffer) \in 1..Len(buffer)
        BY EmptySeq DEF Types
      <3> QED BY <3>1, ElementOfSeq DEF Types, Last
    <2> QED BY <2>1, <2>2, PacketFields
  <1> HIDE DEF now
  <1>3. Handled = Len(received) /\ Handled' = Len(received)
    BY <1>1 DEF Handled, MtxFree
  <1>4. EndsAt(buffer, Len(received))'
    BY <1>1 DEF Seams, EndsAt
  <1>5. CASE UNCHANGED <<clip, clipSeq, owed>>
    <2>1. Types'
      BY <1>1, <1>2, <1>5 DEF Types
    <2>2. Feed' /\ Tokens' /\ Owing' /\ Names'
      BY <1>1, <1>5 DEF Feed, Tokens, Owing, Names, Recording
    <2>3. Seams'
      BY <1>1, <1>3, <1>4, <1>5 DEF Seams, Recording, EndsAt
    <2> QED BY <2>1, <2>2, <2>3
  <1>6. CASE setup.mode = "event" /\ ~Recording /\ Starts("trigger", buffer, now)
    <2>1. Len(saved') = clipSeq /\ saved' \in Seq(Clip)
      BY <1>1, <1>6, LenProperties DEF Tokens, Types
    <2>2. /\ clip' \in Clip /\ clipSeq' \in Nat /\ owed' \in Seq(Nat)
          /\ Recording' /\ clip'.frames = buffer
          /\ clip'.token = Len(saved') + 1 /\ clipSeq' = Len(saved') + 1
          /\ Owing' /\ Named(clip') /\ clip'.token \notin answered'
      BY <1>1, <1>2, <1>6, <2>1, StartInv DEF Types
    <2>3. Types'
      BY <1>1, <1>2, <2>2 DEF Types
    <2>4. Feed' /\ Tokens' /\ Names'
      BY <1>1, <1>6, <2>2 DEF Feed, Tokens, Names, Starts
    <2>5. Seams'
      BY <1>1, <1>3, <1>4, <2>2 DEF Seams, EndsAt
    <2> QED BY <2>2, <2>3, <2>4, <2>5
  <1>7. CASE Recording /\ clip' = [clip EXCEPT !.cause = "trigger"] /\ UNCHANGED <<clipSeq, owed>>
    <2>1. /\ clip' \in Clip /\ clip'.token = clip.token /\ clip'.id = clip.id
          /\ clip'.known = clip.known /\ clip'.frames = clip.frames
      BY <1>7 DEF Types, Recording, Clip
    <2>2. Recording'
      BY <2>1, ClipFields DEF Recording
    <2>3. Types'
      BY <1>1, <1>2, <1>7, <2>1 DEF Types
    <2>4. Feed' /\ Tokens' /\ Owing' /\ Names'
      BY <1>1, <1>7, <2>1, <2>2 DEF Feed, Tokens, Owing, Names, Named
    <2>5. Seams'
      BY <1>1, <1>3, <1>4, <1>7, <2>1 DEF Seams, EndsAt
    <2> QED BY <2>3, <2>4, <2>5
  <1>8. \/ UNCHANGED <<clip, clipSeq, owed>>
        \/ setup.mode = "event" /\ ~Recording /\ OpenRecording("trigger", buffer, now)
        \/ Recording /\ clip' = [clip EXCEPT !.cause = "trigger"] /\ UNCHANGED <<clipSeq, owed>>
    BY DEF Trigger, now
  <1>9. ~Recording /\ StaysClosed => UNCHANGED <<clip, clipSeq, owed>>
    BY DEF StaysClosed, Recording
  <1> QED BY <1>5, <1>6, <1>7, <1>8, <1>9, OpenEffect

(* zm-api answers. *)
LEMMA AssignInv ==
  ASSUME Core, AssignRecording
  PROVE  Core'
  <1> USE DEF Core
  <1>1. UNCHANGED <<setup, running, stopped, video, buffer, clip, clipSeq, saved, lastTrigger,
                    frame, received>>
    BY DEF AssignRecording, gate
  <1>2. PICK i \in 1..Len(owed) : /\ pending' = owed[i] /\ answered' = answered \cup {owed[i]}
                                  /\ owed' = SubSeq(owed, i + 1, Len(owed))
    BY DEF AssignRecording, Stash
  <1>3. Len(owed) \in Nat /\ \A j \in 1..Len(owed) : owed[j] \in Nat
    BY LenProperties, ElementOfSeq DEF Types
  <1>4. /\ owed' \in Seq(Nat) /\ Len(owed') = Len(owed) - i
        /\ \A j \in 1..Len(owed') : owed'[j] = owed[i + j]
    <2>1. /\ i + 1 \in Int /\ Len(owed) \in Int /\ \A j \in i + 1..Len(owed) : owed[j] \in Nat
      BY <1>3
    <2>2. /\ owed' \in Seq(Nat)
          /\ Len(owed') = IF i + 1 <= Len(owed) THEN Len(owed) - (i + 1) + 1 ELSE 0
          /\ \A j \in 1..Len(owed) - (i + 1) + 1 : owed'[j] = owed[i + 1 + j - 1]
      BY <1>2, <2>1, SubSeqProperties
    <2> QED BY <1>3, <2>2
  <1>5. \A j \in 1..Len(owed') : i + j \in 1..Len(owed) /\ i < i + j
    BY <1>3, <1>4
  <1>6. Types'
    BY <1>1, <1>2, <1>3, <1>4 DEF Types
  <1>7. Owing'
    <2>1. \A j \in 1..Len(owed') : owed'[j] \in 1..clipSeq
      BY <1>4, <1>5 DEF Owing
    <2>2. ASSUME NEW j \in 1..Len(owed'), NEW k \in 1..Len(owed'), j < k
          PROVE  owed'[j] < owed'[k]
      <3>1. i + j < i + k
        BY <1>3, <2>2
      <3> QED BY <1>4, <1>5, <3>1 DEF Owing
    <2>3. answered' \subseteq 1..clipSeq
      BY <1>2 DEF Owing
    <2>4. \A j \in 1..Len(owed') : \A a \in answered' : a < owed'[j]
      BY <1>2, <1>4, <1>5 DEF Owing
    <2> QED BY <1>1, <2>1, <2>2, <2>3, <2>4 DEF Owing
  <1>8. Feed' /\ Tokens' /\ Seams'
    BY <1>1 DEF Feed, Tokens, Seams, Recording, EndsAt, Handled, MtxFree
  <1>9. Names'
    <2>1. ASSUME Recording, clip.token \in answered'
          PROVE  clip.id = clip.token \/ pending' = clip.token
      <3>1. CASE clip.token = owed[i]
        BY <1>2, <3>1
      <3>2. CASE clip.token \in answered
        <4>1. clip.token < owed[i] /\ owed[i] <= clipSeq /\ clip.token = clipSeq
          BY <2>1, <3>2 DEF Owing, Tokens
        <4> QED BY <1>3, <4>1 DEF Types
      <3> QED BY <1>2, <2>1, <3>1, <3>2
    <2> QED BY <1>1, <2>1 DEF Names, Recording
  <1> QED BY <1>6, <1>7, <1>8, <1>9

(* The codec becomes known, a call comes past the running check, running is cleared. *)
LEMMA MetadataInv ==
  ASSUME Core,
         StreamMetadata \/ MetadataArrives \/ TriggerArrives \/ Stop \/ UNCHANGED vars
  PROVE  Core'
  <1> USE DEF Core
  <1>1. /\ UNCHANGED <<setup, stopped, buffer, recorder, lastTrigger, pending, frame, received,
                       answered>>
        /\ video' \in BOOLEAN /\ (video => video')
        /\ running' = running \/ (running' = FALSE /\ frame = NoPacket)
    BY DEF Types, StreamMetadata, MetadataArrives, TriggerArrives, Enters, Stop, vars, gate
  <1>2. Types'
    BY <1>1 DEF Types, recorder
  <1>3. Feed' /\ Tokens' /\ Owing' /\ Names'
    BY <1>1 DEF Feed, Tokens, Owing, Names, Recording, recorder
  <1>4. Seams'
    BY <1>1 DEF Seams, Recording, EndsAt, Handled, MtxFree, recorder
  <1> QED BY <1>2, <1>3, <1>4

(* The stop closes the open clip. *)
LEMMA StopInv ==
  ASSUME Core, StopLocked
  PROVE  Core'
  <1> USE DEF Core
  <1>1. /\ frame = NoPacket /\ running = FALSE /\ running' = FALSE /\ stopped' = TRUE
        /\ UNCHANGED <<setup, video, buffer, clipSeq, lastTrigger, pending, frame, received, owed,
                       answered>>
    BY DEF StopLocked, MtxFree, Types
  <1>2. Handled = Len(received) /\ EndsAt(buffer, Len(received))'
    BY <1>1 DEF Handled, MtxFree, Seams, EndsAt
  <1>3. CASE ~Recording
    <2>1. UNCHANGED <<clip, saved>>
      BY <1>3 DEF StopLocked, StopClip
    <2>2. Types'
      BY <1>1, <2>1 DEF Types
    <2>3. Feed' /\ Tokens' /\ Owing' /\ Names' /\ Seams'
      BY <1>1, <1>2, <1>3, <2>1 DEF Feed, Tokens, Owing, Names, Seams, Recording
    <2> QED BY <2>2, <2>3
  <1>4. CASE Recording
    <2>1. CloseClip(clip) /\ clip' = NoClip /\ clip \in Clip
      BY <1>4 DEF StopLocked, StopClip, Types, Recording
    <2>2. Unbroken(clip)
      BY <1>2, <1>4, <2>1, ClipFields, Consecutive, HandledRange DEF Seams, Unbroken
    <2>3. /\ saved' \in Seq(Clip) /\ Len(saved) \in Nat /\ Len(saved') = Len(saved) + 1
          /\ \A i \in 1..Len(saved') : /\ saved'[i].token = i
                                       /\ Named(saved'[i]) /\ Unbroken(saved'[i])
      BY <1>4, <2>1, <2>2, GrowSaved DEF Names
    <2>4. Types'
      BY <1>1, <2>1, <2>3 DEF Types
    <2>5. Feed' /\ Owing' /\ Names'
      BY <1>1, <2>1, <2>3 DEF Feed, Owing, Names, Recording
    <2>6. Tokens'
      BY <1>1, <1>4, <2>1, <2>3 DEF Tokens, Recording
    <2>7. Seams'
      BY <1>1, <1>2, <2>1, <2>3 DEF Seams, Recording
    <2> QED BY <2>4, <2>5, <2>6, <2>7
  <1> QED BY <1>3, <1>4

(* Every step keeps the invariant. *)
LEMMA StepCore == Core /\ [Next]_vars => Core'
  BY BeginInv, WriteInv, TriggerInv, AssignInv, MetadataInv, StopInv DEF Next

(* The invariant holds in every reachable state. *)
LEMMA CoreAlways == Spec => []Core
  BY InitCore, StepCore, PTL DEF Spec

(* The clips are the closed ones and then the open one. *)
LEMMA ClipsAre ==
  ASSUME Types
  PROVE  /\ Len(saved) \in Nat
         /\ Len(Clips) = Len(saved) + (IF Recording THEN 1 ELSE 0)
         /\ \A i \in 1..Len(Clips) :
               \/ i \in 1..Len(saved) /\ Clips[i] = saved[i]
               \/ Recording /\ i = Len(saved) + 1 /\ Clips[i] = clip
  <1>1. Len(saved) \in Nat /\ saved \in Seq(Clip)
    BY LenProperties DEF Types
  <1>2. CASE Recording
    <2>1. clip \in Clip /\ <<clip>> \in Seq(Clip) /\ Len(<<clip>>) = 1 /\ <<clip>>[1] = clip
      BY <1>2 DEF Types, Recording
    <2>2. /\ Len(saved \o <<clip>>) = Len(saved) + 1
          /\ \A i \in 1..Len(saved) + 1 :
                (saved \o <<clip>>)[i] =
                    IF i <= Len(saved) THEN saved[i] ELSE <<clip>>[i - Len(saved)]
      BY <1>1, <2>1, ConcatProperties
    <2>3. Clips = saved \o <<clip>>
      BY <1>2 DEF Clips
    <2> QED BY <1>1, <1>2, <2>1, <2>2, <2>3
  <1>3. CASE ~Recording
    <2>1. Clips = saved
      BY <1>1, <1>3, ConcatEmptySeq DEF Clips
    <2> QED BY <1>1, <1>3, <2>1
  <1> QED BY <1>2, <1>3

(* What the invariant says of the clips. *)
LEMMA CoreImplies == Core => ClipsInOrder /\ IdsMatch /\ AnswerInTimeCounts /\ ClipContiguous
  <1> SUFFICES ASSUME Core
               PROVE  ClipsInOrder /\ IdsMatch /\ AnswerInTimeCounts /\ ClipContiguous
    OBVIOUS
  <1> USE ClipsAre DEF Core
  <1>1. ClipsInOrder
    BY DEF ClipsInOrder, Tokens, Feed
  <1>2. IdsMatch
    BY DEF IdsMatch, Names, Named
  <1>3. AnswerInTimeCounts
    BY DEF AnswerInTimeCounts, Names, Named
  <1>4. ClipContiguous
    <2>1. Recording => Unbroken(clip)
      BY ClipFields, Consecutive, HandledRange DEF Seams, Unbroken, Types, Recording
    <2>2. \A i \in 1..Len(Clips) : Unbroken(Clips[i])
      BY <2>1 DEF Seams
    <2> QED BY <2>2 DEF ClipContiguous, Unbroken
  <1> QED BY <1>1, <1>2, <1>3, <1>4

(* What the recorder says of its clips (store.cpp:464-505, 534-588, 766-777): they are   *)
(* announced in the order they were opened, and no segment is left open by the stop; a   *)
(* clip has the id zm-api gave to it and not to another, and has it if the answer came   *)
(* in time; and no packet within a clip is missing or doubled.  (An event clip can be    *)
(* left open: a trigger in flight may open one after the stop, NoneOpenAfterStop.)       *)
THEOREM ClipsKept ==
  Spec => [](ClipsInOrder /\ IdsMatch /\ AnswerInTimeCounts /\ ClipContiguous)
  BY CoreAlways, CoreImplies, PTL

-----------------------------------------------------------------------------
(* The segments of a continuous recording, and the clips of events. *)

Segmenting == setup.mode # "event"

(* A segment starts with a keyframe: the one it was opened for, which is written next. *)
Decodable == Segmenting =>
    /\ Recording => IF clip.frames = << >>
                      THEN frame # NoPacket /\ IsKey(frame) /\ clip.opened = frame.pts
                      ELSE IsKey(clip.frames[1])
    /\ \A i \in 1..Len(saved) : saved[i].frames # << >> /\ IsKey(saved[i].frames[1])

(* No keyframe of a segment but the first is as late as its end. *)
InTime(c) == \A j \in 2..Len(c.frames) :
    IsKey(c.frames[j]) => c.frames[j].pts - c.frames[1].pts < MaxSecs

(* The keyframe in work is early enough for the open segment; and the open segment, or  *)
(* the next to be opened, is late enough after the last closed one.                     *)
OnTime == Segmenting =>
    /\ (Recording /\ frame # NoPacket /\ clip.frames # << >> /\ IsKey(frame))
          => frame.pts - clip.frames[1].pts < MaxSecs
    /\ Recording => InTime(clip)
    /\ \A i \in 1..Len(saved) : InTime(saved[i])
    /\ \A i \in 1..Len(saved) - 1 : saved[i + 1].opened - saved[i].frames[1].pts >= MaxSecs
    /\ ((running \/ Recording) /\ saved # << >>) =>
          (IF Recording THEN clip.opened ELSE Now) - saved[Len(saved)].frames[1].pts >= MaxSecs

(* While the recorder runs a segment is open, which goes on where the last one ended. *)
Gapless == (Segmenting /\ ~setup.canFail) =>
    /\ (running /\ saved # << >>) => Recording
    /\ (Recording /\ saved # << >>)
          => Last(saved[Len(saved)].frames).n = Handled - Len(clip.frames)
    /\ \A i \in 1..Len(saved) - 1 :
          saved[i + 1].frames[1].n = Last(saved[i].frames).n + 1

(* The camera's clock is past zero when the first packet arrives: a time of 0 counts as *)
(* not set.                                                                             *)
ClockSet == received # << >> => received[1].pts # 0

-----------------------------------------------------------------------------
(* What the steps do, seen from the segments. *)

SameClip == IF Recording THEN /\ Recording' /\ clip'.frames = clip.frames
                              /\ clip'.opened = clip.opened
                         ELSE ~Recording'

Quiet == SameClip /\ UNCHANGED <<setup, saved, received, frame>> /\ (running' => running)

Arrives == /\ frame = NoPacket /\ frame' # NoPacket /\ running
           /\ received' = Append(received, frame')
           /\ UNCHANGED <<setup, running>>

Writes == /\ frame # NoPacket /\ frame' = NoPacket
          /\ UNCHANGED <<setup, received, running>>

Stops == /\ frame = NoPacket /\ running' = FALSE
         /\ UNCHANGED <<setup, received, frame>>
         /\ IF Recording THEN CloseClip(clip) /\ clip' = NoClip
                         ELSE ~Recording' /\ UNCHANGED saved

(* The recorder stays the one it is. *)
LEMMA SetupKept == [Next]_vars => UNCHANGED setup
  BY DEF Next, vars, BeginFrame, WriteFrame, MetadataArrives, TriggerArrives, Enters,
         StreamMetadata, Trigger, AssignRecording, Stop, StopLocked

(* Calls that arrive, StreamMetadata, an answer of zm-api and the end of running leave    *)
(* packets and clips as they are.                                                       *)
QuietAction == \/ MetadataArrives \/ TriggerArrives \/ StreamMetadata \/ AssignRecording
               \/ Stop \/ UNCHANGED vars

LEMMA QuietSteps ==
  ASSUME Core, QuietAction
  PROVE  Quiet
  BY DEF QuietAction, MetadataArrives, TriggerArrives, Enters, StreamMetadata, AssignRecording,
         Stop, vars, gate, recorder, Quiet, SameClip, Recording

(* So does a trigger, which only names the cause of a segment. *)
LEMMA TriggerStep ==
  ASSUME Core, Segmenting, Trigger
  PROVE  Quiet
  <1>1. UNCHANGED <<setup, running, frame, received, saved>>
    BY DEF Trigger
  <1>2. clip' = IF Recording THEN [clip EXCEPT !.cause = "trigger"] ELSE clip
    BY DEF Trigger, Segmenting
  <1>3. CASE Recording
    <2>1. clip' \in Clip /\ clip'.frames = clip.frames /\ clip'.opened = clip.opened
      BY <1>2, <1>3 DEF Core, Types, Recording, Clip
    <2> QED BY <1>1, <1>3, <2>1, ClipFields DEF Quiet, SameClip, Recording
  <1>4. CASE ~Recording
    BY <1>1, <1>2, <1>4 DEF Quiet, SameClip, Recording
  <1> QED BY <1>3, <1>4

(* A packet arrives and may open or rotate a segment. *)
LEMMA ArriveStep ==
  ASSUME Core, Segmenting, NEW kind \in setup.kinds, NEW step \in setup.steps,
         BeginFrame(kind, step)
  PROVE  Arrives /\ DriveContinuous(frame')
  <1>1. frame' \in Packet /\ received' = Append(received, frame')
    BY Arrival DEF Core
  <1> QED BY <1>1, PacketFields DEF BeginFrame, MtxFree, gate, Arrives, Segmenting

(* The packet in work is added to the open segment, which stays open. *)
LEMMA WriteStep ==
  ASSUME Core, Segmenting, WriteFrame
  PROVE  /\ Writes /\ UNCHANGED saved
         /\ IF Recording THEN /\ clip' \in Clip /\ Recording'
                              /\ clip'.frames = Append(clip.frames, frame)
                              /\ clip'.opened = clip.opened
                         ELSE ~Recording'
  <1>1. Writes
    BY DEF WriteFrame, Writes, gate
  <1>2. CASE ~Recording
    BY <1>1, <1>2 DEF WriteFrame, Recording
  <1>3. CASE Recording
    <2> DEFINE written == [ApplyPending(clip) EXCEPT !.frames = Append(@, frame),
                                                     !.known = clip.token \in answered]
    <2>1. clip' = written /\ UNCHANGED saved
      BY <1>3 DEF WriteFrame, Segmenting
    <2>2. /\ written \in Clip /\ written.opened = clip.opened
          /\ written.frames = Append(clip.frames, frame)
      BY <1>1, <1>3, Written DEF Core, Writes
    <2> HIDE DEF written
    <2> QED BY <1>1, <1>3, <2>1, <2>2, ClipFields DEF Recording
  <1> QED BY <1>2, <1>3

(* The stop closes what is open. *)
LEMMA StopStep ==
  ASSUME Core, StopLocked
  PROVE  Stops
  BY DEF StopLocked, StopClip, Stops, MtxFree, Recording, Core, Types
-----------------------------------------------------------------------------
(* The frames of the open clip are the last packets handled. *)
LEMMA OpenFrames ==
  ASSUME Core, Recording
  PROVE  /\ clip \in Clip /\ clip.frames \in Seq(Packet) /\ Len(clip.frames) \in Nat
         /\ Handled \in 0..Len(received) /\ Len(received) \in Nat
         /\ clip.frames # << >> =>
              /\ 1 \in 1..Len(clip.frames) /\ clip.frames[1] \in Packet
              /\ Handled - Len(clip.frames) + 1 \in 1..Len(received)
              /\ clip.frames[1] = received[Handled - Len(clip.frames) + 1]
              /\ clip.frames[1].n = Handled - Len(clip.frames) + 1
              /\ Last(clip.frames).n = Handled
  <1>1. clip \in Clip /\ clip.frames \in Seq(Packet) /\ Len(clip.frames) \in Nat
    BY ClipFields, LenProperties DEF Core, Types, Recording
  <1>2. Handled \in 0..Len(received) /\ Len(received) \in Nat
    BY HandledRange DEF Core
  <1>3. ASSUME clip.frames # << >>
        PROVE  /\ 1 \in 1..Len(clip.frames) /\ clip.frames[1] \in Packet
               /\ Handled - Len(clip.frames) + 1 \in 1..Len(received)
               /\ clip.frames[1] = received[Handled - Len(clip.frames) + 1]
               /\ clip.frames[1].n = Handled - Len(clip.frames) + 1
               /\ Last(clip.frames).n = Handled
    <2>1. /\ 1 \in 1..Len(clip.frames) /\ Len(clip.frames) \in 1..Len(clip.frames)
          /\ Len(clip.frames) <= Handled /\ clip.frames[1] \in Packet
      <3>1. Len(clip.frames) \in Nat \ {0} /\ Len(clip.frames) <= Handled
        BY <1>1, <1>3, EmptySeq DEF Core, Seams, EndsAt
      <3> QED BY <1>1, <3>1, ElementOfSeq
    <2>2. /\ clip.frames[1] = received[Handled - Len(clip.frames) + 1]
          /\ Last(clip.frames) = received[Handled - Len(clip.frames) + Len(clip.frames)]
      BY <2>1 DEF Core, Seams, EndsAt, Last
    <2>3. /\ Handled - Len(clip.frames) + 1 \in 1..Len(received)
          /\ Handled - Len(clip.frames) + Len(clip.frames) = Handled
          /\ Handled \in 1..Len(received)
      BY <1>1, <1>2, <2>1
    <2> QED BY <2>1, <2>2, <2>3 DEF Core, Feed
  <1> QED BY <1>1, <1>2, <1>3

(* When a packet arrives, all before it have been handled; its time is the latest. *)
LEMMA ArriveHandled ==
  ASSUME Core, Core', Arrives
  PROVE  /\ Handled = Len(received) /\ Handled' = Len(received) /\ Len(received) \in Nat
         /\ frame' \in Packet /\ Len(received') = Len(received) + 1
         /\ Now \in Nat /\ Now' = frame'.pts /\ Now <= frame'.pts /\ frame'.pts \in Nat
  <1>1. frame' \in Packet /\ Len(received) \in Nat /\ received \in Seq(Packet)
    BY LenProperties DEF Core, Types, Arrives
  <1>2. /\ received' # << >> /\ Len(received') = Len(received) + 1
        /\ received'[Len(received) + 1] = frame'
        /\ \A k \in 1..Len(received) : received'[k] = received[k]
    BY <1>1, AppendProperties DEF Arrives
  <1>3. Now' = frame'.pts /\ frame'.pts \in Nat
    BY <1>1, <1>2, PacketFields DEF Now, Last
  <1>4. Now \in Nat /\ Now <= frame'.pts
    <2>1. CASE received = << >>
      BY <1>3, <2>1 DEF Now
    <2>2. CASE received # << >>
      <3>1. Len(received) \in 1..Len(received)
        BY <1>1, <2>2, EmptySeq
      <3>2. received[Len(received)] \in Packet
        BY <1>1, <3>1, ElementOfSeq
      <3>3. received'[Len(received)].pts <= received'[Len(received) + 1].pts
        BY <1>1, <1>2, <3>1 DEF Core, Feed
      <3> QED BY <1>2, <2>2, <3>1, <3>2, <3>3, PacketFields DEF Now, Last
    <2> QED BY <2>1, <2>2
  <1> QED BY <1>1, <1>2, <1>3, <1>4 DEF Arrives, Handled, MtxFree

(* The packet in work is the last one received, and is then handled. *)
LEMMA WriteHandled ==
  ASSUME Core, Writes
  PROVE  /\ Handled = Len(received) - 1 /\ Handled' = Len(received) /\ Len(received) \in Nat
         /\ frame = received[Len(received)] /\ frame \in Packet
  BY HandledRange DEF Core, Feed, Types, Last, Writes, Handled, MtxFree

(* Of a segment that is closed, the first and the last packet are known. *)
LEMMA SegmentClosed ==
  ASSUME Core, Segmenting, Decodable, Recording, frame = NoPacket, CloseClip(clip)
  PROVE  \E d \in Clip :
            /\ d.frames = clip.frames /\ d.opened = clip.opened /\ clip.frames # << >>
            /\ IsKey(clip.frames[1])
            /\ Len(saved) \in Nat /\ Len(saved') = Len(saved) + 1 /\ saved' # << >>
            /\ saved'[Len(saved')] = d
            /\ \A i \in 1..Len(saved) : saved'[i] = saved[i]
  <1>1. clip.frames # << >> /\ IsKey(clip.frames[1]) /\ clip \in Clip
    BY OpenFrames DEF Decodable
  <1>2. PICK d \in Clip :
            /\ saved' \in Seq(Clip) /\ Len(saved) \in Nat /\ Len(saved') = Len(saved) + 1
            /\ d.frames = clip.frames /\ d.opened = clip.opened
            /\ saved'[Len(saved')] = d
            /\ \A i \in 1..Len(saved) : saved'[i] = saved[i]
    BY <1>1, Announced DEF Core
  <1>3. saved' # << >>
    BY <1>2, EmptySeq
  <1> QED BY <1>1, <1>2, <1>3

(* Where the new segment, if one is opened with the packet that arrives, begins. *)
LEMMA SegmentOpened ==
  ASSUME Core, Core', Arrives, Starts("continuous", << >>, frame'.pts)
  PROVE  /\ Recording' /\ clip'.frames = << >> /\ clip'.opened = frame'.pts
         /\ Len(clip'.frames) = 0
  <1>1. clipSeq + 1 \in Nat \ {0}
    BY DEF Core, Types
  <1>2. clip' \in Clip
    <2>1. << >> \in Seq(Packet)
      BY EmptySeq
    <2> QED BY <1>1, <2>1, ArriveHandled, FreshTyped DEF Starts
  <1> QED BY <1>2, ClipFields, EmptySeq DEF Starts, Fresh, Recording

(* Every step keeps the segments decodable. *)
LEMMA DecodableStep ==
  ASSUME Core, Core', Decodable, [Next]_vars
  PROVE  Decodable'
  <1> SUFFICES ASSUME Segmenting' PROVE Decodable'
    BY DEF Decodable
  <1>0. Segmenting
    BY SetupKept DEF Segmenting
  <1>1. CASE Quiet
    BY <1>1 DEF Quiet, SameClip, Decodable, Segmenting
  <1>2. ASSUME NEW kind \in setup.kinds, NEW step \in setup.steps, BeginFrame(kind, step)
        PROVE  Decodable'
    <2>1. Arrives /\ DriveContinuous(frame')
      BY <1>0, <1>2, ArriveStep
    <2>2. CASE UNCHANGED recorder
      BY <1>0, <2>1, <2>2 DEF Decodable, recorder, Recording, Arrives
    <2>3. CASE Starts("continuous", << >>, frame'.pts) /\ UNCHANGED saved /\ OpeningDue(frame')
      BY <1>0, <2>1, <2>3, SegmentOpened DEF Decodable, Arrives, OpeningDue
    <2>4. CASE /\ Recording /\ CloseClip(clip) /\ RotationDue(frame')
               /\ Starts("continuous", << >>, frame'.pts) \/ StaysClosed
      <3>1. \A i \in 1..Len(saved') : saved'[i].frames # << >> /\ IsKey(saved'[i].frames[1])
        BY <1>0, <2>1, <2>4, SegmentClosed DEF Decodable, Arrives
      <3> QED BY <2>1, <2>4, <3>1, SegmentOpened
              DEF Decodable, Arrives, RotationDue, StaysClosed, Recording
    <2>5. CASE ~Recording /\ UNCHANGED saved /\ StaysClosed
      BY <1>0, <2>5 DEF Decodable, StaysClosed, Recording
    <2> QED BY <2>1, <2>2, <2>3, <2>4, <2>5, DriveEffect
  <1>3. CASE WriteFrame
    <2>1. CASE Recording
      <3>1. /\ clip'.frames = Append(clip.frames, frame) /\ UNCHANGED saved /\ frame # NoPacket
            /\ clip.frames \in Seq(Packet) /\ frame \in Packet
        BY <1>0, <1>3, <2>1, WriteStep, WriteHandled, OpenFrames DEF Writes
      <3>2. clip'.frames # << >> /\ IsKey(clip'.frames[1])
        <4>1. CASE clip.frames = << >>
          <5>1. clip'.frames[1] = frame /\ clip'.frames # << >>
            BY <3>1, <4>1, AppendProperties, EmptySeq
          <5> QED BY <1>0, <2>1, <4>1, <5>1 DEF Decodable
        <4>2. CASE clip.frames # << >>
          <5>1. clip'.frames[1] = clip.frames[1] /\ clip'.frames # << >>
            <6>1. 1 \in 1..Len(clip.frames)
              BY <2>1, <4>2, OpenFrames
            <6> QED BY <3>1, <6>1, AppendProperties
          <5> QED BY <1>0, <2>1, <4>2, <5>1 DEF Decodable
        <4> QED BY <4>1, <4>2
      <3> QED BY <1>0, <3>1, <3>2 DEF Decodable
    <2>2. CASE ~Recording
      BY <1>0, <1>3, <2>2, WriteStep DEF Decodable
    <2> QED BY <2>1, <2>2
  <1>4. CASE StopLocked
    <2>1. Stops
      BY <1>4, StopStep
    <2>2. CASE ~Recording
      BY <1>0, <2>1, <2>2 DEF Decodable, Stops
    <2>3. CASE Recording
      <3>1. \A i \in 1..Len(saved') : saved'[i].frames # << >> /\ IsKey(saved'[i].frames[1])
        BY <1>0, <2>1, <2>3, SegmentClosed DEF Decodable, Stops
      <3> QED BY <2>1, <2>3, <3>1 DEF Decodable, Stops, Recording
    <2> QED BY <2>2, <2>3
  <1> QED BY <1>0, <1>1, <1>2, <1>3, <1>4, QuietSteps, TriggerStep DEF Next, QuietAction
-----------------------------------------------------------------------------
(* With the clock set, a segment starts at its first packet. *)
LEMMA StartIsFirst ==
  ASSUME Core, ClockSet, Recording, clip.frames # << >>
  PROVE  StartTs(clip) = clip.frames[1].pts /\ StartTs(clip) # 0 /\ StartTs(clip) \in Nat
  <1> DEFINE timed == {i \in 1..Len(clip.frames) : clip.frames[i].pts # 0}
             k == Handled - Len(clip.frames) + 1
  <1>1. /\ 1 \in 1..Len(clip.frames) /\ clip.frames[1] \in Packet
        /\ k \in 1..Len(received) /\ clip.frames[1] = received[k]
    BY OpenFrames
  <1>2. clip.frames[1].pts \in Nat
    BY <1>1, PacketFields
  <1>3. 1 \in 1..Len(received) /\ received[1].pts <= received[k].pts /\ received # << >>
    <2> HIDE DEF k
    <2>1. 1 \in 1..Len(received) /\ 1 <= k /\ Len(received) # 0
      BY <1>1
    <2> QED BY <1>1, <2>1, EmptySeq DEF Core, Feed, Types
  <1>4. received[1].pts \in Nat
    BY <1>3, ElementOfSeq, PacketFields DEF Core, Types
  <1>5. clip.frames[1].pts # 0
    BY <1>1, <1>2, <1>3, <1>4 DEF ClockSet
  <1>6. 1 \in timed /\ timed \subseteq Nat /\ \A i \in timed : i >= 1
    BY <1>1, <1>5
  <1>7. Min(timed) = 1
    <2> HIDE DEF timed
    <2>1. Min(timed) \in timed /\ Min(timed) <= 1
      BY <1>6, MinExists
    <2>2. Min(timed) \in Nat /\ Min(timed) >= 1
      BY <1>6, <2>1
    <2> QED BY <2>1, <2>2
  <1>8. timed # {} /\ StartTs(clip) = clip.frames[Min(timed)].pts
    BY <1>6 DEF StartTs
  <1> HIDE DEF timed
  <1> QED BY <1>2, <1>5, <1>7, <1>8

(* A keyframe that does not rotate the segment is early; one that does is late. *)
LEMMA RotationTime ==
  ASSUME Core, ClockSet, Recording, clip.frames # << >>, NEW p \in Packet, IsKey(p)
  PROVE  /\ RotationDue(p) => p.pts - clip.frames[1].pts >= MaxSecs
         /\ ~RotationDue(p) => p.pts - clip.frames[1].pts < MaxSecs
  BY StartIsFirst, PacketFields, StoreAssumption DEF RotationDue

(* One more packet in the open segment. *)
LEMMA LongerInTime ==
  ASSUME Core, Segmenting, OnTime, Recording, frame # NoPacket,
         clip'.frames = Append(clip.frames, frame)
  PROVE  InTime(clip')
  <1>1. /\ clip.frames \in Seq(Packet) /\ Len(clip.frames) \in Nat /\ frame \in Packet
    BY OpenFrames DEF Core, Types
  <1>2. /\ Len(clip'.frames) = Len(clip.frames) + 1
        /\ \A j \in 1..Len(clip.frames) : clip'.frames[j] = clip.frames[j]
        /\ clip'.frames[Len(clip.frames) + 1] = frame
    BY <1>1, AppendProperties
  <1> SUFFICES ASSUME NEW j \in 2..Len(clip'.frames), IsKey(clip'.frames[j])
               PROVE  clip'.frames[j].pts - clip'.frames[1].pts < MaxSecs
    BY DEF InTime
  <1>3. 1 \in 1..Len(clip.frames) /\ (j \in 2..Len(clip.frames) \/ j = Len(clip.frames) + 1)
    BY <1>1, <1>2
  <1>4. CASE j \in 2..Len(clip.frames)
    <2>1. j \in 1..Len(clip.frames)
      BY <1>1, <1>4
    <2> QED BY <1>2, <1>3, <1>4, <2>1 DEF OnTime, InTime
  <1>5. CASE j = Len(clip.frames) + 1
    <2>1. clip.frames # << >>
      BY <1>3, EmptySeq
    <2> QED BY <1>2, <1>3, <1>5, <2>1 DEF OnTime
  <1> QED BY <1>3, <1>4, <1>5

(* The open segment is closed. *)
LEMMA OnTimeClosed ==
  ASSUME Core, Segmenting, Decodable, OnTime, Recording, frame = NoPacket,
         CloseClip(clip)
  PROVE  /\ saved' # << >> /\ saved'[Len(saved')].frames[1] = clip.frames[1]
         /\ \A i \in 1..Len(saved') : InTime(saved'[i])
         /\ \A i \in 1..Len(saved') - 1 :
               saved'[i + 1].opened - saved'[i].frames[1].pts >= MaxSecs
  <1>1. PICK d \in Clip :
            /\ d.frames = clip.frames /\ d.opened = clip.opened
            /\ Len(saved) \in Nat /\ Len(saved') = Len(saved) + 1 /\ saved' # << >>
            /\ saved'[Len(saved')] = d
            /\ \A i \in 1..Len(saved) : saved'[i] = saved[i]
    BY SegmentClosed
  <1>2. InTime(d)
    BY <1>1 DEF OnTime, InTime
  <1>3. ASSUME NEW i \in 1..Len(saved') PROVE InTime(saved'[i])
    <2>1. i \in 1..Len(saved) \/ i = Len(saved')
      BY <1>1
    <2> QED BY <1>1, <1>2, <2>1 DEF OnTime
  <1>4. ASSUME NEW i \in 1..Len(saved') - 1
        PROVE  saved'[i + 1].opened - saved'[i].frames[1].pts >= MaxSecs
    <2>1. i \in 1..Len(saved) /\ saved'[i] = saved[i]
      BY <1>1
    <2>2. CASE i \in 1..Len(saved) - 1
      <3>1. i + 1 \in 1..Len(saved)
        BY <1>1, <2>2
      <3>2. saved'[i + 1] = saved[i + 1]
        BY <1>1, <3>1
      <3> QED BY <2>1, <2>2, <3>2 DEF OnTime
    <2>3. CASE i = Len(saved)
      <3>1. saved # << >> /\ i + 1 = Len(saved')
        BY <1>1, <2>1, <2>3, EmptySeq
      <3>2. clip.opened - saved[Len(saved)].frames[1].pts >= MaxSecs
        BY <3>1 DEF OnTime
      <3> QED BY <1>1, <2>1, <2>3, <3>1, <3>2
    <2> QED BY <1>1, <2>1, <2>2, <2>3
  <1> QED BY <1>1, <1>3, <1>4

(* Every step keeps the segments in time, once the clock is set. *)
LEMMA OnTimeStep ==
  ASSUME Core, Core', ClockSet, Decodable, OnTime, [Next]_vars
  PROVE  OnTime'
  <1> SUFFICES ASSUME Segmenting' PROVE OnTime'
    BY DEF OnTime
  <1>0. Segmenting
    BY SetupKept DEF Segmenting
  <1>1. CASE Quiet
    BY <1>1 DEF Quiet, SameClip, OnTime, Segmenting, InTime, Now
  <1>2. ASSUME NEW kind \in setup.kinds, NEW step \in setup.steps, BeginFrame(kind, step)
        PROVE  OnTime'
    <2>1. Arrives /\ DriveContinuous(frame') /\ frame = NoPacket /\ running
      BY <1>0, <1>2, ArriveStep DEF Arrives
    <2>2. /\ frame' \in Packet /\ Now \in Nat /\ Now' = frame'.pts /\ Now <= frame'.pts
          /\ frame'.pts \in Nat
      BY <2>1, ArriveHandled
    <2>3. ASSUME saved # << >> PROVE saved[Len(saved)].frames[1].pts \in Nat
      <3>1. Len(saved) \in 1..Len(saved) /\ saved[Len(saved)] \in Clip
        BY <2>3, EmptySeq, ElementOfSeq DEF Core, Types
      <3>2. /\ saved[Len(saved)].frames \in Seq(Packet) /\ saved[Len(saved)].frames # << >>
        BY <1>0, <3>1, ClipFields DEF Decodable
      <3>3. saved[Len(saved)].frames[1] \in Packet
        <4> DEFINE fs == saved[Len(saved)].frames
        <4> HIDE DEF fs
        <4>1. fs \in Seq(Packet) /\ fs # << >>
          BY <3>2 DEF fs
        <4>2. fs[1] \in Packet
          BY <4>1, EmptySeq, ElementOfSeq
        <4> QED BY <4>2 DEF fs
      <3> QED BY <3>3, PacketFields
    <2>4. CASE UNCHANGED recorder /\ (Recording => ~RotationDue(frame'))
      <3>1. UNCHANGED <<clip, saved>> /\ (Recording' <=> Recording)
        BY <2>4 DEF recorder, Recording
      <3>2. (Recording /\ clip.frames # << >> /\ IsKey(frame'))
               => frame'.pts - clip.frames[1].pts < MaxSecs
        BY <2>2, <2>4, RotationTime
      <3>3. (running' /\ saved' # << >>) =>
              (IF Recording' THEN clip'.opened ELSE Now')
                 - saved'[Len(saved')].frames[1].pts >= MaxSecs
        BY <1>0, <2>1, <2>2, <2>3, <3>1, StoreAssumption DEF OnTime
      <3>4. (Recording' => InTime(clip)') /\ \A i \in 1..Len(saved') : InTime(saved'[i])
        BY <1>0, <3>1 DEF OnTime, InTime
      <3>5. \A i \in 1..Len(saved') - 1 :
              saved'[i + 1].opened - saved'[i].frames[1].pts >= MaxSecs
        BY <1>0, <3>1 DEF OnTime
      <3>6. running' = running
        BY <2>1 DEF Arrives
      <3> QED BY <1>0, <2>1, <3>1, <3>2, <3>3, <3>4, <3>5, <3>6 DEF OnTime
    <2>5. CASE ~Recording /\ UNCHANGED saved /\ Starts("continuous", << >>, frame'.pts)
      <3>1. /\ Recording' /\ clip'.frames = << >> /\ clip'.opened = frame'.pts
            /\ Len(clip'.frames) = 0
        BY <2>1, <2>5, SegmentOpened
      <3>2. saved # << >> => frame'.pts - saved[Len(saved)].frames[1].pts >= MaxSecs
        BY <1>0, <2>1, <2>2, <2>3, <2>5, StoreAssumption DEF OnTime
      <3>3. InTime(clip)'
        BY <3>1 DEF InTime
      <3>4. /\ \A i \in 1..Len(saved) : InTime(saved[i])
            /\ \A i \in 1..Len(saved) - 1 :
                  saved[i + 1].opened - saved[i].frames[1].pts >= MaxSecs
        BY <1>0 DEF OnTime
      <3>5. UNCHANGED saved
        BY <2>5
      <3>6. (\A i \in 1..Len(saved) : InTime(saved[i]))'
        BY <3>4, <3>5 DEF InTime
      <3>7. \A i \in 1..Len(saved') - 1 :
                  saved'[i + 1].opened - saved'[i].frames[1].pts >= MaxSecs
        BY <3>4, <3>5
      <3> QED BY <3>1, <3>2, <3>3, <3>5, <3>6, <3>7 DEF OnTime
    <2>6. ASSUME Recording, CloseClip(clip), RotationDue(frame')
          PROVE  /\ \A i \in 1..Len(saved') : InTime(saved'[i])
                 /\ \A i \in 1..Len(saved') - 1 :
                       saved'[i + 1].opened - saved'[i].frames[1].pts >= MaxSecs
                 /\ frame'.pts - saved'[Len(saved')].frames[1].pts >= MaxSecs
      <3>1. clip.frames # << >>
        BY <1>0, <2>1, <2>6 DEF Decodable
      <3>2. frame'.pts - clip.frames[1].pts >= MaxSecs
        BY <2>2, <2>6, <3>1, RotationTime DEF RotationDue
      <3> QED BY <1>0, <2>1, <2>6, <3>2, OnTimeClosed
    <2>7. CASE Recording /\ CloseClip(clip) /\ RotationDue(frame')
                 /\ Starts("continuous", << >>, frame'.pts)
      <3>1. /\ Recording' /\ clip'.frames = << >> /\ clip'.opened = frame'.pts
            /\ Len(clip'.frames) = 0
        BY <2>1, <2>7, SegmentOpened
      <3> QED BY <2>6, <2>7, <3>1 DEF OnTime, InTime
    <2>8. CASE Recording /\ CloseClip(clip) /\ RotationDue(frame') /\ StaysClosed
      BY <2>2, <2>6, <2>8 DEF OnTime, StaysClosed, Recording
    <2>9. CASE ~Recording /\ UNCHANGED saved /\ StaysClosed
      <3>1. saved # << >> => frame'.pts - saved[Len(saved)].frames[1].pts >= MaxSecs
        BY <1>0, <2>1, <2>2, <2>3, <2>9, StoreAssumption DEF OnTime
      <3> QED BY <1>0, <2>2, <2>9, <3>1 DEF OnTime, StaysClosed, Recording
    <2> QED BY <2>1, <2>4, <2>5, <2>7, <2>8, <2>9, DriveEffect
  <1>3. CASE WriteFrame
    <2>1. Writes /\ UNCHANGED saved /\ frame' = NoPacket /\ frame # NoPacket
      BY <1>0, <1>3, WriteStep DEF Writes
    <2>2. CASE Recording
      <3>1. Recording' /\ clip'.frames = Append(clip.frames, frame) /\ clip'.opened = clip.opened
        BY <1>0, <1>3, <2>2, WriteStep
      <3>2. InTime(clip')
        BY <1>0, <2>1, <2>2, <3>1, LongerInTime
      <3> QED BY <1>0, <2>1, <2>2, <3>1, <3>2 DEF OnTime, Writes
    <2>3. CASE ~Recording
      <3>1. ~Recording'
        BY <1>0, <1>3, <2>3, WriteStep
      <3> QED BY <1>0, <2>1, <2>3, <3>1 DEF OnTime, Writes, Now
    <2> QED BY <2>2, <2>3
  <1>4. CASE StopLocked
    <2>1. Stops /\ frame = NoPacket /\ running' = FALSE
      BY <1>4, StopStep DEF Stops
    <2>2. CASE ~Recording
      BY <1>0, <2>1, <2>2 DEF OnTime, Stops
    <2>3. CASE Recording
      <3>1. CloseClip(clip) /\ ~Recording'
        BY <2>1, <2>3 DEF Stops, Recording
      <3> QED BY <1>0, <2>1, <2>3, <3>1, OnTimeClosed DEF OnTime
    <2> QED BY <2>2, <2>3
  <1> QED BY <1>0, <1>1, <1>2, <1>3, <1>4, QuietSteps, TriggerStep DEF Next, QuietAction
-----------------------------------------------------------------------------
(* The segment that is closed goes up to the last packet handled and begins after the  *)
(* one closed before it.                                                                *)
LEMMA GaplessClosed ==
  ASSUME Core, Segmenting, ~setup.canFail, Decodable, Gapless, Recording, frame = NoPacket,
         CloseClip(clip)
  PROVE  /\ saved' # << >> /\ Last(saved'[Len(saved')].frames).n = Handled
         /\ \A i \in 1..Len(saved') - 1 :
               saved'[i + 1].frames[1].n = Last(saved'[i].frames).n + 1
  <1>1. PICK d \in Clip :
            /\ d.frames = clip.frames /\ clip.frames # << >>
            /\ Len(saved) \in Nat /\ Len(saved') = Len(saved) + 1 /\ saved' # << >>
            /\ saved'[Len(saved')] = d
            /\ \A i \in 1..Len(saved) : saved'[i] = saved[i]
    BY SegmentClosed
  <1>2. /\ d.frames[1].n = Handled - Len(clip.frames) + 1
        /\ Last(d.frames).n = Handled
    BY <1>1, OpenFrames
  <1>3. ASSUME NEW i \in 1..Len(saved') - 1
        PROVE  saved'[i + 1].frames[1].n = Last(saved'[i].frames).n + 1
    <2>1. i \in 1..Len(saved) /\ saved'[i] = saved[i]
      BY <1>1
    <2>2. CASE i \in 1..Len(saved) - 1
      <3>1. i + 1 \in 1..Len(saved)
        BY <1>1, <2>2
      <3>2. saved'[i + 1] = saved[i + 1]
        BY <1>1, <3>1
      <3> QED BY <2>1, <2>2, <3>2 DEF Gapless
    <2>3. CASE i = Len(saved)
      <3>1. saved # << >> /\ i + 1 = Len(saved')
        BY <1>1, <2>1, <2>3, EmptySeq
      <3>2. Last(saved[Len(saved)].frames).n = Handled - Len(clip.frames)
        BY <3>1 DEF Gapless
      <3> QED BY <1>1, <1>2, <2>1, <2>3, <3>1, <3>2
    <2> QED BY <1>1, <2>1, <2>2, <2>3
  <1> QED BY <1>1, <1>2, <1>3

(* Every step keeps the segments without a gap, as long as no open fails. *)
LEMMA GaplessStep ==
  ASSUME Core, Core', Decodable, Gapless, [Next]_vars
  PROVE  Gapless'
  <1> SUFFICES ASSUME Segmenting', ~setup'.canFail PROVE Gapless'
    BY DEF Gapless
  <1>0. Segmenting /\ ~setup.canFail
    BY SetupKept DEF Segmenting
  <1>1. CASE Quiet
    <2>1. UNCHANGED <<saved, Handled>> /\ (running' => running)
      BY <1>1 DEF Quiet, Handled, MtxFree
    <2>2. Recording' = Recording /\ (Recording => clip'.frames = clip.frames)
      BY <1>1 DEF Quiet, SameClip, Recording
    <2> QED BY <1>0, <2>1, <2>2 DEF Gapless
  <1>2. ASSUME NEW kind \in setup.kinds, NEW step \in setup.steps, BeginFrame(kind, step)
        PROVE  Gapless'
    <2>1. Arrives /\ DriveContinuous(frame') /\ frame = NoPacket /\ running /\ running'
      BY <1>0, <1>2, ArriveStep DEF Arrives
    <2>2. Handled = Len(received) /\ Handled' = Len(received) /\ Len(received) \in Nat
      BY <2>1, ArriveHandled
    <2>3. CASE UNCHANGED recorder
      BY <1>0, <2>1, <2>2, <2>3 DEF Gapless, recorder, Recording
    <2>4. CASE ~Recording /\ UNCHANGED saved /\ Starts("continuous", << >>, frame'.pts)
      <3>1. saved' = << >> /\ Recording'
        BY <1>0, <2>1, <2>4, SegmentOpened DEF Gapless
      <3>2. \A i \in 1..Len(saved) - 1 :
                saved[i + 1].frames[1].n = Last(saved[i].frames).n + 1
        BY <1>0 DEF Gapless
      <3> QED BY <2>4, <3>1, <3>2 DEF Gapless
    <2>5. CASE Recording /\ CloseClip(clip) /\ Starts("continuous", << >>, frame'.pts)
      <3>1. Recording' /\ Len(clip'.frames) = 0
        BY <2>1, <2>5, SegmentOpened
      <3> QED BY <1>0, <2>1, <2>2, <2>5, <3>1, GaplessClosed DEF Gapless
    <2>6. CASE Recording /\ StaysClosed
      BY <1>0, <2>6 DEF StaysClosed, Core, Feed
    <2>7. CASE ~Recording /\ UNCHANGED saved /\ StaysClosed
      BY <1>0, <2>1, <2>7 DEF Gapless, StaysClosed, Recording
    <2> QED BY <2>1, <2>3, <2>4, <2>5, <2>6, <2>7, DriveEffect
  <1>3. CASE WriteFrame
    <2>1. Writes /\ UNCHANGED <<saved, running>>
      BY <1>0, <1>3, WriteStep DEF Writes
    <2>2. CASE Recording
      <3>1. Recording' /\ clip'.frames = Append(clip.frames, frame)
        BY <1>0, <1>3, <2>2, WriteStep
      <3>2. /\ Len(clip'.frames) = Len(clip.frames) + 1 /\ Len(clip.frames) \in Nat
        BY <2>1, <2>2, <3>1, OpenFrames, WriteHandled, AppendProperties
      <3>3. Handled' - Len(clip'.frames) = Handled - Len(clip.frames)
        BY <2>1, <3>2, WriteHandled
      <3> QED BY <1>0, <2>1, <2>2, <3>1, <3>3 DEF Gapless
    <2>3. CASE ~Recording
      <3>1. ~Recording'
        BY <1>0, <1>3, <2>3, WriteStep
      <3> QED BY <1>0, <2>1, <2>3, <3>1 DEF Gapless
    <2> QED BY <2>2, <2>3
  <1>4. CASE StopLocked
    <2>1. Stops /\ frame = NoPacket /\ running' = FALSE
      BY <1>4, StopStep DEF Stops
    <2>2. CASE ~Recording
      BY <1>0, <2>1, <2>2 DEF Gapless, Stops
    <2>3. CASE Recording
      <3>1. CloseClip(clip) /\ ~Recording'
        BY <2>1, <2>3 DEF Stops, Recording
      <3> QED BY <1>0, <2>1, <2>3, <3>1, GaplessClosed DEF Gapless
    <2> QED BY <2>2, <2>3
  <1> QED BY <1>0, <1>1, <1>2, <1>3, <1>4, QuietSteps, TriggerStep DEF Next, QuietAction
-----------------------------------------------------------------------------
(* There are no segments at the start. *)
LEMMA InitSegments == Init => Decodable /\ OnTime /\ Gapless
  <1> SUFFICES ASSUME Init PROVE Decodable /\ OnTime /\ Gapless
    OBVIOUS
  <1>1. ~Recording /\ saved = << >> /\ Len(saved) = 0
    BY EmptySeq DEF Init, Recording
  <1> QED BY <1>1 DEF Decodable, OnTime, Gapless

(* Of a closed segment, the first packet. *)
LEMMA SegmentsDone ==
  ASSUME Core, Segmenting, Decodable, NEW i \in 1..Len(saved)
  PROVE  /\ saved[i].frames \in Seq(Packet) /\ saved[i].frames # << >>
         /\ IsKey(saved[i].frames[1]) /\ Head(saved[i].frames) = saved[i].frames[1]
  <1>1. saved[i] \in Clip
    BY ElementOfSeq DEF Core, Types
  <1>2. saved[i].frames \in Seq(Packet)
    BY <1>1, ClipFields
  <1> DEFINE fs == saved[i].frames
  <1>3. fs \in Seq(Packet) /\ fs # << >> /\ IsKey(fs[1])
    BY <1>2 DEF Decodable
  <1> HIDE DEF fs
  <1>4. Head(fs) = fs[1]
    BY <1>3
  <1> QED BY <1>3, <1>4 DEF fs

(* What a reader is promised, from the invariants. *)
LEMMA DecodableImplies == Core /\ Decodable => SegmentsDecodable
  BY SegmentsDone DEF SegmentsDecodable, Segmenting

(* No packet is between two segments, nor after the open one. *)
LEMMA GaplessImplies == Core /\ Decodable /\ Gapless => EverythingRecorded
  <1> SUFFICES ASSUME Core, Decodable, Gapless, Segmenting, ~setup.canFail
               PROVE  EverythingRecorded
    BY DEF EverythingRecorded, Segmenting
  <1>1. ASSUME NEW i \in 1..Len(saved) - 1
        PROVE  Head(saved[i + 1].frames).n = Last(saved[i].frames).n + 1
    <2>1. i + 1 \in 1..Len(saved)
      BY LenProperties DEF Core, Types
    <2>2. Head(saved[i + 1].frames) = saved[i + 1].frames[1]
      BY <2>1, SegmentsDone
    <2> QED BY <2>2 DEF Gapless
  <1>2. ASSUME Recording, MtxFree
        PROVE  Last(clip.frames).n = Len(received)
    <2>1. clip.frames # << >>
      BY <1>2 DEF Decodable, MtxFree
    <2> QED BY <1>2, <2>1, OpenFrames DEF Handled
  <1> QED BY <1>1, <1>2 DEF EverythingRecorded

(* No segment is too long, and none but the last too short. *)
LEMMA OnTimeImplies == Core /\ Decodable /\ OnTime => RotatesOnTime
  <1> SUFFICES ASSUME Core, Decodable, OnTime, Segmenting
               PROVE  RotatesOnTime
    BY DEF RotatesOnTime, Segmenting
  <1>1. ASSUME NEW i \in 1..Len(Clips)
        PROVE  InTime(Clips[i])
    BY ClipsAre DEF OnTime, Core
  <1>2. ASSUME NEW i \in 1..Len(saved) - 1
        PROVE  saved[i + 1].opened - Head(saved[i].frames).pts >= MaxSecs
    <2>1. i \in 1..Len(saved)
      BY LenProperties DEF Core, Types
    <2>2. Head(saved[i].frames) = saved[i].frames[1]
      BY <2>1, SegmentsDone
    <2> QED BY <2>2 DEF OnTime
  <1> QED BY <1>1, <1>2 DEF RotatesOnTime, InTime
-----------------------------------------------------------------------------
(* Event mode. *)

(* The packets received so far that lie in the time of clip e are in it. *)
Covered(e) == \A k \in 1..Len(received) :
    (e.opened - PreRollSec <= received[k].pts /\ received[k].pts <= e.until + PostRollSec)
        => received[k] \in ToSet(e.frames)

(* What is no longer in the buffer is older than the pre-roll; what is not in the open  *)
(* clip came before its pre-roll; and time has gone past the end of the closed clips.   *)
Covering == setup.mode = "event" =>
    /\ \A k \in 1..Len(received) - Len(buffer) : received[k].pts < Now - PreRollSec
    /\ Recording => \A k \in 1..Handled - Len(clip.frames) :
                        received[k].pts < clip.opened - PreRollSec
    /\ running => \A i \in 1..Len(saved) : saved[i].until + PostRollSec < Now
    /\ \A i \in 1..Len(saved) : Covered(saved[i])

(* A clip that holds the last packets received, and all since its pre-roll, is covered. *)
LEMMA ClosedCovers ==
  ASSUME Core, NEW c \in Clip, NEW d \in Clip, EndsAt(c.frames, Len(received)),
         d.frames = c.frames, d.opened = c.opened,
         \A k \in 1..Len(received) - Len(c.frames) : received[k].pts < c.opened - PreRollSec
  PROVE  Covered(d)
  <1> SUFFICES ASSUME NEW k \in 1..Len(received), d.opened - PreRollSec <= received[k].pts
               PROVE  received[k] \in ToSet(d.frames)
    BY DEF Covered
  <1>1. /\ Len(received) \in Nat /\ Len(c.frames) \in Nat /\ Len(c.frames) <= Len(received)
        /\ c.frames \in Seq(Packet) /\ c.opened \in Nat /\ received[k].pts \in Nat
    BY ClipFields, LenProperties, ElementOfSeq, PacketFields DEF Core, Types, EndsAt
  <1>2. ~(k \in 1..Len(received) - Len(c.frames))
    BY <1>1, PreRollAssumption
  <1> DEFINE j == k - (Len(received) - Len(c.frames))
  <1>3. j \in 1..Len(c.frames) /\ Len(received) - Len(c.frames) + j = k
    <2>1. k \in Nat /\ k > Len(received) - Len(c.frames) /\ k <= Len(received)
      BY <1>1, <1>2
    <2> DEFINE all == Len(received)
               own == Len(c.frames)
    <2>2. all \in Nat /\ own \in Nat /\ k > all - own /\ k <= all
      BY <1>1, <2>1
    <2> HIDE DEF all, own
    <2>3. k - (all - own) \in 1..own /\ all - own + (k - (all - own)) = k
      BY <2>1, <2>2
    <2> QED BY <2>3 DEF all, own
  <1>4. c.frames[j] = received[k] /\ j \in DOMAIN c.frames
    BY <1>1, <1>3, LenProperties DEF EndsAt
  <1> QED BY <1>4 DEF ToSet

(* The clips announced so far stay covered when another is announced. *)
LEMMA AnnouncedCovers ==
  ASSUME Core, setup.mode = "event", Covering, NEW c \in Clip, CloseClip(c), UNCHANGED received,
         EndsAt(c.frames, Len(received)),
         \A k \in 1..Len(received) - Len(c.frames) : received[k].pts < c.opened - PreRollSec
  PROVE  \A i \in 1..Len(saved') : Covered(saved[i])'
  <1>1. PICK d \in Clip :
            /\ d.frames = c.frames /\ d.opened = c.opened
            /\ Len(saved) \in Nat /\ Len(saved') = Len(saved) + 1
            /\ saved'[Len(saved')] = d
            /\ \A i \in 1..Len(saved) : saved'[i] = saved[i]
    BY Announced DEF Core
  <1>2. Covered(d)
    BY <1>1, ClosedCovers
  <1>3. ASSUME NEW i \in 1..Len(saved')
        PROVE  Covered(saved[i])'
    <2>1. i \in 1..Len(saved) \/ i = Len(saved')
      BY <1>1
    <2>2. Covered(saved'[i])
      BY <1>1, <1>2, <2>1 DEF Covering
    <2> QED BY <2>2 DEF Covered
  <1> QED BY <1>3

(* Nothing is received at the start. *)
LEMMA InitCovering == Init => Covering
  <1> SUFFICES ASSUME Init PROVE Covering
    OBVIOUS
  <1>1. ~Recording /\ Len(saved) = 0 /\ Len(received) = 0 /\ Len(buffer) = 0
    BY EmptySeq DEF Init, Recording
  <1> QED BY <1>1 DEF Covering

(* A packet that arrives is too late for the closed clips; what it pushes out of the   *)
(* buffer is too old for the next.                                                      *)
LEMMA CoveringBegin ==
  ASSUME Core, Core', MaxBufferConfig # PreRollSec, setup.mode = "event", Covering,
         NEW kind \in setup.kinds, NEW step \in setup.steps, BeginFrame(kind, step)
  PROVE  Covering'
  <1>1. /\ frame = NoPacket /\ frame' # NoPacket /\ frame' \in Packet
        /\ received' = Append(received, frame')
        /\ UNCHANGED <<setup, running, recorder>> /\ running
    BY Arrival, PacketFields DEF Core, BeginFrame, MtxFree, gate
  <1>2. Arrives
    BY <1>1 DEF Arrives
  <1>3. /\ Handled = Len(received) /\ Handled' = Len(received) /\ Len(received) \in Nat
        /\ Len(received') = Len(received) + 1
        /\ Now \in Nat /\ Now' = frame'.pts /\ Now <= frame'.pts /\ frame'.pts \in Nat
    BY <1>2, ArriveHandled
  <1>4. /\ \A k \in 1..Len(received) : received'[k] = received[k]
        /\ received'[Len(received')] = frame'
    BY <1>1, AppendProperties DEF Core, Types
  <1>5. \A k \in 1..Len(received') - Len(buffer') : received'[k].pts < Now' - PreRollSec
    BY <1>3, BufferStep DEF Covering
  <1>6. Recording' => \A k \in 1..Handled' - Len(clip'.frames) :
                          received'[k].pts < clip'.opened - PreRollSec
    <2> SUFFICES ASSUME Recording', NEW k \in 1..Handled' - Len(clip'.frames)
                 PROVE  received'[k].pts < clip'.opened - PreRollSec
      OBVIOUS
    <2>1. Recording /\ clip' = clip
      BY <1>1 DEF Recording, recorder
    <2>2. k \in 1..Len(received) /\ k \in 1..Handled - Len(clip.frames)
      BY <1>3, <2>1, OpenFrames
    <2> QED BY <1>4, <2>1, <2>2 DEF Covering
  <1>7. ASSUME NEW i \in 1..Len(saved')
        PROVE  /\ saved'[i] = saved[i] /\ i \in 1..Len(saved)
               /\ saved[i].until + PostRollSec \in Int
    <2>1. saved' = saved
      BY <1>1 DEF recorder
    <2>2. saved[i] \in Clip
      BY <2>1, ElementOfSeq DEF Core, Types
    <2> QED BY <2>1, <2>2, ClipFields, StoreAssumption
  <1>8. \A i \in 1..Len(saved') : saved'[i].until + PostRollSec < Now'
    BY <1>1, <1>3, <1>7 DEF Covering
  <1>9. ASSUME NEW i \in 1..Len(saved')
        PROVE  Covered(saved[i])'
    <2> SUFFICES ASSUME NEW k \in 1..Len(received'),
                        saved'[i].opened - PreRollSec <= received'[k].pts,
                        received'[k].pts <= saved'[i].until + PostRollSec
                 PROVE  received'[k] \in ToSet(saved'[i].frames)
      BY DEF Covered
    <2>1. k \in 1..Len(received) \/ k = Len(received')
      BY <1>3
    <2>2. CASE k \in 1..Len(received)
      BY <1>4, <1>7, <2>2 DEF Covering, Covered
    <2>3. CASE k = Len(received')
      BY <1>3, <1>4, <1>7, <1>8, <2>3
    <2> QED BY <2>1, <2>2, <2>3
  <1> QED BY <1>5, <1>6, <1>8, <1>9 DEF Covering

(* The packet in work is added to the open clip, which may end with it. *)
LEMMA CoveringWrite ==
  ASSUME Core, Core', setup.mode = "event", Covering, WriteFrame
  PROVE  Covering'
  <1>1. Writes /\ frame # NoPacket /\ UNCHANGED <<setup, running, received, buffer, lastTrigger>>
    BY DEF WriteFrame, Writes, gate
  <1>2. /\ Handled = Len(received) - 1 /\ Handled' = Len(received) /\ Len(received) \in Nat
        /\ frame = received[Len(received)] /\ frame \in Packet /\ Now' = Now /\ running
    BY <1>1, WriteHandled DEF Now, Core, Feed
  <1>3. CASE ~Recording
    <2>1. UNCHANGED <<clip, saved>> /\ ~Recording'
      BY <1>3 DEF WriteFrame, Recording
    <2> QED BY <1>1, <1>2, <2>1 DEF Covering, Covered
  <1>4. CASE Recording
    <2> DEFINE written == [ApplyPending(clip) EXCEPT !.frames = Append(@, frame),
                                                     !.known = clip.token \in answered]
    <2>1. \/ CloseClip(written) /\ clip' = NoClip /\ PostRollOver(frame)
          \/ clip' = written /\ UNCHANGED saved
      BY <1>4 DEF WriteFrame
    <2>2. /\ written \in Clip /\ written.opened = clip.opened
          /\ written.frames = Append(clip.frames, frame)
      BY <1>1, <1>4, Written DEF Core
    <2> HIDE DEF written
    <2>3. Len(written.frames) = Len(clip.frames) + 1 /\ Len(clip.frames) \in Nat
      BY <1>2, <1>4, <2>2, OpenFrames, AppendProperties
    <2>4. \A k \in 1..Len(received) - Len(written.frames) :
              received[k].pts < written.opened - PreRollSec
      <3>1. Len(received) - Len(written.frames) = Handled - Len(clip.frames)
        BY <1>2, <2>3
      <3> QED BY <1>4, <2>2, <3>1 DEF Covering
    <2>5. CASE clip' = written /\ UNCHANGED saved
      <3>1. Recording' => \A k \in 1..Handled' - Len(clip'.frames) :
                              received'[k].pts < clip'.opened - PreRollSec
        BY <1>1, <1>2, <2>4, <2>5
      <3> QED BY <1>1, <1>2, <2>5, <3>1 DEF Covering, Covered
    <2>6. CASE CloseClip(written) /\ clip' = NoClip /\ PostRollOver(frame)
      <3>1. EndsAt(written.frames, Len(received))
        <4>1. Len(written.frames) <= Len(received)
          BY <1>2, <1>4, <2>3 DEF Core, Seams, EndsAt
        <4>2. ASSUME NEW j \in 1..Len(written.frames)
              PROVE  written.frames[j] = received[Len(received) - Len(written.frames) + j]
          <5>1. /\ \A m \in 1..Len(clip.frames) : written.frames[m] = clip.frames[m]
                /\ written.frames[Len(clip.frames) + 1] = frame
            BY <1>2, <1>4, <2>2, OpenFrames, AppendProperties
          <5>2. CASE j \in 1..Len(clip.frames)
            <6>1. clip.frames[j] = received[Handled - Len(clip.frames) + j]
              BY <1>4, <5>2 DEF Core, Seams, EndsAt
            <6>2. Handled - Len(clip.frames) + j = Len(received) - Len(written.frames) + j
              BY <1>2, <2>3
            <6> QED BY <5>1, <5>2, <6>1, <6>2
          <5>3. CASE j = Len(clip.frames) + 1
            <6>1. Len(written.frames) = j /\ j \in Nat
              BY <2>3, <5>3
            <6>2. Len(received) - Len(written.frames) + j = Len(received)
              BY <1>2, <6>1
            <6> QED BY <1>2, <5>1, <5>3, <6>2
          <5>4. j \in 1..Len(clip.frames) \/ j = Len(clip.frames) + 1
            BY <2>3
          <5> QED BY <5>2, <5>3, <5>4
        <4> QED BY <4>1, <4>2 DEF EndsAt
      <3>2. \A i \in 1..Len(saved') : Covered(saved[i])'
        BY <1>1, <2>2, <2>4, <2>6, <3>1, AnnouncedCovers
      <3>3. ASSUME NEW i \in 1..Len(saved')
            PROVE  saved'[i].until + PostRollSec < Now'
        <4>1. PICK d \in Clip :
                  /\ d.until = lastTrigger
                  /\ Len(saved) \in Nat /\ Len(saved') = Len(saved) + 1
                  /\ saved'[Len(saved')] = d
                  /\ \A m \in 1..Len(saved) : saved'[m] = saved[m]
          BY <2>2, <2>6, Announced DEF Core
        <4>2. CASE i \in 1..Len(saved)
          BY <1>2, <4>1, <4>2 DEF Covering
        <4>3. CASE i = Len(saved')
          <5>1. Now = frame.pts /\ frame.pts \in Nat
            <6>1. received # << >>
              BY <1>1 DEF Core, Feed
            <6> QED BY <1>2, <6>1, PacketFields DEF Now, Last
          <5>2. frame.pts - lastTrigger > PostRollSec /\ lastTrigger \in Nat
            BY <2>6 DEF PostRollOver, Core, Types
          <5> QED BY <1>2, <4>1, <4>3, <5>1, <5>2, StoreAssumption
        <4> QED BY <4>1, <4>2, <4>3
      <3>4. ~Recording'
        BY <2>6 DEF Recording
      <3> QED BY <1>1, <1>2, <3>2, <3>3, <3>4 DEF Covering
    <2> QED BY <2>1, <2>5, <2>6
  <1> QED BY <1>3, <1>4

(* A clip opens with the buffer: what is not in it is older than the pre-roll. *)
LEMMA CoveringTrigger ==
  ASSUME Core, Core', setup.mode = "event", Covering, Trigger
  PROVE  Covering'
  <1> DEFINE now == IF buffer = << >> THEN LastPts(clip) ELSE Last(buffer).pts
  <1>1. /\ frame = NoPacket
        /\ UNCHANGED <<setup, running, buffer, frame, received, saved>>
        /\ UNCHANGED clip \/ (~Recording /\ OpenRecording("trigger", buffer, now))
    BY DEF Trigger, TakesMtx, MtxFree
  <1>2. Handled = Len(received) /\ Handled' = Len(received) /\ Now' = Now
    BY <1>1 DEF Handled, MtxFree, Now
  <1>3. CASE UNCHANGED clip
    BY <1>1, <1>2, <1>3 DEF Covering, Covered, Recording
  <1>4. buffer # << >> => now = Now
    <2> SUFFICES ASSUME buffer # << >> PROVE Last(buffer).pts = Now
      OBVIOUS
    <2>1. /\ Len(buffer) \in 1..Len(buffer) /\ Len(buffer) <= Len(received)
          /\ Len(received) \in Nat
          /\ buffer[Len(buffer)] = received[Len(received) - Len(buffer) + Len(buffer)]
      <3>1. Len(buffer) \in 1..Len(buffer)
        BY EmptySeq DEF Core, Types
      <3> QED BY <3>1, LenProperties DEF Core, Types, Seams, EndsAt
    <2>2. received # << >> /\ Len(received) - Len(buffer) + Len(buffer) = Len(received)
      BY <2>1, EmptySeq
    <2> QED BY <2>1, <2>2 DEF Now, Last
  <1> HIDE DEF now
  <1>5. CASE ~Recording /\ Starts("trigger", buffer, now)
    <2>1. clip'.frames = buffer /\ clip'.opened = now
      BY <1>5 DEF Starts, Fresh
    <2>2. ASSUME NEW k \in 1..Handled' - Len(clip'.frames)
          PROVE  received'[k].pts < clip'.opened - PreRollSec
      <3>1. k \in 1..Len(received) - Len(buffer) /\ Len(buffer) \in Nat /\ Len(received) \in Nat
        BY <1>2, <2>1, LenProperties DEF Core, Types
      <3>2. received # << >>
        BY <3>1, EmptySeq
      <3>3. now = Now
        BY <1>4, <3>2 DEF Core, Seams
      <3> QED BY <1>1, <2>1, <3>1, <3>3 DEF Covering
    <2> QED BY <1>1, <1>2, <2>2 DEF Covering, Covered
  <1>6. CASE ~Recording /\ StaysClosed
    <2>1. UNCHANGED clip
      BY <1>6 DEF StaysClosed, Recording
    <2> QED BY <1>3, <2>1
  <1> QED BY <1>1, <1>3, <1>5, <1>6, OpenEffect

(* The stop announces a clip that holds all since its pre-roll. *)
LEMMA CoveringStop ==
  ASSUME Core, Core', setup.mode = "event", Covering, StopLocked
  PROVE  Covering'
  <1>1. Stops /\ frame = NoPacket /\ running' = FALSE /\ UNCHANGED <<setup, received, buffer>>
    BY StopStep DEF Stops, StopLocked
  <1>2. Handled = Len(received) /\ Now' = Now
    BY <1>1 DEF Handled, MtxFree, Now
  <1>3. CASE ~Recording
    BY <1>1, <1>2, <1>3 DEF Covering, Covered, Stops
  <1>4. CASE Recording
    <2>1. CloseClip(clip) /\ ~Recording' /\ clip \in Clip
      BY <1>1, <1>4, OpenFrames DEF Stops, Recording
    <2>2. \A i \in 1..Len(saved') : Covered(saved[i])'
      BY <1>1, <1>2, <1>4, <2>1, AnnouncedCovers DEF Covering, Core, Seams
    <2> QED BY <1>1, <1>2, <2>1, <2>2 DEF Covering
  <1> QED BY <1>3, <1>4

(* Every step keeps the clips covered. *)
LEMMA CoveringStep ==
  ASSUME Core, Core', MaxBufferConfig # PreRollSec, Covering, [Next]_vars
  PROVE  Covering'
  <1> SUFFICES ASSUME setup'.mode = "event" PROVE Covering'
    BY DEF Covering
  <1>0. setup.mode = "event"
    BY SetupKept
  <1>1. CASE QuietAction
    <2>1. UNCHANGED <<setup, buffer, clip, saved, received, frame>> /\ (running' => running)
      BY <1>1 DEF QuietAction, MetadataArrives, TriggerArrives, Enters, StreamMetadata,
                  AssignRecording, Stop, vars, gate, recorder
    <2> QED BY <1>0, <2>1 DEF Covering, Covered, Recording, Now, Handled, MtxFree
  <1> QED BY <1>0, <1>1, CoveringBegin, CoveringWrite, CoveringTrigger, CoveringStop
          DEF Next, QuietAction
-----------------------------------------------------------------------------
(* The buffer changes only when a packet arrives, and is then trimmed. *)
LEMMA SpanStep ==
  ASSUME Core, Core', SpanBounded, [Next]_vars
  PROVE  SpanBounded'
  <1>1. CASE UNCHANGED <<buffer, received>>
    BY <1>1 DEF SpanBounded, KeysReceived, Now
  <1>2. ASSUME NEW kind \in setup.kinds, NEW step \in setup.steps, BeginFrame(kind, step)
        PROVE  SpanBounded'
    <2>1. CASE setup.mode # "event"
      BY <1>2, <2>1 DEF BeginFrame, Core, Seams, SpanBounded
    <2>2. CASE setup.mode = "event"
      <3> DEFINE B == Len(buffer')
                 L == Len(received')
                 lastKey == IF KeysReceived' = {} THEN Head(received')
                                                  ELSE received'[Max(KeysReceived')]
      <3>1. /\ buffer' \in Seq(Packet) /\ buffer' # << >> /\ B \in Nat /\ B <= L
            /\ \A j \in 1..B : buffer'[j] = received'[L - B + j]
            /\ \/ frame'.pts - buffer'[1].pts <= MaxBufferSec
               \/ \A j \in 2..B : ~IsKey(buffer'[j])
        BY <1>2, <2>2, BufferStep
      <3>2. /\ received' \in Seq(Packet) /\ L \in Nat /\ Now' = frame'.pts
            /\ frame'.pts \in Nat
        <4>1. Arrives
          BY <1>2, Arrival, PacketFields DEF Core, BeginFrame, MtxFree, gate, Arrives
        <4> QED BY <4>1, ArriveHandled, LenProperties DEF Core, Types
      <3>3. 1 \in 1..B /\ 1 \in 1..L /\ L - B + 1 \in 1..L /\ received' # << >>
        BY <3>1, <3>2, EmptySeq
      <3>4. Head(received') = received'[1] /\ Head(buffer') = buffer'[1]
        BY <3>1, <3>2, <3>3
      <3>5. buffer'[1] = received'[L - B + 1] /\ buffer'[1].pts \in Nat
        <4>1. buffer'[1] \in Packet
          BY <3>1, <3>3, ElementOfSeq
        <4> QED BY <3>1, <3>3, <4>1, PacketFields
      <3>6. KeysReceived' # {} => Max(KeysReceived') \in KeysReceived'
        <4>1. KeysReceived' \subseteq 0..L
          BY <3>2 DEF KeysReceived
        <4> QED BY <3>2, <4>1, MaxExists
      <3>7. \E k \in 1..L : lastKey = received'[k]
        BY <3>3, <3>4, <3>6 DEF KeysReceived
      <3>8. lastKey.pts \in Nat
        BY <3>2, <3>7, ElementOfSeq, PacketFields
      <3>9. (\A j \in 2..B : ~IsKey(buffer'[j])) => lastKey.pts <= buffer'[1].pts
        <4> SUFFICES ASSUME \A j \in 2..B : ~IsKey(buffer'[j])
                     PROVE  lastKey.pts <= buffer'[1].pts
          OBVIOUS
        <4>1. CASE KeysReceived' = {}
          BY <3>2, <3>3, <3>4, <3>5, <4>1 DEF Core, Feed
        <4>2. CASE KeysReceived' # {}
          <5> DEFINE m == Max(KeysReceived')
          <5>1. m \in 1..L /\ IsKey(received'[m])
            BY <3>6, <4>2 DEF KeysReceived
          <5> HIDE DEF m
          <5>2. m <= L - B + 1
            <6> SUFFICES ASSUME m > L - B + 1 PROVE FALSE
              BY <3>1, <3>2, <5>1
            <6>1. m - (L - B) \in 2..B /\ L - B + (m - (L - B)) = m
                  /\ m - (L - B) \in 1..B
              BY <3>1, <3>2, <5>1
            <6> QED BY <3>1, <5>1, <6>1
          <5>3. received'[m].pts <= received'[L - B + 1].pts
            BY <3>3, <5>1, <5>2 DEF Core, Feed
          <5> QED BY <3>5, <4>2, <5>3 DEF m
        <4> QED BY <4>1, <4>2
      <3> HIDE DEF lastKey
      <3>10. Now' - Head(buffer').pts <= Max({MaxBufferSec, Now' - lastKey.pts})
        <4> DEFINE pair == {MaxBufferSec, Now' - lastKey.pts}
        <4>1. lastKey.pts <= Now'
          <5>1. L \in 1..L /\ received'[L] = frame'
            <6>1. /\ received' = Append(received, frame') /\ received \in Seq(Packet)
                  /\ frame' \in Packet /\ Len(received) \in Nat
              BY <1>2, Arrival DEF Core, Types
            <6>2. L = Len(received) + 1 /\ received'[Len(received) + 1] = frame'
              BY <6>1, AppendProperties
            <6> QED BY <6>1, <6>2
          <5> QED BY <3>2, <3>7, <5>1 DEF Core, Feed
        <4>2. /\ MaxBufferSec \in 0..MaxBufferSec + Now' /\ MaxBufferSec + Now' \in Nat
              /\ Now' - lastKey.pts \in 0..MaxBufferSec + Now'
          BY <3>2, <3>8, <4>1, WindowLong
        <4>3. Max(pair) \in pair /\ \A y \in pair : Max(pair) >= y
          BY <4>2, MaxExists
        <4> HIDE DEF pair
        <4>4. /\ Max(pair) \in Int /\ Max(pair) >= MaxBufferSec /\ Max(pair) >= Now' - lastKey.pts
          BY <4>2, <4>3 DEF pair
        <4>5. Now' - Head(buffer').pts <= Max(pair)
          <5>1. \/ frame'.pts - buffer'[1].pts <= MaxBufferSec
                \/ lastKey.pts <= buffer'[1].pts
            BY <3>1, <3>9
          <5>2. MaxBufferSec \in Nat
            BY WindowLong
          <5> DEFINE now == Now'
                     m == Max(pair)
                     first == buffer'[1].pts
                     due == lastKey.pts
                     bound == MaxBufferSec
          <5>3. now \in Nat /\ first \in Nat /\ due \in Nat /\ bound \in Nat /\ m \in Int
            BY <3>2, <3>5, <3>8, <4>4, <5>2
          <5>4. bound <= m /\ now - due <= m /\ (now - first <= bound \/ due <= first)
            BY <3>2, <4>4, <5>1, <5>3
          <5>5. Head(buffer').pts = first
            BY <3>4
          <5> HIDE DEF now, m, first, due, bound
          <5>6. now - first <= m
            BY <5>3, <5>4
          <5> QED BY <5>5, <5>6 DEF now, m
        <4> QED BY <4>5 DEF pair
      <3> QED BY <3>10 DEF lastKey, SpanBounded
    <2> QED BY <2>1, <2>2
  <1> QED BY <1>1, <1>2
          DEF Next, vars, recorder, WriteFrame, MetadataArrives, TriggerArrives, Enters,
              StreamMetadata, Trigger, AssignRecording, Stop, StopLocked
-----------------------------------------------------------------------------
(* The first packet stays the first. *)
LEMMA ClockKept ==
  ASSUME Core, [Next]_vars
  PROVE  ClockSet' => ClockSet
  <1> SUFFICES ASSUME ClockSet', received # << >>
               PROVE  received[1].pts # 0
    BY DEF ClockSet
  <1>1. CASE UNCHANGED received
    BY <1>1 DEF ClockSet
  <1>2. ASSUME NEW kind \in setup.kinds, NEW step \in setup.steps, BeginFrame(kind, step)
        PROVE  received[1].pts # 0
    <2>1. frame' \in Packet /\ received' = Append(received, frame') /\ received \in Seq(Packet)
      BY <1>2, Arrival DEF Core, Types
    <2>2. 1 \in 1..Len(received)
      BY <2>1, EmptySeq
    <2>3. received'[1] = received[1] /\ received' # << >>
      BY <2>1, <2>2, AppendProperties
    <2> QED BY <2>3 DEF ClockSet
  <1> QED BY <1>1, <1>2
          DEF Next, vars, recorder, WriteFrame, MetadataArrives, TriggerArrives, Enters,
              StreamMetadata, Trigger, AssignRecording, Stop, StopLocked

(* Recording in segments (store.cpp:4-5, 724-735): every announced segment starts with a *)
(* keyframe; if no open fails, no packet is lost between two segments or after the last  *)
(* one; and segments rotate at the first keyframe max_secs after their start.  The last  *)
(* needs the clock to be set when the first packet arrives: start_ts = 0 stands for "no  *)
(* packet written yet" (store.cpp:419, 434, 731), so a segment would count from its second.     *)
THEOREM SegmentsKept ==
  Spec => [](SegmentsDecodable /\ EverythingRecorded /\ (ClockSet => RotatesOnTime))
  <1>1. Init => Decodable /\ Gapless /\ (ClockSet => OnTime)
    BY InitSegments
  <1>2. /\ Core /\ Core' /\ Decodable /\ Gapless /\ (ClockSet => OnTime) /\ [Next]_vars
        => (Decodable /\ Gapless /\ (ClockSet => OnTime))'
    <2> SUFFICES ASSUME Core, Core', Decodable, Gapless, ClockSet => OnTime, [Next]_vars
                 PROVE  (Decodable /\ Gapless /\ (ClockSet => OnTime))'
      OBVIOUS
    <2>1. ClockSet' => ClockSet
      BY ClockKept
    <2> QED BY <2>1, DecodableStep, GaplessStep, OnTimeStep
  <1>3. Core /\ Decodable /\ Gapless /\ (ClockSet => OnTime)
        => SegmentsDecodable /\ EverythingRecorded /\ (ClockSet => RotatesOnTime)
    BY DecodableImplies, GaplessImplies, OnTimeImplies
  <1> QED BY <1>1, <1>2, <1>3, CoreAlways, PTL DEF Spec

(* Recording of events (store.cpp:7-9): an announced clip holds every packet received     *)
(* from pre_roll_sec before it was opened to post_roll_sec after its last trigger.  Not   *)
(* so if the configured cap is the pre-roll itself: then buffer_append's alignment may    *)
(* drop packets exactly pre_roll_sec old (store.cpp:278 compares with <=).                *)
THEOREM EventsCovered ==
  ASSUME MaxBufferConfig # PreRollSec
  PROVE  Spec => []EventCovered
  <1>1. Core /\ Core' /\ Covering /\ [Next]_vars => Covering'
    BY CoveringStep
  <1>2. Covering => EventCovered
    BY DEF Covering, Covered, EventCovered
  <1> QED BY <1>1, <1>2, InitCovering, CoreAlways, PTL DEF Spec

(* The rolling buffer is bounded (store.cpp:113, 289-303): it spans more than the cap     *)
(* only while the camera sends no keyframe, and then starts no earlier than the last.     *)
THEOREM BufferBounded == Spec => []SpanBounded
  <1>1. Init => SpanBounded
    BY DEF Init, SpanBounded
  <1>2. Core /\ Core' /\ SpanBounded /\ [Next]_vars => SpanBounded'
    BY SpanStep
  <1> QED BY <1>1, <1>2, CoreAlways, PTL DEF Spec
===============================================================================
