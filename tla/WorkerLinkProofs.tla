--------------------------- MODULE WorkerLinkProofs ---------------------------
(***************************************************************************)
(* What the worker link promises its consumers, for any number of them, of *)
(* descriptors, messages and reconfigurations, and any queue limit.        *)
(*                                                                         *)
(* The promises speak of the last Hello before a message, so they are not  *)
(* inductive: that a reconfiguration keeps them depends on what is cached. *)
(* Inv says of the sequence each live consumer has received or is to       *)
(* receive (its view) that                                                 *)
(*   - its media are numbered below the link's counters, so that the next  *)
(*     number is new to every consumer, whatever it missed (Numbered);     *)
(*   - the last it was told of a topic is what the link caches (Told), and *)
(*     the caches are of the current generation (Caches), so that the next *)
(*     media message is covered by the last Hello.                         *)
(* enqueue drops messages in the middle of a view, and stop() inserts one; *)
(* lemma Mapped says which changes of a view these properties survive, and *)
(* lemma Pieces that writing moves messages without changing the view.     *)
(*                                                                         *)
(* That a partly written message is finished is a property of steps: every *)
(* step but stop() lets a consumer's view continue (Continued), that is,   *)
(* keeps what is on the wire or in part on it.                             *)
(* So is that control messages are never dropped: the map of each step     *)
(* keeps them all, in their order, hence the rank of each.                 *)
(***************************************************************************)
EXTENDS WorkerLink, Extrema, SequenceTheorems

Bodies == {None} \cup UNION {e.params \cup e.kinds : e \in Setups}

(* What the link sends; what announces something is never dropped. *)
Messages == {m \in [type : {"Hello", "Media", "Keyframe", "Event", "Stats", "Response", "Bye"},
                    stream : Streams \cup {"monitor"}, seq : Nat, gen : Nat, ctl : BOOLEAN,
                    body : Bodies] :
                 /\ m.type \in {"Hello", "Event"} => m.ctl
                 /\ m.type \in {"Media", "Keyframe"} => m.stream \in Streams}

Client == [conn : Conns \cup {0}, queue : Seq(Messages), off : {0, 1}, video : BOOLEAN,
           audio : BOOLEAN, events : BOOLEAN, dead : BOOLEAN, dropped : Nat,
           wire : Seq(Messages)]

(* View, of any client. *)
ViewOf(cl) == cl.wire \o cl.queue
Listens(cl) == cl.conn # 0 /\ ~cl.dead

-----------------------------------------------------------------------------
(* What is true of the messages a consumer sees. *)

Topics == {"video", "audio", "health"}
Tells(k, m) == IF k = "health" THEN IsHealth(m) ELSE IsHello(k, m)

(* m is the last that is said of topic k; NoMsg: nothing is. *)
Latest(v, k, m) ==
    IF m = NoMsg THEN \A i \in 1..Len(v) : ~Tells(k, v[i])
    ELSE \E h \in 1..Len(v) : /\ v[h] = m /\ Tells(k, m)
                              /\ \A i \in h + 1..Len(v) : ~Tells(k, v[i])

(* Where topic k is spoken of. *)
Telling(v, k) == {i \in 1..Len(v) : Tells(k, v[i])}

Told(v, now) == \A k \in Topics : Latest(v, k, now[k])

(* Media are numbered below the counters sq of the current generation g. *)
Numbered(v, g, sq) ==
    \A i \in 1..Len(v) : IsMedia(v[i]) =>
        v[i].gen < g \/ (v[i].gen = g /\ v[i].seq < sq[v[i].stream])

Growing(v) ==
    \A i, j \in 1..Len(v) :
        (i < j /\ IsMedia(v[i]) /\ IsMedia(v[j]) /\ v[i].stream = v[j].stream
           /\ v[i].gen = v[j].gen) => v[i].seq < v[j].seq

(* The last Hello before a media message is of its generation. *)
Covered(v) ==
    \A h, i \in 1..Len(v) :
        (h < i /\ IsMedia(v[i]) /\ IsHello(v[i].stream, v[h])
           /\ \A k \in h + 1..i - 1 : ~IsHello(v[i].stream, v[k])) => v[h].gen = v[i].gen

Sound(v, g, sq) == v \in Seq(Messages) /\ Numbered(v, g, sq) /\ Growing(v) /\ Covered(v)

(* A partial write has a message to finish. *)
Partly(cl) == cl.off = 1 => cl.queue # << >>

Served(cl, g, sq, now) ==
    Partly(cl) /\ (Listens(cl) => Sound(ViewOf(cl), g, sq) /\ Told(ViewOf(cl), now))

AllSound(cls, g, sq, now) ==
    cls \in [Fds -> Client] /\ \A fd \in Fds : Served(cls[fd], g, sq, now)

(* What consumers are told at present. *)
Now == [k \in Topics |-> IF k = "health" THEN snapshot ELSE hello[k]]

Caches ==
    /\ env \in Setups
    /\ generation \in Nat /\ eventSeq \in Nat /\ sequence \in [Streams -> Nat]
    /\ hello \in [Streams -> Messages \cup {NoMsg}]
    /\ \A s \in Streams : hello[s] # NoMsg =>
           IsHello(s, hello[s]) /\ hello[s].gen = generation
    /\ snapshot # NoMsg => snapshot \in Messages /\ IsHealth(snapshot)
    /\ keyframe # NoMsg => /\ keyframe \in Messages /\ keyframe.type = "Keyframe"
                           /\ keyframe.stream = "video" /\ keyframe.gen = generation
                           /\ keyframe.seq < sequence["video"]

Consumers ==
    /\ inbox \in [Conns -> Requests]
    /\ conn \in [Conns -> {"none", "pending", "accepted", "closed"}]
    /\ lpc = "accept" /\ backlog => Pending # {}

Inv == Caches /\ Consumers /\ AllSound(clients, generation, sequence, Now)
-----------------------------------------------------------------------------
(* What matters in w stands in v, in this order and at f, and nothing announced is lost. *)
Relevant(m) == m.type \in {"Hello", "Event", "Media", "Keyframe"}
Follows(v, w, f) ==
    /\ \A i \in 1..Len(w) : Relevant(w[i]) => f[i] \in 1..Len(v) /\ v[f[i]] = w[i]
    /\ \A i, j \in 1..Len(w) :
           (i < j /\ Relevant(w[i]) /\ Relevant(w[j])) => f[i] < f[j]
    /\ \A j \in 1..Len(v) : v[j].type \in {"Hello", "Event"} =>
           \E i \in 1..Len(w) : w[i] = v[j] /\ f[i] = j

(* Whatever is true of v is true of w. *)
NoWorse(v, w) == /\ \A g, sq : Sound(v, g, sq) => Sound(w, g, sq)
                 /\ \A k \in Topics : \A m : Latest(v, k, m) => Latest(w, k, m)

(* What a consumer sees may lose media and gain what is not relevant. *)
LEMMA Mapped ==
  ASSUME NEW v \in Seq(Messages), NEW w \in Seq(Messages), NEW f, Follows(v, w, f)
  PROVE  NoWorse(v, w)
  <1> USE DEF Follows, Relevant
  <1>1. Len(v) \in Nat /\ Len(w) \in Nat
    BY LenProperties
  <1>2. ASSUME NEW g, NEW sq, Sound(v, g, sq)
        PROVE  Sound(w, g, sq)
    <2>1. Numbered(w, g, sq)
      BY <1>1, <1>2 DEF Sound, Numbered, IsMedia
    <2>2. Growing(w)
      <3> SUFFICES ASSUME NEW i \in 1..Len(w), NEW j \in 1..Len(w),
                          i < j, IsMedia(w[i]), IsMedia(w[j]),
                          w[i].stream = w[j].stream, w[i].gen = w[j].gen
                   PROVE  w[i].seq < w[j].seq
        BY DEF Growing
      <3>1. PICK x \in 1..Len(v), y \in 1..Len(v) : v[x] = w[i] /\ v[y] = w[j] /\ x < y
        BY DEF IsMedia
      <3>2. Growing(v)
        BY <1>2 DEF Sound
      <3>3. /\ IsMedia(v[x]) /\ IsMedia(v[y]) /\ x < y
            /\ v[x].stream = v[y].stream /\ v[x].gen = v[y].gen
        BY <3>1
      <3> HIDE DEF Follows, Relevant
      <3>4. v[x].seq < v[y].seq
        BY <3>2, <3>3 DEF Growing
      <3> QED BY <3>1, <3>4
    <2>3. Covered(w)
      <3> SUFFICES ASSUME NEW h \in 1..Len(w), NEW i \in 1..Len(w),
                          h < i, IsMedia(w[i]), IsHello(w[i].stream, w[h]),
                          \A k \in h + 1..i - 1 : ~IsHello(w[i].stream, w[k])
                   PROVE  w[h].gen = w[i].gen
        BY DEF Covered
      <3>1. PICK x \in 1..Len(v), y \in 1..Len(v) :
                /\ x = f[h] /\ v[x] = w[h]
                /\ y = f[i] /\ v[y] = w[i] /\ x < y
        BY DEF IsMedia, IsHello
      <3>2. ASSUME NEW k \in x + 1..y - 1, IsHello(v[y].stream, v[k])
            PROVE  FALSE
        <4>1. k \in 1..Len(v)
          BY <1>1
        <4>2. PICK j \in 1..Len(w) : w[j] = v[k] /\ f[j] = k
          BY <3>2, <4>1 DEF IsHello
        <4>3. (j < h => f[j] < f[h]) /\ (i < j => f[i] < f[j])
          BY <3>2, <4>2 DEF IsHello, IsMedia
        <4>4. ~(j < h) /\ ~(i < j) /\ j # h /\ j # i
          <5> HIDE DEF IsHello
          <5> QED BY <3>1, <4>1, <4>2, <4>3
        <4>5. j \in h + 1..i - 1
          BY <1>1, <4>4
        <4> QED BY <3>1, <3>2, <4>2, <4>5
      <3>3. IsMedia(v[y]) /\ IsHello(v[y].stream, v[x])
        BY <3>1
      <3>4. v[x].gen = v[y].gen
        <4>1. Covered(v)
          BY <1>2 DEF Sound
        <4>2. \A k \in x + 1..y - 1 : ~IsHello(v[y].stream, v[k])
          BY <3>2
        <4>3. x < y
          BY <3>1
        <4> HIDE DEF IsHello, IsMedia, Follows, Relevant
        <4> QED BY <3>3, <4>1, <4>2, <4>3 DEF Covered
      <3> QED BY <3>1, <3>4
    <2> QED BY <2>1, <2>2, <2>3 DEF Sound
  <1>3. ASSUME NEW k \in Topics, NEW m, Latest(v, k, m)
        PROVE  Latest(w, k, m)
    <2>1. ASSUME NEW i \in 1..Len(w), Tells(k, w[i])
          PROVE  f[i] \in 1..Len(v) /\ v[f[i]] = w[i] /\ w[i].type \in {"Hello", "Event"}
      BY <2>1 DEF Tells, IsHello, IsHealth
    <2>2. CASE m = NoMsg
      BY <1>3, <2>1, <2>2 DEF Latest
    <2>3. CASE m # NoMsg
      <3>1. PICK h \in 1..Len(v) : /\ v[h] = m /\ Tells(k, m)
                                   /\ \A i \in h + 1..Len(v) : ~Tells(k, v[i])
        BY <1>3, <2>3 DEF Latest
      <3>2. PICK i \in 1..Len(w) : w[i] = m /\ f[i] = h
        BY <3>1 DEF Tells, IsHello, IsHealth
      <3>3. ASSUME NEW j \in i + 1..Len(w), Tells(k, w[j])
            PROVE  FALSE
        <4>1. j \in 1..Len(w) /\ i < j
          BY <1>1
        <4>2. f[j] \in 1..Len(v) /\ v[f[j]] = w[j] /\ f[i] < f[j]
          BY <2>1, <3>1, <3>2, <3>3, <4>1 DEF Tells, IsHello, IsHealth
        <4>3. f[j] \in h + 1..Len(v)
          BY <1>1, <3>2, <4>2
        <4> QED BY <3>1, <3>3, <4>2, <4>3
      <3> QED BY <2>3, <3>1, <3>2, <3>3 DEF Latest
    <2> QED BY <2>2, <2>3
  <1> QED BY <1>2, <1>3 DEF NoWorse

-----------------------------------------------------------------------------
(* The control messages of v are found in w at f, and nothing comes between them. *)
Places(v, w, f) ==
    /\ \A i \in Controls(v) : f[i] \in Controls(w) /\ w[f[i]] = v[i]
    /\ \A i, j \in Controls(v) : i < j => f[i] < f[j]
    /\ \A i \in Controls(v) : \A j \in Controls(w) :
           j <= f[i] => \E k \in Controls(v) : f[k] = j

LEMMA ToldAt ==
  ASSUME NEW v \in Seq(Messages), NEW w \in Seq(Messages), NEW f, Places(v, w, f)
  PROVE  StillTold(v, w)
  <1> USE DEF Places
  <1>1. Len(v) \in Nat /\ Len(w) \in Nat
    BY LenProperties
  <1>2. Controls(v) \subseteq 1..Len(v) /\ Controls(w) \subseteq 1..Len(w)
    BY DEF Controls
  <1>3. Controls(v) \subseteq Int /\ Controls(w) \subseteq Int
    BY <1>1, <1>2
  <1>4. ASSUME NEW i \in Controls(v)
        PROVE  Rank(w, f[i]) = Rank(v, i)
    <2> DEFINE S == {k \in Controls(v) : k <= i}
               T == {k \in Controls(w) : k <= f[i]}
               g == [k \in S |-> f[k]]
    <2>1. IsFiniteSet(S)
      <3>1. IsFiniteSet(1..Len(v)) /\ S \subseteq 1..Len(v)
        BY <1>1, <1>2, FS_Interval
      <3> QED BY <3>1, FS_Subset
    <2>2. ASSUME NEW k \in S PROVE g[k] \in T
      <3>1. k \in Controls(v) /\ (k = i \/ k < i)
        BY <1>3
      <3>2. f[k] \in Controls(w) /\ f[i] \in Controls(w)
        BY <1>4, <3>1
      <3>3. f[k] = f[i] \/ f[k] < f[i]
        BY <1>4, <3>1
      <3> QED BY <1>3, <3>2, <3>3
    <2>3. ASSUME NEW k \in S, NEW l \in S, g[k] = g[l] PROVE k = l
      <3>1. k \in Controls(v) /\ l \in Controls(v) /\ k \in Int /\ l \in Int
        BY <1>3
      <3>2. f[k] \in Int /\ f[l] \in Int /\ f[k] = f[l]
        BY <1>3, <2>3, <3>1
      <3>3. ~(k < l) /\ ~(l < k)
        BY <3>1, <3>2
      <3> QED BY <3>1, <3>3
    <2>4. ASSUME NEW j \in T PROVE \E k \in S : g[k] = j
      <3>1. j \in Controls(w) /\ j <= f[i]
        OBVIOUS
      <3>2. PICK k \in Controls(v) : f[k] = j
        BY <1>4, <3>1
      <3>3. k <= i
        <4>1. k \in Int /\ i \in Int /\ f[k] \in Int /\ f[i] \in Int
          BY <1>3, <1>4
        <4>2. ~(i < k)
          BY <1>4, <3>1, <3>2, <4>1
        <4> QED BY <4>1, <4>2
      <3> QED BY <3>2, <3>3
    <2>5. g \in [S -> T]
      BY <2>2
    <2>6. g \in Injection(S, T) /\ g \in Surjection(S, T)
      <3> HIDE DEF g, S, T
      <3> QED BY <2>3, <2>4, <2>5 DEF Injection, Surjection, IsInjective
    <2>7. ExistsBijection(S, T)
      BY <2>6 DEF ExistsBijection, Bijection
    <2> HIDE DEF S, T
    <2>8. Cardinality(T) = Cardinality(S)
      BY <2>1, <2>7, FS_Bijection
    <2> QED BY <2>8 DEF Rank, S, T
  <1> QED BY <1>4 DEF StillTold

(* Being still told is reflexive and transitive. *)
LEMMA StillToldOn ==
  /\ \A v : StillTold(v, v)
  /\ \A u, v, w : StillTold(u, v) /\ StillTold(v, w) => StillTold(u, w)
  <1>1. \A v : StillTold(v, v)
    BY DEF StillTold
  <1>2. ASSUME NEW u, NEW v, NEW w, StillTold(u, v), StillTold(v, w)
        PROVE  StillTold(u, w)
    <2>1. ASSUME NEW i \in Controls(u)
          PROVE  \E k \in Controls(w) : w[k] = u[i] /\ Rank(w, k) = Rank(u, i)
      <3>1. PICK j \in Controls(v) : v[j] = u[i] /\ Rank(v, j) = Rank(u, i)
        BY <1>2, <2>1 DEF StillTold
      <3>2. PICK k \in Controls(w) : w[k] = v[j] /\ Rank(w, k) = Rank(v, j)
        BY <1>2, <3>1 DEF StillTold
      <3> QED BY <3>1, <3>2
    <2> QED BY <2>1 DEF StillTold
  <1> QED BY <1>1, <1>2

(* What is said last takes nothing back. *)
LEMMA ToldMore ==
  ASSUME NEW v \in Seq(Messages), NEW x \in Seq(Messages)
  PROVE  StillTold(v, v \o x)
  <1> DEFINE w == v \o x
             f == [i \in Controls(v) |-> i]
  <1>1. Len(v) \in Nat /\ Len(x) \in Nat
    BY LenProperties
  <1>2. w \in Seq(Messages) /\ Len(w) = Len(v) + Len(x) /\ \A i \in 1..Len(v) : w[i] = v[i]
    BY <1>1, ConcatProperties
  <1> HIDE DEF w
  <1>3. ASSUME NEW i \in 1..Len(v) PROVE i \in 1..Len(w) /\ w[i] = v[i]
    BY <1>1, <1>2
  <1>4. \A i \in Controls(v) : f[i] \in Controls(w) /\ w[f[i]] = v[i]
    BY <1>3 DEF Controls
  <1>5. ASSUME NEW i \in Controls(v), NEW j \in Controls(w), j <= f[i]
        PROVE  \E k \in Controls(v) : f[k] = j
    <2>1. i \in 1..Len(v) /\ j \in 1..Len(w) /\ j <= i
      BY <1>5 DEF Controls
    <2>2. j \in 1..Len(v)
      BY <1>1, <1>2, <2>1
    <2>3. j \in Controls(v)
      BY <1>2, <2>2 DEF Controls
    <2> QED BY <2>3
  <1>6. \A i, j \in Controls(v) : i < j => f[i] < f[j]
    OBVIOUS
  <1>7. \A i \in Controls(v) : \A j \in Controls(w) :
            j <= f[i] => \E k \in Controls(v) : f[k] = j
    BY <1>5
  <1> HIDE DEF f
  <1>8. StillTold(v, w)
    <2>1. Places(v, w, f)
      BY <1>4, <1>6, <1>7 DEF Places
    <2> QED BY <1>2, <2>1, ToldAt
  <1> QED BY <1>8 DEF w

-----------------------------------------------------------------------------
(* Removing messages that announce nothing, in one piece. *)
LEMMA Thinner ==
  ASSUME NEW a \in Seq(Messages), NEW b \in Seq(Messages), NEW d \in 0..Len(b),
         \A i \in 1..d : ~b[i].ctl
  PROVE  LET w == a \o SubSeq(b, d + 1, Len(b)) IN
         w \in Seq(Messages) /\ NoWorse(a \o b, w) /\ StillTold(a \o b, w)
  <1> DEFINE c == SubSeq(b, d + 1, Len(b))
             v == a \o b
             w == a \o c
             n == Len(a)
             f == [i \in 1..Len(w) |-> IF i <= n THEN i ELSE i + d]
  <1>1. n \in Nat /\ Len(b) \in Nat
    BY LenProperties
  <1>2. c \in Seq(Messages) /\ Len(c) = Len(b) - d /\ \A i \in 1..Len(b) - d : c[i] = b[i + d]
    <2>1. \A i \in d + 1..Len(b) : b[i] \in Messages
      BY <1>1, ElementOfSeq
    <2>2. d + 1 \in Int /\ Len(b) \in Int /\ Len(b) - (d + 1) + 1 = Len(b) - d
      BY <1>1
    <2>3. /\ c \in Seq(Messages)
          /\ Len(c) = IF d + 1 <= Len(b) THEN Len(b) - (d + 1) + 1 ELSE 0
          /\ \A i \in 1..Len(b) - (d + 1) + 1 : c[i] = b[(d + 1) + i - 1]
      BY <2>1, <2>2, SubSeqProperties
    <2>4. \A i \in Int : (d + 1) + i - 1 = i + d
      OBVIOUS
    <2> HIDE DEF c
    <2>5. Len(c) = Len(b) - d
      <3>1. \A m \in Nat : \A e \in 0..m : (IF e + 1 <= m THEN m - (e + 1) + 1 ELSE 0) = m - e
        OBVIOUS
      <3> QED BY <1>1, <2>3, <3>1
    <2>6. ASSUME NEW i \in 1..Len(b) - d PROVE c[i] = b[i + d]
      <3>1. i \in 1..Len(b) - (d + 1) + 1 /\ i \in Int
        BY <2>2
      <3>2. c[i] = b[(d + 1) + i - 1]
        BY <2>3, <3>1
      <3> QED BY <2>4, <3>1, <3>2
    <2> QED BY <2>3, <2>5, <2>6
  <1> HIDE DEF c
  <1>3. /\ v \in Seq(Messages) /\ Len(v) = n + Len(b)
        /\ \A i \in 1..n + Len(b) : v[i] = IF i <= n THEN a[i] ELSE b[i - n]
    BY ConcatProperties
  <1>4. /\ w \in Seq(Messages) /\ Len(w) = n + Len(c)
        /\ \A i \in 1..n + Len(c) : w[i] = IF i <= n THEN a[i] ELSE c[i - n]
    BY <1>2, ConcatProperties
  <1> HIDE DEF v, w, n
  <1>5. ASSUME NEW i \in 1..Len(w)
        PROVE  f[i] \in 1..Len(v) /\ v[f[i]] = w[i]
    <2>1. CASE i <= n
      <3>1. f[i] = i /\ i \in 1..Len(v)
        <4>1. i \in Nat \ {0} /\ Len(v) = n + Len(b)
          BY <1>1, <1>2, <1>3, <1>4
        <4>2. f[i] = i
          BY <2>1
        <4> QED BY <1>1, <2>1, <4>1, <4>2
      <3> QED BY <1>3, <1>4, <2>1, <3>1
    <2>2. CASE i > n
      <3>1. f[i] = i + d /\ i + d \in 1..Len(v) /\ i - n \in 1..Len(b) - d
        <4>1. i \in Nat /\ i <= n + (Len(b) - d) /\ Len(v) = n + Len(b)
          BY <1>1, <1>2, <1>3, <1>4
        <4>2. i + d \in 1..Len(v) /\ i - n \in 1..Len(b) - d
          BY <1>1, <2>2, <4>1
        <4>3. f[i] = i + d
          BY <1>1, <2>2, <4>1
        <4> QED BY <4>2, <4>3
      <3>2. w[i] = c[i - n] /\ v[i + d] = b[(i + d) - n] /\ (i - n) + d = (i + d) - n
        BY <1>1, <1>2, <1>3, <1>4, <2>2, <3>1
      <3>3. c[i - n] = b[(i - n) + d]
        BY <1>2, <3>1
      <3> QED BY <3>1, <3>2, <3>3
    <2> QED BY <1>1, <1>4, <2>1, <2>2
  <1>6. \A i, j \in 1..Len(w) : i < j => f[i] < f[j]
    BY <1>1, <1>2, <1>4
  <1>7. ASSUME NEW j \in 1..Len(v), v[j].type \in {"Hello", "Event"}
        PROVE  \E i \in 1..Len(w) : w[i] = v[j] /\ f[i] = j
    <2>1. v[j] \in Messages
      BY <1>3, ElementOfSeq
    <2>2. v[j].ctl
      BY <1>7, <2>1 DEF Messages
    <2>3. CASE j <= n
      <3>1. j \in 1..Len(w) /\ f[j] = j
        BY <1>1, <1>2, <1>4, <2>3
      <3> QED BY <1>5, <3>1
    <2>4. CASE j > n
      <3>1. v[j] = b[j - n] /\ j - n \in 1..Len(b)
        BY <1>1, <1>3, <2>4
      <3>2. ~(j - n <= d)
        BY <1>1, <2>2, <3>1
      <3>3. j - d \in 1..Len(w) /\ f[j - d] = j
        BY <1>1, <1>2, <1>4, <3>1, <3>2
      <3> QED BY <1>5, <3>3
    <2> QED BY <1>1, <1>3, <2>3, <2>4
  <1> HIDE DEF f
  <1>8. Follows(v, w, f)
    BY <1>5, <1>6, <1>7 DEF Follows, Relevant
  <1>9. NoWorse(v, w)
    BY <1>3, <1>4, <1>8, Mapped
  <1> DEFINE h == [i \in 1..Len(v) |-> IF i <= n THEN i ELSE i - d]
  <1>10. ASSUME NEW i \in Controls(v)
         PROVE  i \in 1..Len(v) /\ i \in Int /\ (i <= n \/ i > n + d)
    <2>1. i \in 1..Len(v) /\ v[i].ctl
      BY DEF Controls
    <2>2. CASE i > n /\ i <= n + d
      <3>1. v[i] = b[i - n] /\ i - n \in 1..d
        BY <1>1, <1>3, <2>1, <2>2
      <3> QED BY <2>1, <3>1
    <2> QED BY <1>1, <1>3, <2>1, <2>2
  <1>11. ASSUME NEW i \in Controls(v)
         PROVE  h[i] \in Controls(w) /\ w[h[i]] = v[i]
    <2>1. h[i] \in 1..Len(w) /\ f[h[i]] = i
      <3>1. Len(v) = n + Len(b) /\ Len(w) = n + (Len(b) - d)
        BY <1>2, <1>3, <1>4
      <3>2. CASE i <= n
        <4>1. h[i] = i /\ i \in 1..Len(w)
          BY <1>1, <1>10, <3>1, <3>2
        <4> QED BY <3>2, <4>1 DEF f
      <3>3. CASE i > n + d
        <4>1. h[i] = i - d /\ i - d \in 1..Len(w) /\ ~(i - d <= n) /\ i - d + d = i
          BY <1>1, <1>10, <3>1, <3>3
        <4> QED BY <4>1 DEF f
      <3> QED BY <1>10, <3>2, <3>3
    <2>2. w[h[i]] = v[i]
      BY <1>5, <2>1
    <2> QED BY <2>1, <2>2 DEF Controls
  <1>12. \A i, j \in Controls(v) : i < j => h[i] < h[j]
    BY <1>1, <1>10
  <1>13. ASSUME NEW j \in Controls(w)
         PROVE  \E k \in Controls(v) : h[k] = j
    <2>1. j \in 1..Len(w)
      BY DEF Controls
    <2>2. f[j] \in 1..Len(v) /\ v[f[j]] = w[j]
      BY <1>5, <2>1
    <2>3. f[j] \in Controls(v)
      BY <2>2 DEF Controls
    <2>4. h[f[j]] = j
      BY <1>1, <1>2, <1>3, <1>4, <2>1, <2>2 DEF f
    <2> QED BY <2>3, <2>4
  <1> HIDE DEF h
  <1>14. StillTold(v, w)
    <2>1. Places(v, w, h)
      BY <1>11, <1>12, <1>13 DEF Places
    <2> QED BY <1>3, <1>4, <2>1, ToldAt
  <1> QED BY <1>4, <1>9, <1>14 DEF v, w, c

(* Bye, put between what is written and what is queued. *)
LEMMA Between ==
  ASSUME NEW a \in Seq(Messages), NEW b \in Seq(Messages), NEW x \in Messages,
         x.type = "Bye"
  PROVE  LET w == Append(a, x) \o b IN
         w \in Seq(Messages) /\ NoWorse(a \o b, w) /\ StillTold(a \o b, w)
  <1> DEFINE c == Append(a, x)
             v == a \o b
             w == c \o b
             n == Len(a)
             f == [i \in 1..Len(w) |-> IF i <= n THEN i ELSE i - 1]
  <1>1. n \in Nat /\ Len(b) \in Nat
    BY LenProperties
  <1>2. /\ c \in Seq(Messages) /\ Len(c) = n + 1 /\ c[n + 1] = x
        /\ \A i \in 1..n : c[i] = a[i]
    BY AppendProperties
  <1> HIDE DEF c
  <1>3. /\ v \in Seq(Messages) /\ Len(v) = n + Len(b)
        /\ \A i \in 1..n + Len(b) : v[i] = IF i <= n THEN a[i] ELSE b[i - n]
    BY ConcatProperties
  <1>4. /\ w \in Seq(Messages) /\ Len(w) = Len(c) + Len(b)
        /\ \A i \in 1..Len(c) + Len(b) : w[i] = IF i <= Len(c) THEN c[i] ELSE b[i - Len(c)]
    BY <1>2, ConcatProperties
  <1> HIDE DEF v, w, n
  <1>5. w[n + 1] = x /\ ~Relevant(x)
    BY <1>1, <1>2, <1>4 DEF Relevant
  <1>6. ASSUME NEW i \in 1..Len(w), i # n + 1
        PROVE  f[i] \in 1..Len(v) /\ v[f[i]] = w[i]
    <2>1. CASE i <= n
      <3>1. f[i] = i /\ i \in 1..Len(v) /\ i <= Len(c) /\ i \in 1..n
        BY <1>1, <1>2, <1>3, <1>4, <2>1
      <3> QED BY <1>2, <1>3, <1>4, <2>1, <3>1
    <2>2. CASE i > n + 1
      <3>1. f[i] = i - 1 /\ i - 1 \in 1..Len(v) /\ w[i] = b[i - (n + 1)]
        <4>1. /\ i \in Nat /\ i <= n + 1 + Len(b) /\ Len(v) = n + Len(b)
              /\ Len(c) = n + 1 /\ i \in 1..Len(c) + Len(b)
          BY <1>1, <1>2, <1>3, <1>4
        <4>2. i - 1 \in 1..Len(v) /\ ~(i <= n) /\ ~(i <= Len(c))
          BY <1>1, <2>2, <4>1
        <4>3. f[i] = i - 1
          BY <4>2
        <4>4. w[i] = b[i - (n + 1)]
          BY <1>4, <4>1, <4>2
        <4> QED BY <4>2, <4>3, <4>4
      <3>2. v[i - 1] = b[(i - 1) - n] /\ (i - 1) - n = i - (n + 1)
        BY <1>1, <1>3, <2>2, <3>1
      <3> QED BY <3>1, <3>2
    <2> QED BY <1>1, <1>6, <2>1, <2>2
  <1>7. \A i, j \in 1..Len(w) : (i < j /\ i # n + 1 /\ j # n + 1) => f[i] < f[j]
    BY <1>1, <1>2, <1>4
  <1>8. ASSUME NEW j \in 1..Len(v)
        PROVE  \E i \in 1..Len(w) : w[i] = v[j] /\ f[i] = j
    <2>1. CASE j <= n
      <3>1. j \in 1..Len(w) /\ f[j] = j /\ j # n + 1
        BY <1>1, <1>2, <1>3, <1>4, <2>1
      <3> QED BY <1>6, <3>1
    <2>2. CASE j > n
      <3>1. j + 1 \in 1..Len(w) /\ f[j + 1] = j /\ j + 1 # n + 1
        BY <1>1, <1>2, <1>3, <1>4, <2>2
      <3> QED BY <1>6, <3>1
    <2> QED BY <1>1, <2>1, <2>2
  <1> HIDE DEF f
  <1>9. Follows(v, w, f)
    BY <1>5, <1>6, <1>7, <1>8 DEF Follows, Relevant
  <1>10. NoWorse(v, w)
    BY <1>3, <1>4, <1>9, Mapped
  <1> DEFINE h == [i \in 1..Len(v) |-> IF i <= n THEN i ELSE i + 1]
  <1>11. Controls(v) \subseteq 1..Len(v)
    BY DEF Controls
  <1>12. ASSUME NEW i \in Controls(v)
         PROVE  h[i] \in Controls(w) /\ w[h[i]] = v[i]
    <2>1. h[i] \in 1..Len(w) /\ f[h[i]] = i /\ h[i] # n + 1
      <3>1. Len(v) = n + Len(b) /\ Len(w) = n + 1 + Len(b) /\ i \in 1..Len(v)
        BY <1>2, <1>3, <1>4, <1>11, <1>12
      <3>2. CASE i <= n
        <4>1. h[i] = i /\ i \in 1..Len(w) /\ i # n + 1
          BY <1>1, <3>1, <3>2
        <4> QED BY <3>2, <4>1 DEF f
      <3>3. CASE ~(i <= n)
        <4> DEFINE j == i + 1
        <4>1. h[i] = j /\ j \in 1..Len(w) /\ ~(j <= n) /\ j # n + 1 /\ j - 1 = i
          BY <1>1, <3>1, <3>3
        <4> HIDE DEF h, j
        <4>2. f[j] = j - 1
          BY <4>1 DEF f
        <4> QED BY <4>1, <4>2
      <3> QED BY <3>2, <3>3
    <2>2. w[h[i]] = v[i]
      BY <1>6, <2>1
    <2> QED BY <2>1, <2>2 DEF Controls
  <1>13. \A i, j \in Controls(v) : i < j => h[i] < h[j]
    BY <1>1, <1>3, <1>11
  <1>14. ASSUME NEW j \in Controls(w)
         PROVE  \E k \in Controls(v) : h[k] = j
    <2>1. j \in 1..Len(w) /\ j # n + 1
      BY <1>5 DEF Controls
    <2>2. f[j] \in 1..Len(v) /\ v[f[j]] = w[j]
      BY <1>6, <2>1
    <2>3. f[j] \in Controls(v)
      BY <2>2 DEF Controls
    <2>4. h[f[j]] = j
      BY <1>1, <1>2, <1>3, <1>4, <2>1, <2>2 DEF f
    <2> QED BY <2>3, <2>4
  <1> HIDE DEF h
  <1>15. StillTold(v, w)
    <2>1. Places(v, w, h)
      BY <1>12, <1>13, <1>14 DEF Places
    <2> QED BY <1>3, <1>4, <2>1, ToldAt
  <1> QED BY <1>4, <1>10, <1>15 DEF v, w, c

-----------------------------------------------------------------------------
(* Nothing is said in an empty view. *)
LEMMA Silence ==
  ASSUME NEW g, NEW sq
  PROVE  /\ Sound(<< >>, g, sq)
         /\ \A k \in Topics : Latest(<< >>, k, NoMsg)
  <1>1. << >> \in Seq(Messages) /\ Len(<< >>) = 0 /\ 1..0 = {}
    BY EmptySeq
  <1>2. Numbered(<< >>, g, sq) /\ Growing(<< >>) /\ Covered(<< >>)
    BY <1>1 DEF Numbered, Growing, Covered
  <1> QED BY <1>1, <1>2 DEF Sound, Latest

(* What is not media may be added; it is the latest of its topic. *)
LEMMA AddTelling ==
  ASSUME NEW v \in Seq(Messages), NEW m \in Messages, ~IsMedia(m), NEW g, NEW sq
  PROVE  /\ Sound(v, g, sq) => Sound(Append(v, m), g, sq)
         /\ \A k \in Topics : \A x :
                (Latest(v, k, x) \/ Tells(k, m)) =>
                    Latest(Append(v, m), k, IF Tells(k, m) THEN m ELSE x)
  <1> DEFINE w == Append(v, m)
             n == Len(v)
  <1>1. n \in Nat
    BY LenProperties
  <1>2. /\ w \in Seq(Messages) /\ Len(w) = n + 1 /\ w[n + 1] = m
        /\ \A i \in 1..n : w[i] = v[i]
    BY AppendProperties
  <1> HIDE DEF w
  <1>3. \A i \in 1..Len(w) : IsMedia(w[i]) => i \in 1..n /\ w[i] = v[i]
    BY <1>1, <1>2
  <1>4. ASSUME Sound(v, g, sq)
        PROVE  Sound(w, g, sq)
    <2>1. Numbered(v, g, sq) /\ Growing(v) /\ Covered(v)
      BY <1>4 DEF Sound
    <2>2. Numbered(w, g, sq)
      BY <1>3, <2>1 DEF Numbered
    <2>3. Growing(w)
      BY <1>3, <2>1 DEF Growing
    <2>4. Covered(w)
      <3> SUFFICES ASSUME NEW h \in 1..Len(w), NEW i \in 1..Len(w),
                          h < i, IsMedia(w[i]), IsHello(w[i].stream, w[h]),
                          \A k \in h + 1..i - 1 : ~IsHello(w[i].stream, w[k])
                   PROVE  w[h].gen = w[i].gen
        BY DEF Covered
      <3>1. i \in 1..n /\ w[i] = v[i] /\ h \in 1..n /\ w[h] = v[h]
        BY <1>1, <1>2, <1>3
      <3>2. \A k \in h + 1..i - 1 : k \in 1..n /\ w[k] = v[k]
        BY <1>1, <1>2, <3>1
      <3>3. /\ IsMedia(v[i]) /\ IsHello(v[i].stream, v[h]) /\ i \in 1..Len(v) /\ h \in 1..Len(v)
            /\ \A k \in h + 1..i - 1 : ~IsHello(v[i].stream, v[k])
        BY <3>1, <3>2
      <3>4. v[h].gen = v[i].gen
        BY <2>1, <3>3 DEF Covered
      <3> QED BY <3>1, <3>4
    <2> QED BY <1>2, <2>2, <2>3, <2>4 DEF Sound
  <1>5. ASSUME NEW k \in Topics, NEW x, Latest(v, k, x) \/ Tells(k, m)
        PROVE  Latest(w, k, IF Tells(k, m) THEN m ELSE x)
    <2>1. CASE Tells(k, m)
      <3>1. m # NoMsg
        BY <2>1 DEF Tells, IsHello, IsHealth, NoMsg, Message
      <3>2. n + 1 \in 1..Len(w) /\ (n + 1) + 1..Len(w) = {}
        BY <1>1, <1>2
      <3> QED BY <1>2, <2>1, <3>1, <3>2 DEF Latest
    <2>2. CASE ~Tells(k, m)
      <3>1. CASE x = NoMsg
        BY <1>1, <1>2, <1>5, <2>2, <3>1 DEF Latest
      <3>2. CASE x # NoMsg
        <4>1. PICK h \in 1..n : /\ v[h] = x /\ Tells(k, x)
                                /\ \A i \in h + 1..n : ~Tells(k, v[i])
          BY <1>5, <2>2, <3>2 DEF Latest
        <4>2. h \in 1..Len(w) /\ w[h] = x
          BY <1>1, <1>2, <4>1
        <4>3. ASSUME NEW i \in h + 1..Len(w) PROVE ~Tells(k, w[i])
          <5>1. i = n + 1 \/ (i \in h + 1..n /\ i \in 1..n)
            BY <1>1, <1>2
          <5> QED BY <1>2, <2>2, <4>1, <5>1
        <4> QED BY <2>2, <3>2, <4>1, <4>2, <4>3 DEF Latest
      <3> QED BY <3>1, <3>2
    <2> QED BY <2>1, <2>2
  <1> QED BY <1>4, <1>5 DEF w

(* Media may be added when the stream's Hello, if any, is of their generation and their *)
(* number is greater than those before.                                                 *)
LEMMA AddMedia ==
  ASSUME NEW v \in Seq(Messages), NEW m \in Messages, IsMedia(m),
         NEW g \in Nat, NEW sq \in [Streams -> Nat], NEW sq2 \in [Streams -> Nat],
         Sound(v, g, sq), NEW x, Latest(v, m.stream, x), x # NoMsg => x.gen = g,
         m.gen = g, m.seq < sq2[m.stream], \A s \in Streams : sq[s] <= sq2[s],
         \A i \in 1..Len(v) :
             (IsMedia(v[i]) /\ v[i].stream = m.stream /\ v[i].gen = g) => v[i].seq < m.seq
  PROVE  /\ Sound(Append(v, m), g, sq2)
         /\ \A k \in Topics : \A y : Latest(v, k, y) => Latest(Append(v, m), k, y)
  <1> DEFINE w == Append(v, m)
             n == Len(v)
  <1>1. n \in Nat
    BY LenProperties
  <1>2. /\ w \in Seq(Messages) /\ Len(w) = n + 1 /\ w[n + 1] = m
        /\ \A i \in 1..n : w[i] = v[i]
    BY AppendProperties
  <1> HIDE DEF w
  <1>3. \A i \in 1..Len(w) : (i \in 1..n /\ w[i] = v[i]) \/ (i = n + 1 /\ w[i] = m)
    BY <1>1, <1>2
  <1>4. Numbered(v, g, sq) /\ Growing(v) /\ Covered(v)
    BY DEF Sound
  <1>5. \A i \in 1..n : v[i] \in Messages
    BY ElementOfSeq
  <1>6. Numbered(w, g, sq2)
    <2> SUFFICES ASSUME NEW i \in 1..Len(w), IsMedia(w[i])
                 PROVE  w[i].gen < g \/ (w[i].gen = g /\ w[i].seq < sq2[w[i].stream])
      BY DEF Numbered
    <2>1. CASE i = n + 1
      BY <1>2, <2>1
    <2>2. CASE i \in 1..n /\ w[i] = v[i]
      <3>1. v[i].gen < g \/ (v[i].gen = g /\ v[i].seq < sq[v[i].stream])
        BY <1>4, <2>2 DEF Numbered
      <3>2. v[i].stream \in Streams /\ v[i].seq \in Nat
        BY <1>5, <2>2 DEF Messages, IsMedia
      <3>3. sq[v[i].stream] <= sq2[v[i].stream] /\ sq[v[i].stream] \in Nat /\ sq2[v[i].stream] \in Nat
        BY <3>2
      <3> QED BY <2>2, <3>1, <3>2, <3>3
    <2> QED BY <1>3, <2>1, <2>2
  <1>7. Growing(w)
    <2> SUFFICES ASSUME NEW i \in 1..Len(w), NEW j \in 1..Len(w),
                        i < j, IsMedia(w[i]), IsMedia(w[j]),
                        w[i].stream = w[j].stream, w[i].gen = w[j].gen
                 PROVE  w[i].seq < w[j].seq
      BY DEF Growing
    <2>1. i \in 1..n /\ w[i] = v[i]
      BY <1>1, <1>2
    <2>2. CASE j = n + 1
      BY <1>2, <2>1, <2>2
    <2>3. CASE j \in 1..n /\ w[j] = v[j]
      BY <1>4, <2>1, <2>3 DEF Growing
    <2> QED BY <1>3, <2>2, <2>3
  <1>8. Covered(w)
    <2> SUFFICES ASSUME NEW h \in 1..Len(w), NEW i \in 1..Len(w),
                        h < i, IsMedia(w[i]), IsHello(w[i].stream, w[h]),
                        \A k \in h + 1..i - 1 : ~IsHello(w[i].stream, w[k])
                 PROVE  w[h].gen = w[i].gen
      BY DEF Covered
    <2>1. h \in 1..n /\ w[h] = v[h]
      <3>1. h \in 1..n
        BY <1>1, <1>2
      <3> QED BY <1>2, <3>1
    <2>2. CASE i = n + 1
      <3>1. m.stream \in Streams /\ w[i] = m
        BY <1>2, <2>2 DEF Messages, IsMedia
      <3>2. \A k \in 1..n : Tells(m.stream, v[k]) <=> IsHello(m.stream, v[k])
        BY <3>1 DEF Tells, Streams
      <3>3. Tells(m.stream, v[h])
        BY <2>1, <3>1, <3>2
      <3>4. x # NoMsg
        BY <2>1, <3>3 DEF Latest
      <3>5. PICK c \in 1..n : /\ v[c] = x /\ \A k \in c + 1..n : ~Tells(m.stream, v[k])
        BY <3>4 DEF Latest
      <3>6. ~(h \in c + 1..n)
        BY <3>3, <3>5
      <3>7. c \in h + 1..i - 1 => ~Tells(m.stream, v[c])
        BY <1>2, <3>1, <3>2, <3>5
      <3>8. Tells(m.stream, x)
        BY <3>4 DEF Latest
      <3>9. c = h
        BY <1>1, <2>1, <2>2, <3>5, <3>6, <3>7, <3>8
      <3> QED BY <2>1, <3>1, <3>4, <3>5, <3>9
    <2>3. CASE i \in 1..n /\ w[i] = v[i]
      <3>1. \A k \in h + 1..i - 1 : k \in 1..n /\ w[k] = v[k]
        BY <1>1, <1>2, <2>1, <2>3
      <3>2. /\ IsMedia(v[i]) /\ IsHello(v[i].stream, v[h]) /\ i \in 1..Len(v) /\ h \in 1..Len(v)
            /\ \A k \in h + 1..i - 1 : ~IsHello(v[i].stream, v[k])
        BY <2>1, <2>3, <3>1
      <3>3. v[h].gen = v[i].gen
        BY <1>4, <3>2 DEF Covered
      <3> QED BY <2>1, <2>3, <3>3
    <2> QED BY <1>3, <2>2, <2>3
  <1>9. ASSUME NEW k \in Topics, NEW y, Latest(v, k, y)
        PROVE  Latest(w, k, y)
    <2>1. ~Tells(k, m)
      BY DEF Tells, IsHello, IsHealth, IsMedia
    <2>2. CASE y = NoMsg
      BY <1>3, <1>9, <2>1, <2>2 DEF Latest
    <2>3. CASE y # NoMsg
      <3>1. PICK h \in 1..n : /\ v[h] = y /\ Tells(k, y)
                              /\ \A i \in h + 1..n : ~Tells(k, v[i])
        BY <1>9, <2>3 DEF Latest
      <3>2. h \in 1..Len(w) /\ w[h] = y
        BY <1>1, <1>2, <3>1
      <3>3. ASSUME NEW i \in h + 1..Len(w) PROVE ~Tells(k, w[i])
        <4>1. i = n + 1 \/ (i \in h + 1..n /\ i \in 1..n)
          <5>1. \A l \in Nat : \A a \in 1..l : \A b \in a + 1..l + 1 :
                    b = l + 1 \/ (b \in a + 1..l /\ b \in 1..l)
            OBVIOUS
          <5>2. i \in h + 1..n + 1
            BY <1>2
          <5> QED BY <1>1, <5>1, <5>2
        <4> QED BY <1>2, <2>1, <3>1, <4>1
      <3> QED BY <2>3, <3>1, <3>2, <3>3 DEF Latest
    <2> QED BY <2>2, <2>3
  <1> QED BY <1>2, <1>6, <1>7, <1>8, <1>9 DEF Sound, w

(* Counters that advance, or a new generation, change nothing for what was sent. *)
LEMMA Later ==
  ASSUME NEW v, NEW g \in Nat, NEW sq \in [Streams -> Nat], Sound(v, g, sq)
  PROVE  /\ \A sq2 \in [Streams -> Nat] :
                (\A s \in Streams : sq[s] <= sq2[s]) => Sound(v, g, sq2)
         /\ \A sq2 : Sound(v, g + 1, sq2)
  <1>1. \A i \in 1..Len(v) : v[i] \in Messages
    BY ElementOfSeq DEF Sound
  <1>2. \A i \in 1..Len(v) : IsMedia(v[i]) =>
            v[i].stream \in Streams /\ v[i].seq \in Nat /\ v[i].gen \in Nat
    BY <1>1 DEF Messages, IsMedia
  <1>3. Numbered(v, g, sq) /\ v \in Seq(Messages) /\ Growing(v) /\ Covered(v)
    BY DEF Sound
  <1>4. ASSUME NEW sq2 \in [Streams -> Nat], \A s \in Streams : sq[s] <= sq2[s]
        PROVE  Numbered(v, g, sq2)
    BY <1>2, <1>3, <1>4 DEF Numbered
  <1>5. ASSUME NEW sq2
        PROVE  Numbered(v, g + 1, sq2)
    BY <1>2, <1>3 DEF Numbered
  <1> QED BY <1>3, <1>4, <1>5 DEF Sound
-----------------------------------------------------------------------------

-----------------------------------------------------------------------------
(* What is written to a consumer, or in part, stays as it is, and it is still told *)
(* what it was to be told.                                                         *)
Fixed(cl) == Len(cl.wire) + cl.off
Continues(cl, r) ==
    /\ r.conn = cl.conn /\ (cl.dead => r.dead)
    /\ Fixed(cl) <= Fixed(r)
    /\ \A i \in 1..Fixed(cl) : ViewOf(r)[i] = ViewOf(cl)[i]
    /\ StillTold(ViewOf(cl), ViewOf(r))

(* Three pieces of a view, put together. *)
LEMMA Pieces ==
  \A a, b, c \in Seq(Messages) : (a \o b) \o c = a \o (b \o c)
  <1> TAKE a, b, c \in Seq(Messages)
  <1> QED BY ConcatAssociative

(* The view of a client is a sequence of messages and at least what is fixed. *)
LEMMA Fields ==
  ASSUME NEW cl \in Client
  PROVE  /\ cl.wire \in Seq(Messages) /\ cl.queue \in Seq(Messages)
         /\ Len(cl.wire) \in Nat /\ Len(cl.queue) \in Nat
         /\ ViewOf(cl) \in Seq(Messages) /\ Len(ViewOf(cl)) = Len(cl.wire) + Len(cl.queue)
         /\ \A i \in 1..Len(cl.wire) + Len(cl.queue) :
                ViewOf(cl)[i] = IF i <= Len(cl.wire) THEN cl.wire[i]
                                ELSE cl.queue[i - Len(cl.wire)]
         /\ cl.off \in {0, 1} /\ cl.conn \in Conns \cup {0} /\ cl.dead \in BOOLEAN
         /\ cl.dropped \in Nat /\ Fixed(cl) \in Nat
         /\ Partly(cl) => Fixed(cl) <= Len(ViewOf(cl))
  <1>1. cl.wire \in Seq(Messages) /\ cl.queue \in Seq(Messages) /\ cl.off \in {0, 1}
    BY DEF Client
  <1>2. Len(cl.wire) \in Nat /\ Len(cl.queue) \in Nat
    BY <1>1, LenProperties
  <1>3. /\ ViewOf(cl) \in Seq(Messages) /\ Len(ViewOf(cl)) = Len(cl.wire) + Len(cl.queue)
        /\ \A i \in 1..Len(cl.wire) + Len(cl.queue) :
               ViewOf(cl)[i] = IF i <= Len(cl.wire) THEN cl.wire[i]
                               ELSE cl.queue[i - Len(cl.wire)]
    BY <1>1, ConcatProperties DEF ViewOf
  <1>4. cl.conn \in Conns \cup {0} /\ cl.dead \in BOOLEAN /\ cl.dropped \in Nat
    BY DEF Client
  <1>5. Fixed(cl) \in Nat
    BY <1>1, <1>2 DEF Fixed
  <1>6. cl.queue # << >> => Len(cl.queue) >= 1
    BY <1>1, <1>2, EmptySeq
  <1>7. Partly(cl) => Fixed(cl) <= Len(ViewOf(cl))
    <2>1. CASE cl.off = 0
      <3>1. Fixed(cl) = Len(cl.wire)
        BY <1>2, <2>1 DEF Fixed
      <3>2. \A m, l \in Nat : m <= m + l
        OBVIOUS
      <3> QED BY <1>2, <1>3, <3>1, <3>2
    <2>2. CASE cl.off = 1
      BY <1>2, <1>3, <1>6, <2>2 DEF Fixed, Partly
    <2> QED BY <1>1, <2>1, <2>2
  <1> QED BY <1>1, <1>2, <1>3, <1>4, <1>5, <1>7

(* onClientWritable moves messages from the queue to the wire. *)
LEMMA FlushedView ==
  ASSUME env \in Setups, NEW cl \in Client, Partly(cl), NEW r \in Flushed(cl)
  PROVE  /\ r \in Client /\ Partly(r) /\ r.conn = cl.conn /\ (cl.dead => r.dead)
         /\ ViewOf(r) = ViewOf(cl) /\ Continues(cl, r)
  <1> DEFINE q == cl.queue
             n == Len(cl.queue)
  <1>0. Fixed(cl) \in Nat
    BY Fields
  <1>1. CASE r = cl
    BY <1>0, <1>1, StillToldOn DEF Continues
  <1>2. CASE r = [cl EXCEPT !.dead = TRUE]
    <2>1. /\ r \in Client /\ r.conn = cl.conn /\ r.dead /\ r.wire = cl.wire
          /\ r.queue = cl.queue /\ r.off = cl.off
      BY <1>2 DEF Client
    <2>2. ViewOf(r) = ViewOf(cl) /\ Fixed(r) = Fixed(cl) /\ Partly(r)
      BY <2>1 DEF ViewOf, Partly, Fixed
    <2> QED BY <1>0, <2>1, <2>2, StillToldOn DEF Continues
  <1>3. CASE \E p \in (0..n) \X env.offsets :
                 /\ p[1] = n => p[2] = 0
                 /\ p[1] = 0 => p[2] >= cl.off
                 /\ r = Written(cl, p[1], p[2])
    <2>1. PICK k \in 0..n, o \in env.offsets :
              /\ k = n => o = 0
              /\ k = 0 => o >= cl.off
              /\ r = Written(cl, k, o)
      BY <1>3
    <2>2. o \in {0, 1}
      BY <2>1, WorkerLinkAssumption
    <2> DEFINE a == SubSeq(q, 1, k)
               b == SubSeq(q, k + 1, n)
    <2>3. q \in Seq(Messages) /\ n \in Nat /\ cl.wire \in Seq(Messages) /\ Len(cl.wire) \in Nat
      BY Fields
    <2>4. a \in Seq(Messages) /\ Len(a) = k
      <3>1. \A i \in 1..k : q[i] \in Messages
        BY <2>3, ElementOfSeq
      <3>2. a \in Seq(Messages) /\ Len(a) = IF 1 <= k THEN k - 1 + 1 ELSE 0
        BY <2>3, <3>1, SubSeqProperties
      <3> QED BY <2>3, <3>2
    <2>5. b \in Seq(Messages) /\ (k # n => b # << >>)
      <3>1. \A i \in k + 1..n : q[i] \in Messages
        BY <2>3, ElementOfSeq
      <3>2. b \in Seq(Messages) /\ Len(b) = IF k + 1 <= n THEN n - (k + 1) + 1 ELSE 0
        BY <2>3, <3>1, SubSeqProperties
      <3>3. \A m \in Nat : \A e \in 0..m : e # m => (IF e + 1 <= m THEN m - (e + 1) + 1 ELSE 0) # 0
        OBVIOUS
      <3> HIDE DEF b
      <3> QED BY <2>3, <3>2, <3>3, EmptySeq
    <2>6. a \o b = q
      <3>1. 1 \in 1..n + 1 /\ k \in 1 - 1..n /\ n \in k..n
        BY <2>3
      <3>2. a \o b = SubSeq(q, 1, n)
        BY <2>3, <3>1, ConcatAdjacentSubSeq
      <3> QED BY <2>3, <3>2, SubSeqFull
    <2>7. /\ r = [cl EXCEPT !.wire = @ \o a, !.queue = b, !.off = o]
      BY <2>1 DEF Written
    <2> HIDE DEF a, b
    <2>8. cl.wire \o a \in Seq(Messages) /\ Len(cl.wire \o a) = Len(cl.wire) + k
      BY <2>3, <2>4, ConcatProperties
    <2>9. /\ r \in Client /\ r.conn = cl.conn /\ r.dead = cl.dead
          /\ r.wire = cl.wire \o a /\ r.queue = b /\ r.off = o
      BY <2>2, <2>5, <2>7, <2>8 DEF Client
    <2>10. (cl.wire \o a) \o b = cl.wire \o q
      <3>1. (cl.wire \o a) \o b = cl.wire \o (a \o b)
        BY <2>3, <2>4, <2>5, Pieces, Zenon
      <3> QED BY <2>6, <3>1
    <2>11. ViewOf(r) = ViewOf(cl)
      BY <2>9, <2>10 DEF ViewOf
    <2>12. Partly(r)
      BY <2>1, <2>5, <2>9 DEF Partly
    <2>13. Fixed(cl) <= Fixed(r)
      <3>1. Fixed(r) = Len(cl.wire) + k + o
        BY <2>8, <2>9 DEF Fixed
      <3>2. cl.off \in {0, 1}
        BY Fields
      <3> QED BY <2>1, <2>2, <2>3, <3>1, <3>2 DEF Fixed
    <2> QED BY <2>9, <2>11, <2>12, <2>13, StillToldOn DEF Continues
  <1> QED BY <1>1, <1>2, <1>3 DEF Flushed

(* What is pushed is seen last. *)
LEMMA PushedView ==
  ASSUME NEW cl \in Client, Partly(cl), NEW x \in Seq(Messages)
  PROVE  LET r == Pushed(cl, x) IN
         /\ r \in Client /\ Partly(r) /\ r.conn = cl.conn /\ r.dead = cl.dead
         /\ ViewOf(r) = ViewOf(cl) \o x /\ Continues(cl, r)
  <1> DEFINE r == Pushed(cl, x)
  <1>1. cl.wire \in Seq(Messages) /\ cl.queue \in Seq(Messages)
    BY Fields
  <1>2. cl.queue \o x \in Seq(Messages) /\ Len(cl.queue \o x) = Len(cl.queue) + Len(x)
    BY <1>1, ConcatProperties
  <1>3. cl.queue # << >> => cl.queue \o x # << >>
    <2>1. Len(cl.queue) \in Nat /\ Len(x) \in Nat
      BY <1>1, LenProperties
    <2>2. cl.queue # << >> => Len(cl.queue) \in Nat \ {0}
      BY <1>1, EmptySeq
    <2> QED BY <1>2, <2>1, <2>2, EmptySeq
  <1>4. /\ r \in Client /\ r.conn = cl.conn /\ r.dead = cl.dead /\ r.wire = cl.wire
        /\ r.queue = cl.queue \o x /\ r.off = cl.off
    BY <1>2 DEF Client, Pushed
  <1> HIDE DEF r
  <1>5. ViewOf(r) = ViewOf(cl) \o x
    <2>1. (cl.wire \o cl.queue) \o x = cl.wire \o (cl.queue \o x)
      BY <1>1, Pieces, Zenon
    <2> QED BY <1>4, <2>1 DEF ViewOf
  <1>6. Partly(r)
    BY <1>3, <1>4 DEF Partly
  <1>7. Continues(cl, r)
    <2>1. Fixed(cl) = Fixed(r) /\ Fixed(cl) \in Nat /\ Fixed(cl) <= Len(ViewOf(cl))
      BY <1>4, Fields DEF Fixed
    <2>2. ViewOf(cl) \in Seq(Messages) /\ Len(ViewOf(cl)) \in Nat /\ Len(x) \in Nat
      BY Fields, LenProperties
    <2> DEFINE v == ViewOf(cl)
    <2> HIDE DEF v
    <2>3. \A i \in 1..Len(v) : (v \o x)[i] = v[i]
      BY <2>2, ConcatProperties DEF v
    <2>4. StillTold(v, v \o x)
      BY <2>2, ToldMore DEF v
    <2> QED BY <1>4, <1>5, <2>1, <2>2, <2>3, <2>4 DEF Continues, v
  <1> QED BY <1>4, <1>5, <1>6, <1>7 DEF r

(* enqueue makes room by dropping what announces nothing, and nothing at all while the *)
(* front message is partly written.                                                    *)
LEMMA OfferedView ==
  ASSUME NEW cl \in Client, Partly(cl), NEW msg \in Messages
  PROVE  LET r == Offered(cl, msg) IN
         /\ r \in Client /\ Partly(r) /\ r.conn = cl.conn /\ r.dead = cl.dead
         /\ Continues(cl, r)
         /\ \E w \in Seq(Messages) : NoWorse(ViewOf(cl), w) /\ ViewOf(r) = Append(w, msg)
  <1> DEFINE q == cl.queue
             n == Len(cl.queue)
             need == IF n >= QueueMax THEN n - QueueMax + 1 ELSE 0
             Last(e) == Droppable(cl, e, need) /\ \A m \in e + 1..need : ~Droppable(cl, m, need)
             d == CHOOSE e \in 0..need : Last(e)
             c == SubSeq(q, d + 1, n)
             mid == [cl EXCEPT !.queue = c, !.dropped = cl.dropped + d]
             r == Offered(cl, msg)
  <1>1. /\ n \in Nat /\ q \in Seq(Messages) /\ need \in 0..n /\ cl.off \in {0, 1}
        /\ cl.wire \in Seq(Messages) /\ Len(cl.wire) \in Nat
    <2>1. /\ n \in Nat /\ q \in Seq(Messages) /\ cl.off \in {0, 1}
          /\ cl.wire \in Seq(Messages) /\ Len(cl.wire) \in Nat
      BY Fields
    <2>2. \A m \in Nat : (IF m >= QueueMax THEN m - QueueMax + 1 ELSE 0) \in 0..m
      BY WorkerLinkAssumption
    <2> QED BY <2>1, <2>2
  <1> HIDE DEF need
  <1>2. \E e \in 0..need : Last(e)
    <2>1. CASE cl.off > 0
      BY <1>1, <2>1 DEF Droppable
    <2>2. CASE ~(cl.off > 0)
      <3> DEFINE C == {i \in 1..need : q[i].ctl}
      <3>1. CASE C = {}
        <4>1. Droppable(cl, need, need)
          BY <2>2, <3>1 DEF Droppable
        <4>2. need \in 0..need /\ need + 1..need = {}
          BY <1>1
        <4> QED BY <4>1, <4>2
      <3>2. CASE C # {}
        <4>1. Min(C) \in C /\ \A y \in C : Min(C) <= y
          <5>1. C \subseteq Nat
            OBVIOUS
          <5> QED BY <3>2, <5>1, MinExists
        <4>2. PICK i \in 1..need : q[i].ctl /\ \A j \in 1..need : q[j].ctl => i <= j
          BY <4>1
        <4>3. i - 1 \in 0..need /\ (i - 1) + 1 = i /\ \A j \in 1..i - 1 : j \in 1..need /\ ~(i <= j)
          BY <1>1
        <4>4. Droppable(cl, i - 1, need)
          BY <2>2, <4>2, <4>3 DEF Droppable
        <4>5. ASSUME NEW m \in (i - 1) + 1..need PROVE ~Droppable(cl, m, need)
          <5>1. i \in 1..m
            BY <1>1, <4>3
          <5> QED BY <2>2, <4>2, <5>1 DEF Droppable
        <4> QED BY <4>3, <4>4, <4>5
      <3> QED BY <3>1, <3>2
    <2> QED BY <2>1, <2>2
  <1>3. d \in 0..need /\ Droppable(cl, d, need)
    <2> HIDE DEF q, n
    <2> QED BY <1>2
  <1>4. r = Pushed(mid, <<msg>>)
    BY DEF Offered, need
  <1> HIDE DEF d, r
  <1>5. d \in 0..n /\ d \in Nat /\ \A i \in 1..d : ~q[i].ctl
    BY <1>1, <1>3 DEF Droppable
  <1>6. cl.off = 1 => d = 0
    BY <1>3 DEF Droppable
  <1>7. c \in Seq(Messages)
    <2>1. \A i \in d + 1..n : q[i] \in Messages
      BY <1>1, <1>5, ElementOfSeq
    <2> QED BY <1>1, <1>5, <2>1, SubSeqProperties
  <1>8. d = 0 => c = q
    BY <1>1, SubSeqFull
  <1>9. /\ cl.wire \o c \in Seq(Messages) /\ NoWorse(ViewOf(cl), cl.wire \o c)
        /\ StillTold(ViewOf(cl), cl.wire \o c)
    BY <1>1, <1>5, Thinner DEF ViewOf
  <1> HIDE DEF c
  <1>10. /\ mid \in Client /\ mid.conn = cl.conn /\ mid.dead = cl.dead /\ mid.off = cl.off
         /\ mid.wire = cl.wire /\ mid.queue = c
    <2>1. cl.dropped + d \in Nat
      <3>1. cl.dropped \in Nat
        BY DEF Client
      <3> QED BY <1>5, <3>1
    <2> QED BY <1>7, <2>1 DEF Client
  <1> HIDE DEF mid
  <1>11. ViewOf(mid) = cl.wire \o c
    BY <1>10 DEF ViewOf
  <1>12. Partly(mid)
    BY <1>6, <1>8, <1>10 DEF Partly
  <1>13. /\ r \in Client /\ Partly(r) /\ r.conn = cl.conn /\ r.dead = cl.dead
         /\ ViewOf(r) = Append(ViewOf(mid), msg) /\ Continues(mid, r)
    <2>1. <<msg>> \in Seq(Messages)
      OBVIOUS
    <2>2. /\ r \in Client /\ Partly(r) /\ r.conn = cl.conn /\ r.dead = cl.dead
          /\ ViewOf(r) = ViewOf(mid) \o <<msg>> /\ Continues(mid, r)
      BY <1>4, <1>10, <1>12, <2>1, PushedView
    <2> QED BY <1>10, <2>2, Fields, AppendIsConcat
  <1>14. Fixed(mid) = Fixed(cl) /\ \A i \in 1..Fixed(cl) : ViewOf(mid)[i] = ViewOf(cl)[i]
    <2>1. Fixed(mid) = Fixed(cl)
      BY <1>10 DEF Fixed
    <2>2. CASE cl.off = 1
      BY <1>6, <1>8, <1>11, <2>1, <2>2 DEF ViewOf
    <2>3. CASE cl.off = 0
      <3>1. Fixed(cl) = Len(cl.wire)
        BY <1>1, <2>3 DEF Fixed
      <3>2. \A i \in 1..Len(cl.wire) : (cl.wire \o q)[i] = cl.wire[i]
        <4>1. /\ q \in Seq(Messages) /\ Len(q) \in Nat
              /\ \A i \in 1..Len(cl.wire) + Len(q) :
                     (cl.wire \o q)[i] = IF i <= Len(cl.wire) THEN cl.wire[i]
                                         ELSE q[i - Len(cl.wire)]
          BY <1>1, ConcatProperties
        <4> HIDE DEF q
        <4> QED BY <1>1, <4>1
      <3>3. \A i \in 1..Len(cl.wire) : (cl.wire \o c)[i] = cl.wire[i]
        <4>1. Len(c) \in Nat
          BY <1>7, LenProperties
        <4> QED BY <1>1, <1>7, <4>1, ConcatProperties
      <3> QED BY <1>11, <2>1, <3>1, <3>2, <3>3 DEF ViewOf
    <2> QED BY <1>1, <2>2, <2>3
  <1>15. Continues(cl, r)
    <2>1. StillTold(ViewOf(cl), ViewOf(r))
      BY <1>9, <1>11, <1>13, StillToldOn DEF Continues
    <2> QED BY <1>10, <1>13, <1>14, <2>1 DEF Continues
  <1> QED BY <1>9, <1>11, <1>13, <1>15 DEF r
-----------------------------------------------------------------------------
(* A free slot is a client nobody listens on. *)
LEMMA FreeClient == FreeSlot \in Client /\ ~Listens(FreeSlot) /\ Partly(FreeSlot)
  <1>1. << >> \in Seq(Messages)
    BY EmptySeq
  <1> QED BY <1>1 DEF FreeSlot, Client, Listens, Partly

(* Continuing is reflexive and transitive. *)
LEMMA ContinuesOn ==
  ASSUME NEW a \in Client, NEW b \in Client, NEW c \in Client
  PROVE  Continues(a, a) /\ (Continues(a, b) /\ Continues(b, c) => Continues(a, c))
  <1>1. Fixed(a) \in Nat /\ Fixed(b) \in Nat /\ Fixed(c) \in Nat
    BY Fields
  <1> QED BY <1>1, StillToldOn DEF Continues

(* enqueue, seen from the consumers that stay. *)
LEMMA EnqueuedClients ==
  ASSUME env \in Setups, NEW cls \in [Fds -> Client], \A fd \in Fds : Partly(cls[fd]),
         NEW msg \in Messages, NEW f \in Enqueued(cls, msg)
  PROVE  /\ f \in [Fds -> Client]
         /\ \A fd \in Fds :
                /\ Partly(f[fd]) /\ ~f[fd].dead /\ f[fd].conn \in {0, cls[fd].conn}
                /\ f[fd].conn # 0 =>
                       /\ Continues(cls[fd], f[fd]) /\ ~cls[fd].dead
                       /\ IF Wanted(cls[fd], msg)
                            THEN \E w \in Seq(Messages) :
                                     /\ NoWorse(ViewOf(cls[fd]), w)
                                     /\ ViewOf(f[fd]) = Append(w, msg)
                            ELSE ViewOf(f[fd]) = ViewOf(cls[fd])
  <1> DEFINE R(fd) == IF cls[fd].conn # 0 /\ ~cls[fd].dead /\ Wanted(cls[fd], msg)
                        THEN Flushed(Offered(cls[fd], msg)) ELSE {cls[fd]}
  <1>1. PICK g : /\ \A fd \in Fds : g[fd] \in R(fd)
                 /\ f = Reaped(g)
    BY DEF Enqueued
  <1>2. f = [fd \in Fds |-> IF g[fd].dead THEN FreeSlot ELSE g[fd]]
    BY <1>1 DEF Reaped
  <1>3. ASSUME NEW fd \in Fds
        PROVE  /\ f[fd] \in Client
               /\ Partly(f[fd]) /\ ~f[fd].dead /\ f[fd].conn \in {0, cls[fd].conn}
               /\ f[fd].conn # 0 =>
                      /\ Continues(cls[fd], f[fd]) /\ ~cls[fd].dead
                      /\ IF Wanted(cls[fd], msg)
                           THEN \E w \in Seq(Messages) :
                                    /\ NoWorse(ViewOf(cls[fd]), w)
                                    /\ ViewOf(f[fd]) = Append(w, msg)
                           ELSE ViewOf(f[fd]) = ViewOf(cls[fd])
    <2> DEFINE cl == cls[fd]
               r == g[fd]
    <2>1. cl \in Client /\ Partly(cl) /\ r \in R(fd)
      BY <1>1
    <2>2. f[fd] = IF r.dead THEN FreeSlot ELSE r
      BY <1>2
    <2>3. CASE r.dead
      <3>1. f[fd] = FreeSlot
        BY <2>2, <2>3
      <3> QED BY <3>1, FreeClient DEF FreeSlot
    <2>4. CASE ~r.dead /\ cl.conn # 0 /\ ~cl.dead /\ Wanted(cl, msg)
      <3>1. f[fd] = r /\ r \in Flushed(Offered(cl, msg))
        BY <2>1, <2>2, <2>4
      <3> DEFINE o == Offered(cl, msg)
      <3>2. /\ o \in Client /\ Partly(o) /\ o.conn = cl.conn /\ o.dead = cl.dead
            /\ Continues(cl, o)
            /\ \E w \in Seq(Messages) : NoWorse(ViewOf(cl), w) /\ ViewOf(o) = Append(w, msg)
        BY <2>1, OfferedView
      <3> HIDE DEF o, cl, r
      <3>3. /\ r \in Client /\ Partly(r) /\ r.conn = o.conn
            /\ ViewOf(r) = ViewOf(o) /\ Continues(o, r)
        BY <3>1, <3>2, FlushedView DEF o
      <3>4. Continues(cl, r)
        BY <2>1, <3>2, <3>3, ContinuesOn
      <3> QED BY <2>4, <3>1, <3>2, <3>3, <3>4 DEF cl
    <2>5. CASE ~r.dead /\ ~(cl.conn # 0 /\ ~cl.dead /\ Wanted(cl, msg))
      <3>1. f[fd] = cl /\ ~cl.dead /\ (cl.conn # 0 => ~Wanted(cl, msg))
        BY <2>1, <2>2, <2>5
      <3>2. Continues(cl, cl)
        BY <2>1, ContinuesOn
      <3> QED BY <2>1, <3>1, <3>2
    <2> QED BY <2>3, <2>4, <2>5
  <1> QED BY <1>2, <1>3

(* Announcing something to all of them. *)
LEMMA EnqueueTelling ==
  ASSUME env \in Setups, NEW cls, NEW g, NEW sq, NEW now, NEW now2, NEW msg \in Messages,
         AllSound(cls, g, sq, now), NEW f \in Enqueued(cls, msg), ~IsMedia(msg), msg.ctl,
         \A k \in Topics : now2[k] = IF Tells(k, msg) THEN msg ELSE now[k]
  PROVE  AllSound(f, g, sq, now2)
  <1>1. cls \in [Fds -> Client] /\ \A fd \in Fds : Served(cls[fd], g, sq, now)
    BY DEF AllSound
  <1>2. \A fd \in Fds : Partly(cls[fd])
    BY <1>1 DEF Served
  <1>3. f \in [Fds -> Client]
    BY <1>1, <1>2, EnqueuedClients
  <1>4. ASSUME NEW fd \in Fds PROVE Served(f[fd], g, sq, now2)
    <2>1. Partly(f[fd]) /\ f[fd].conn \in {0, cls[fd].conn}
      BY <1>1, <1>2, EnqueuedClients
    <2>2. ASSUME Listens(f[fd])
          PROVE  Sound(ViewOf(f[fd]), g, sq) /\ Told(ViewOf(f[fd]), now2)
      <3>1. f[fd].conn # 0 /\ cls[fd].conn # 0
        BY <2>1, <2>2 DEF Listens
      <3>2. ~cls[fd].dead /\ Wanted(cls[fd], msg)
        BY <1>1, <1>2, <3>1, EnqueuedClients DEF Wanted
      <3>3. PICK w \in Seq(Messages) : /\ NoWorse(ViewOf(cls[fd]), w)
                                       /\ ViewOf(f[fd]) = Append(w, msg)
        BY <1>1, <1>2, <3>1, <3>2, EnqueuedClients
      <3>4. Sound(ViewOf(cls[fd]), g, sq) /\ \A k \in Topics : Latest(ViewOf(cls[fd]), k, now[k])
        BY <1>1, <3>1, <3>2 DEF Served, Listens, Told
      <3>5. Sound(w, g, sq) /\ \A k \in Topics : Latest(w, k, now[k])
        BY <3>3, <3>4 DEF NoWorse
      <3>6. /\ Sound(Append(w, msg), g, sq)
            /\ \A k \in Topics : Latest(Append(w, msg), k, IF Tells(k, msg) THEN msg ELSE now[k])
        BY <3>5, AddTelling
      <3> QED BY <3>3, <3>6 DEF Told
    <2> QED BY <2>1, <2>2 DEF Served
  <1> QED BY <1>3, <1>4 DEF AllSound

(* Sending the next of a stream's media to those who want it. *)
LEMMA EnqueueMedia ==
  ASSUME env \in Setups, NEW cls, NEW g \in Nat, NEW sq \in [Streams -> Nat], NEW now,
         NEW msg \in Messages, AllSound(cls, g, sq, now), NEW f \in Enqueued(cls, msg),
         IsMedia(msg), msg.gen = g, msg.seq = sq[msg.stream],
         now[msg.stream] # NoMsg => now[msg.stream].gen = g
  PROVE  AllSound(f, g, [sq EXCEPT ![msg.stream] = @ + 1], now)
  <1> DEFINE sq2 == [sq EXCEPT ![msg.stream] = @ + 1]
             t == msg.stream
  <1>0. t \in Streams /\ t \in Topics
    BY DEF Messages, IsMedia, Topics, Streams
  <1>1. cls \in [Fds -> Client] /\ \A fd \in Fds : Served(cls[fd], g, sq, now)
    BY DEF AllSound
  <1>2. \A fd \in Fds : Partly(cls[fd])
    BY <1>1 DEF Served
  <1>3. f \in [Fds -> Client]
    BY <1>1, <1>2, EnqueuedClients
  <1>4. /\ sq2 \in [Streams -> Nat] /\ \A s \in Streams : sq[s] <= sq2[s]
        /\ msg.seq < sq2[t]
    BY <1>0
  <1> HIDE DEF sq2
  <1>5. ASSUME NEW fd \in Fds PROVE Served(f[fd], g, sq2, now)
    <2>1. Partly(f[fd]) /\ f[fd].conn \in {0, cls[fd].conn}
      BY <1>1, <1>2, EnqueuedClients
    <2>2. ASSUME Listens(f[fd])
          PROVE  Sound(ViewOf(f[fd]), g, sq2) /\ Told(ViewOf(f[fd]), now)
      <3>1. f[fd].conn # 0 /\ cls[fd].conn # 0
        BY <2>1, <2>2 DEF Listens
      <3>2. ~cls[fd].dead
        BY <1>1, <1>2, <3>1, EnqueuedClients
      <3>3. Sound(ViewOf(cls[fd]), g, sq) /\ \A k \in Topics : Latest(ViewOf(cls[fd]), k, now[k])
        BY <1>1, <3>1, <3>2 DEF Served, Listens, Told
      <3>4. CASE Wanted(cls[fd], msg)
        <4>1. PICK w \in Seq(Messages) : /\ NoWorse(ViewOf(cls[fd]), w)
                                         /\ ViewOf(f[fd]) = Append(w, msg)
          BY <1>1, <1>2, <3>1, <3>4, EnqueuedClients
        <4>2. Sound(w, g, sq) /\ \A k \in Topics : Latest(w, k, now[k])
          BY <3>3, <4>1 DEF NoWorse
        <4>3. \A i \in 1..Len(w) :
                  (IsMedia(w[i]) /\ w[i].stream = t /\ w[i].gen = g) => w[i].seq < msg.seq
          <5>1. \A i \in 1..Len(w) : IsMedia(w[i]) =>
                    w[i].gen < g \/ (w[i].gen = g /\ w[i].seq < sq[w[i].stream])
            BY <4>2 DEF Sound, Numbered
          <5> QED BY <5>1
        <4>4. Latest(w, t, now[t])
          BY <1>0, <4>2
        <4>5. /\ Sound(Append(w, msg), g, sq2)
              /\ \A k \in Topics : \A y : Latest(w, k, y) => Latest(Append(w, msg), k, y)
          BY <1>4, <4>2, <4>3, <4>4, AddMedia
        <4> QED BY <4>1, <4>2, <4>5 DEF Told
      <3>5. CASE ~Wanted(cls[fd], msg)
        <4>1. ViewOf(f[fd]) = ViewOf(cls[fd])
          BY <1>1, <1>2, <3>1, <3>5, EnqueuedClients
        <4>2. Sound(ViewOf(cls[fd]), g, sq2)
          BY <1>4, <3>3, Later
        <4> QED BY <3>3, <4>1, <4>2 DEF Told
      <3> QED BY <3>4, <3>5
    <2> QED BY <2>1, <2>2 DEF Served
  <1> QED BY <1>3, <1>5 DEF AllSound, sq2
-----------------------------------------------------------------------------
(* A consumer that is there before and after a step. *)
Continued == \A fd \in Fds :
    (Listens(clients[fd]) /\ clients'[fd].conn = clients[fd].conn)
        => Continues(clients[fd], clients'[fd])

(* enqueue only continues the views of those that stay. *)
LEMMA EnqueuedContinues ==
  ASSUME env \in Setups, NEW cls \in [Fds -> Client], \A fd \in Fds : Partly(cls[fd]),
         NEW msg \in Messages, NEW f \in Enqueued(cls, msg)
  PROVE  \A fd \in Fds : (Listens(cls[fd]) /\ f[fd].conn = cls[fd].conn)
                             => Continues(cls[fd], f[fd])
  BY EnqueuedClients DEF Listens

(* So does a step that touches no client. *)
LEMMA SameContinues ==
  ASSUME AllSound(clients, generation, sequence, Now), UNCHANGED clients
  PROVE  Continued
  BY ContinuesOn DEF AllSound, Continued

(* Disconnecting the dead does not touch those that wait for accept(). *)
LEMMA ConsumersKept ==
  ASSUME Consumers, UNCHANGED inbox, (UNCHANGED <<lpc, backlog>>) \/ lpc' # "accept",
         (UNCHANGED conn) \/ \E cls : conn' = Closed(cls)
  PROVE  Consumers'
  <1>1. CASE UNCHANGED conn
    BY <1>1 DEF Consumers, Pending
  <1>2. CASE \E cls : conn' = Closed(cls)
    <2>1. PICK cls : conn' = Closed(cls)
      BY <1>2
    <2>2. /\ conn' \in [Conns -> {"none", "pending", "accepted", "closed"}]
          /\ \A c \in Conns : conn[c] = "pending" => conn'[c] = "pending"
      BY <2>1 DEF Closed, Consumers
    <2> QED BY <2>2 DEF Consumers, Pending
  <1> QED BY <1>1, <1>2

(* What the link sends, by kind. *)
LEMMA MediaKind ==
  ASSUME NEW s \in Streams, NEW type \in {"Media", "Keyframe"}, NEW n \in Nat, NEW g \in Nat,
         NEW m, m = Message(type, s, n, g, FALSE, None)
  PROVE  /\ m \in Messages /\ IsMedia(m) /\ m.type = type
         /\ m.gen = g /\ m.seq = n /\ m.stream = s
  <1>1. None \in Bodies
    BY DEF Bodies
  <1> QED BY <1>1 DEF Message, Messages, IsMedia

(* A Hello tells its own stream. *)
LEMMA HelloKind ==
  ASSUME NEW s \in Streams, NEW b \in Bodies, NEW g \in Nat, NEW m, m = HelloMsg(s, b, g)
  PROVE  /\ m \in Messages /\ ~IsMedia(m) /\ m.ctl /\ m # NoMsg /\ m.gen = g
         /\ IsHello(s, m) /\ \A k \in Topics : Tells(k, m) <=> k = s
  <1>1. /\ m.type = "Hello" /\ m.stream = s /\ m.seq = 0 /\ m.gen = g /\ m.ctl /\ m.body = b
        /\ m \in Messages
    BY DEF HelloMsg, Message, Messages
  <1>2. m # NoMsg
    BY <1>1 DEF NoMsg, Message
  <1>3. ~IsMedia(m) /\ IsHello(s, m) /\ ~IsHealth(m)
    BY <1>1 DEF IsMedia, IsHello, IsHealth
  <1>4. \A k \in Topics : Tells(k, m) <=> k = s
    BY <1>1, <1>3 DEF Tells, IsHello, Topics, Streams
  <1> QED BY <1>1, <1>2, <1>3, <1>4

(* A health event tells the status, other events nothing. *)
LEMMA EventKind ==
  ASSUME NEW b \in Bodies, NEW n \in Nat, NEW g \in Nat,
         NEW m, m = Message("Event", "monitor", n, g, TRUE, b)
  PROVE  /\ m \in Messages /\ ~IsMedia(m) /\ m.ctl /\ m # NoMsg
         /\ IsHealth(m) <=> b = "health"
         /\ \A k \in Topics : Tells(k, m) <=> (k = "health" /\ b = "health")
  BY DEF Message, Messages, IsMedia, IsHello, IsHealth, Tells, NoMsg, Topics

(* sendMedia *)
LEMMA SendMediaInv ==
  ASSUME Inv, NEW s \in Streams, NEW key \in BOOLEAN, SendMedia(s, key)
  PROVE  Inv' /\ Continued
  <1> DEFINE msg == Message("Media", s, sequence[s], generation, FALSE, None)
             sq2 == [sequence EXCEPT ![s] = @ + 1]
  <1>1. /\ env \in Setups /\ generation \in Nat /\ eventSeq \in Nat
        /\ sequence \in [Streams -> Nat] /\ AllSound(clients, generation, sequence, Now)
    BY DEF Inv, Caches
  <1>2. /\ msg \in Messages /\ IsMedia(msg) /\ msg.gen = generation
        /\ msg.seq = sequence[s] /\ msg.stream = s
    <2>1. /\ sequence[s] \in Nat /\ "Media" \in {"Media", "Keyframe"}
          /\ msg = Message("Media", s, sequence[s], generation, FALSE, None)
      BY <1>1
    <2> HIDE DEF msg
    <2> QED BY <1>1, <2>1, MediaKind DEF Message
  <1>3. /\ sequence' = sq2 /\ keyframe' = CachedKeyframe(s, key)
        /\ UNCHANGED <<env, generation, eventSeq, hello, snapshot, lpc, backlog, inbox>>
    BY DEF SendMedia, Producing, loopVars
  <1>4. Now[s] = hello[s]
    BY DEF Now, Topics, Streams
  <1>5. Now[s] # NoMsg => Now[s].gen = generation
    BY <1>4 DEF Inv, Caches
  <1>6. \/ InUse = {} /\ UNCHANGED <<clients, conn>>
        \/ \E cls \in Enqueued(clients, msg) : clients' = cls /\ conn' = Closed(cls)
    BY DEF SendMedia, SetClients
  <1> HIDE DEF msg
  <1>7. /\ AllSound(clients', generation, sq2, Now) /\ Continued
        /\ (UNCHANGED conn) \/ \E cls : conn' = Closed(cls)
    <2>1. CASE InUse = {} /\ UNCHANGED <<clients, conn>>
      <3>1. \A fd \in Fds : ~Listens(clients[fd])
        BY <2>1 DEF InUse, Listens
      <3> QED BY <1>1, <2>1, <3>1, SameContinues DEF AllSound, Served
    <2>2. CASE \E cls \in Enqueued(clients, msg) : clients' = cls /\ conn' = Closed(cls)
      <3>1. PICK cls \in Enqueued(clients, msg) : clients' = cls /\ conn' = Closed(cls)
        BY <2>2
      <3>2. AllSound(cls, generation, sq2, Now)
        BY <1>1, <1>2, <1>5, EnqueueMedia
      <3>3. clients \in [Fds -> Client] /\ \A fd \in Fds : Partly(clients[fd])
        BY <1>1 DEF AllSound, Served
      <3>4. Continued
        BY <1>1, <1>2, <3>1, <3>3, EnqueuedContinues DEF Continued
      <3> QED BY <3>1, <3>2, <3>4
    <2> QED BY <1>6, <2>1, <2>2
  <1>8. Now' = Now
    BY <1>3 DEF Now
  <1>9. Caches'
    <2>1. sq2 \in [Streams -> Nat] /\ \A t \in Streams : sequence[t] <= sq2[t]
      BY <1>1
    <2>2. sequence["video"] <= sq2["video"] /\ sequence["video"] \in Nat /\ sq2["video"] \in Nat
      BY <1>1, <2>1 DEF Streams
    <2>3. CASE key /\ s = "video"
      <3> DEFINE m == Message("Keyframe", s, sequence[s], generation, FALSE, None)
      <3>1. /\ m \in Messages /\ m.gen = generation /\ m.seq = sequence[s] /\ m.stream = s
            /\ keyframe' = m /\ m.type = "Keyframe"
        <4>1. /\ sequence[s] \in Nat /\ keyframe' = m /\ "Keyframe" \in {"Media", "Keyframe"}
              /\ m = Message("Keyframe", s, sequence[s], generation, FALSE, None)
          BY <1>1, <1>3, <2>3 DEF CachedKeyframe
        <4> HIDE DEF m
        <4> QED BY <1>1, <4>1, MediaKind DEF Message
      <3> HIDE DEF m
      <3>2. m.seq < sq2["video"]
        <4>1. sequence["video"] \in Nat /\ sq2["video"] = sequence["video"] + 1
          BY <1>1, <2>3 DEF Streams
        <4> QED BY <2>3, <3>1, <4>1
      <3> QED BY <1>1, <1>3, <2>1, <2>3, <3>1, <3>2 DEF Inv, Caches
    <2>4. CASE ~(key /\ s = "video")
      <3>1. keyframe' = keyframe
        BY <1>3, <2>4 DEF CachedKeyframe
      <3>2. keyframe # NoMsg => keyframe.seq \in Nat
        BY DEF Inv, Caches, Messages
      <3> QED BY <1>1, <1>3, <2>1, <2>2, <3>1, <3>2 DEF Inv, Caches
    <2> QED BY <2>3, <2>4
  <1>10. Consumers'
    BY <1>3, <1>7, ConsumersKept DEF Inv
  <1> QED BY <1>3, <1>7, <1>8, <1>9, <1>10 DEF Inv

(* setStreamParams, the first parameters of a stream. *)
LEMMA AnnounceInv ==
  ASSUME Inv, NEW s \in Streams, NEW body \in env.params, Announce(s, body)
  PROVE  Inv' /\ Continued
  <1> DEFINE msg == HelloMsg(s, body, generation)
  <1>1. /\ env \in Setups /\ generation \in Nat /\ eventSeq \in Nat
        /\ sequence \in [Streams -> Nat] /\ AllSound(clients, generation, sequence, Now)
        /\ hello \in [Streams -> Messages \cup {NoMsg}]
    BY DEF Inv, Caches
  <1>2. /\ hello' = [hello EXCEPT ![s] = msg]
        /\ UNCHANGED <<env, generation, sequence, eventSeq, keyframe, snapshot, lpc, backlog,
                       inbox>>
    BY DEF Announce, Producing, loopVars
  <1>3. PICK cls \in Enqueued(clients, msg) : clients' = cls /\ conn' = Closed(cls)
    <2>1. hello'[s] = msg
      BY <1>1, <1>2
    <2> QED BY <2>1 DEF Announce, SetClients
  <1>4. /\ msg \in Messages /\ ~IsMedia(msg) /\ msg.ctl /\ msg # NoMsg /\ msg.gen = generation
        /\ IsHello(s, msg) /\ \A k \in Topics : Tells(k, msg) <=> k = s
    <2>1. body \in Bodies
      BY <1>1 DEF Bodies
    <2> QED BY <1>1, <2>1, HelloKind
  <1> HIDE DEF msg
  <1>5. \A k \in Topics : Now'[k] = IF Tells(k, msg) THEN msg ELSE Now[k]
    BY <1>1, <1>2, <1>4 DEF Now, Topics, Streams
  <1>6. AllSound(cls, generation, sequence, Now')
    BY <1>1, <1>4, <1>5, EnqueueTelling
  <1>7. Continued
    <2>1. clients \in [Fds -> Client] /\ \A fd \in Fds : Partly(clients[fd])
      BY <1>1 DEF AllSound, Served
    <2> QED BY <1>1, <1>3, <1>4, <2>1, EnqueuedContinues DEF Continued
  <1>8. Caches'
    BY <1>1, <1>2, <1>4 DEF Inv, Caches
  <1>9. Consumers'
    BY <1>2, <1>3, ConsumersKept DEF Inv
  <1> QED BY <1>2, <1>3, <1>6, <1>7, <1>8, <1>9 DEF Inv

(* A new generation is as sound as the one before. *)
LEMMA NewGeneration ==
  ASSUME NEW cls, NEW g \in Nat, NEW sq \in [Streams -> Nat], NEW now, NEW sq2,
         AllSound(cls, g, sq, now)
  PROVE  AllSound(cls, g + 1, sq2, now)
  <1>1. ASSUME NEW fd \in Fds PROVE Served(cls[fd], g + 1, sq2, now)
    <2>1. Served(cls[fd], g, sq, now)
      BY DEF AllSound
    <2> QED BY <2>1, Later DEF Served
  <1> QED BY <1>1 DEF AllSound

(* setStreamParams, changed parameters. *)
LEMMA ReconfigureInv ==
  ASSUME Inv, NEW s \in Streams, NEW body \in env.params, Reconfigure(s, body)
  PROVE  Inv' /\ Continued
  <1> DEFINE g == generation + 1
             sq == [t \in Streams |-> 0]
             first == HelloMsg(s, body, g)
             o == OtherStream(s)
             other == IF hello[o] = NoMsg THEN NoMsg ELSE HelloMsg(o, hello[o].body, g)
             now1 == [k \in Topics |-> IF Tells(k, first) THEN first ELSE Now[k]]
  <1>1. /\ env \in Setups /\ generation \in Nat /\ eventSeq \in Nat
        /\ sequence \in [Streams -> Nat] /\ AllSound(clients, generation, sequence, Now)
        /\ hello \in [Streams -> Messages \cup {NoMsg}]
        /\ snapshot # NoMsg => snapshot \in Messages /\ IsHealth(snapshot)
    BY DEF Inv, Caches
  <1>2. o \in Streams /\ o # s /\ \A t \in Streams : t = s \/ t = o
    BY DEF OtherStream, Streams
  <1>3. /\ generation' = g /\ sequence' = sq /\ keyframe' = NoMsg
        /\ hello' = [hello EXCEPT ![s] = first, ![o] = IF other = NoMsg THEN @ ELSE other]
        /\ UNCHANGED <<env, eventSeq, snapshot, lpc, backlog, inbox>>
    BY DEF Reconfigure, Producing, loopVars, OtherHello
  <1>4. PICK mid \in Enqueued(clients, first) :
            \/ other = NoMsg /\ SetClients(mid)
            \/ other # NoMsg /\ \E cls \in Enqueued(mid, other) : SetClients(cls)
    BY <1>3 DEF Reconfigure, OtherHello
  <1>5. /\ first \in Messages /\ ~IsMedia(first) /\ first.ctl /\ first # NoMsg
        /\ first.gen = g /\ IsHello(s, first) /\ \A k \in Topics : Tells(k, first) <=> k = s
    <2>1. body \in Bodies /\ g \in Nat
      BY <1>1 DEF Bodies
    <2> QED BY <2>1, HelloKind
  <1>6. ASSUME other # NoMsg
        PROVE  /\ other \in Messages /\ ~IsMedia(other) /\ other.ctl /\ other.gen = g
               /\ IsHello(o, other) /\ \A k \in Topics : Tells(k, other) <=> k = o
    <2>1. hello[o] # NoMsg /\ other = HelloMsg(o, hello[o].body, g)
      BY <1>6
    <2>2. hello[o].body \in Bodies /\ g \in Nat
      BY <1>1, <1>2, <2>1 DEF Messages
    <2> QED BY <1>2, <2>1, <2>2, HelloKind
  <1>7. other = NoMsg => hello[o] = NoMsg
    <2>1. HelloMsg(o, hello[o].body, g) # NoMsg
      BY DEF HelloMsg, Message, NoMsg
    <2> QED BY <2>1
  <1> HIDE DEF first, other, o
  <1>8. /\ hello' \in [Streams -> Messages \cup {NoMsg}]
        /\ hello'[s] = first /\ hello'[o] = other
    BY <1>1, <1>2, <1>3, <1>5, <1>6, <1>7
  <1>9. AllSound(mid, g, sq, now1)
    <2>1. AllSound(clients, g, sq, Now)
      BY <1>1, NewGeneration
    <2>2. \A k \in Topics : now1[k] = IF Tells(k, first) THEN first ELSE Now[k]
      OBVIOUS
    <2> HIDE DEF g, sq, now1
    <2> QED BY <1>1, <1>5, <2>1, <2>2, EnqueueTelling
  <1>10. clients \in [Fds -> Client] /\ \A fd \in Fds : Partly(clients[fd])
    BY <1>1 DEF AllSound, Served
  <1>11. mid \in [Fds -> Client] /\ \A fd \in Fds : Partly(mid[fd])
    BY <1>9 DEF AllSound, Served
  <1>12. \A fd \in Fds : (Listens(clients[fd]) /\ mid[fd].conn = clients[fd].conn)
                             => Continues(clients[fd], mid[fd])
    BY <1>1, <1>5, <1>10, EnqueuedContinues
  <1>13. \A k \in Topics : Now'[k] = IF k = s THEN first ELSE IF k = o THEN other ELSE Now[k]
    BY <1>2, <1>3, <1>8 DEF Now, Topics, Streams
  <1>14. \A k \in Topics : Now[k] = IF k = "health" THEN snapshot ELSE hello[k]
    BY DEF Now
  <1>15. \A k \in Topics : now1[k] = IF k = s THEN first ELSE Now[k]
    BY <1>5
  <1> HIDE DEF g, sq, now1
  <1>16. ASSUME other = NoMsg
         PROVE  AllSound(clients', g, sq, Now') /\ Continued /\ \E cls : conn' = Closed(cls)
    <2>1. clients' = mid /\ conn' = Closed(mid)
      BY <1>4, <1>16 DEF SetClients
    <2>2. \A k \in Topics : Now'[k] = now1[k]
      BY <1>2, <1>7, <1>13, <1>14, <1>15, <1>16 DEF Topics, Streams
    <2>3. AllSound(mid, g, sq, Now')
      BY <1>9, <2>2 DEF AllSound, Served, Told
    <2>4. Continued /\ \E cls : conn' = Closed(cls)
      BY <1>12, <2>1 DEF Continued
    <2> QED BY <2>1, <2>3, <2>4
  <1>17. ASSUME other # NoMsg
         PROVE  AllSound(clients', g, sq, Now') /\ Continued /\ \E cls : conn' = Closed(cls)
    <2>1. PICK cls \in Enqueued(mid, other) : clients' = cls /\ conn' = Closed(cls)
      BY <1>4, <1>17 DEF SetClients
    <2>2. \A k \in Topics : Now'[k] = IF Tells(k, other) THEN other ELSE now1[k]
      BY <1>2, <1>6, <1>13, <1>15, <1>17
    <2>3. AllSound(cls, g, sq, Now')
      BY <1>1, <1>6, <1>9, <1>17, <2>2, EnqueueTelling
    <2>4. ASSUME NEW fd \in Fds, Listens(clients[fd]), cls[fd].conn = clients[fd].conn
          PROVE  Continues(clients[fd], cls[fd])
      <3>1. cls[fd].conn # 0
        BY <2>4 DEF Listens
      <3>2. cls \in [Fds -> Client] /\ cls[fd].conn \in {0, mid[fd].conn}
            /\ Continues(mid[fd], cls[fd])
        BY <1>1, <1>6, <1>11, <1>17, <3>1, EnqueuedClients
      <3>3. Continues(clients[fd], mid[fd])
        BY <1>12, <2>4, <3>1, <3>2
      <3> QED BY <1>10, <1>11, <3>2, <3>3, ContinuesOn
    <2>5. Continued /\ \E c : conn' = Closed(c)
      BY <2>1, <2>4 DEF Continued
    <2> QED BY <2>1, <2>3, <2>5
  <1>18. AllSound(clients', g, sq, Now') /\ Continued /\ \E cls : conn' = Closed(cls)
    BY <1>16, <1>17
  <1>19. Caches'
    <2>1. g \in Nat /\ sq \in [Streams -> Nat]
      BY <1>1 DEF g, sq
    <2>2. \A t \in Streams : hello'[t] # NoMsg => IsHello(t, hello'[t]) /\ hello'[t].gen = g
      BY <1>2, <1>5, <1>6, <1>8
    <2> QED BY <1>1, <1>3, <1>8, <2>1, <2>2 DEF Caches
  <1>20. Consumers'
    BY <1>3, <1>18, ConsumersKept DEF Inv
  <1> QED BY <1>3, <1>18, <1>19, <1>20 DEF Inv

(* publishEventJson *)
LEMMA PublishEventInv ==
  ASSUME Inv, NEW kind \in env.kinds, PublishEvent(kind)
  PROVE  Inv' /\ Continued
  <1> DEFINE msg == EventMsg(kind)
  <1>1. /\ env \in Setups /\ generation \in Nat /\ eventSeq \in Nat
        /\ sequence \in [Streams -> Nat] /\ AllSound(clients, generation, sequence, Now)
    BY DEF Inv, Caches
  <1>2. /\ eventSeq' = eventSeq + 1
        /\ snapshot' = IF kind = "health" THEN msg ELSE snapshot
        /\ UNCHANGED <<env, generation, sequence, hello, keyframe, lpc, backlog, inbox>>
    BY DEF PublishEvent, SnapshotAfter, Producing, loopVars
  <1>3. PICK cls \in Enqueued(clients, msg) : clients' = cls /\ conn' = Closed(cls)
    BY DEF PublishEvent, SetClients
  <1>4. /\ msg \in Messages /\ ~IsMedia(msg) /\ msg.ctl /\ msg # NoMsg
        /\ IsHealth(msg) <=> kind = "health"
        /\ \A k \in Topics : Tells(k, msg) <=> (k = "health" /\ kind = "health")
    <2>1. kind \in Bodies
      BY <1>1 DEF Bodies
    <2> QED BY <1>1, <2>1, EventKind DEF EventMsg
  <1> HIDE DEF msg
  <1>5. \A k \in Topics : Now'[k] = IF Tells(k, msg) THEN msg ELSE Now[k]
    BY <1>2, <1>4 DEF Now
  <1>6. AllSound(cls, generation, sequence, Now')
    BY <1>1, <1>4, <1>5, EnqueueTelling
  <1>7. Continued
    <2>1. clients \in [Fds -> Client] /\ \A fd \in Fds : Partly(clients[fd])
      BY <1>1 DEF AllSound, Served
    <2> QED BY <1>1, <1>3, <1>4, <2>1, EnqueuedContinues DEF Continued
  <1>8. Caches'
    BY <1>1, <1>2, <1>4 DEF Inv, Caches
  <1>9. Consumers'
    BY <1>2, <1>3, ConsumersKept DEF Inv
  <1> QED BY <1>2, <1>3, <1>6, <1>7, <1>8, <1>9 DEF Inv

-----------------------------------------------------------------------------
(* A cached message, or none, is added. *)
LEMMA AddCached ==
  ASSUME NEW g, NEW sq, NEW now, NEW now2, NEW v, Sound(v, g, sq), Told(v, now),
         NEW m, m # NoMsg => m \in Messages /\ ~IsMedia(m),
         \A k \in Topics : now2[k] = IF m # NoMsg /\ Tells(k, m) THEN m ELSE now[k]
  PROVE  Sound(v \o Cached(m), g, sq) /\ Told(v \o Cached(m), now2)
  <1>0. v \in Seq(Messages)
    BY DEF Sound
  <1>1. CASE m = NoMsg
    <2>1. v \o Cached(m) = v
      BY <1>0, <1>1, ConcatEmptySeq DEF Cached
    <2> QED BY <1>1, <2>1 DEF Told
  <1>2. CASE m # NoMsg
    <2>1. v \o Cached(m) = Append(v, m)
      BY <1>0, <1>2, AppendIsConcat DEF Cached
    <2>2. \A k \in Topics : now2[k] = IF Tells(k, m) THEN m ELSE now[k]
      BY <1>2
    <2>3. \A k \in Topics : Latest(v, k, now[k])
      BY DEF Told
    <2>4. /\ Sound(Append(v, m), g, sq)
          /\ \A k \in Topics : Latest(Append(v, m), k, IF Tells(k, m) THEN m ELSE now[k])
      BY <1>0, <1>2, <2>3, AddTelling
    <2> QED BY <2>1, <2>2, <2>4 DEF Told
  <1> QED BY <1>1, <1>2

(* It is a sequence of messages. *)
LEMMA CachedSeq ==
  ASSUME NEW m, m # NoMsg => m \in Messages
  PROVE  Cached(m) \in Seq(Messages)
  <1>1. << >> \in Seq(Messages)
    BY EmptySeq
  <1>2. m \in Messages => <<m>> \in Seq(Messages)
    OBVIOUS
  <1> QED BY <1>1, <1>2 DEF Cached

(* acceptClient: a new consumer can start with what is cached. *)
LEMMA NewClientServed ==
  ASSUME Caches, NEW c \in Conns
  PROVE  /\ NewClient(c) \in Client /\ Partly(NewClient(c))
         /\ Served(NewClient(c), generation, sequence, Now)
  <1> DEFINE hv == hello["video"]
             ha == hello["audio"]
             g == generation
             zero == [s \in Streams |-> 0]
             none == [k \in Topics |-> NoMsg]
             now1 == [k \in Topics |-> IF k = "video" THEN hv ELSE NoMsg]
             now2 == [k \in Topics |-> IF k = "health" THEN NoMsg ELSE hello[k]]
             v1 == Cached(hv)
             v2 == v1 \o Cached(ha)
             v3 == v2 \o Cached(snapshot)
             v4 == v3 \o Cached(keyframe)
             cl == NewClient(c)
  <1>1. /\ hv # NoMsg => hv \in Messages /\ IsHello("video", hv) /\ hv.gen = g
        /\ ha # NoMsg => ha \in Messages /\ IsHello("audio", ha) /\ ha.gen = g
        /\ snapshot # NoMsg => snapshot \in Messages /\ IsHealth(snapshot)
        /\ keyframe # NoMsg => /\ keyframe \in Messages /\ keyframe.type = "Keyframe"
                               /\ keyframe.stream = "video" /\ keyframe.gen = g
                               /\ keyframe.seq < sequence["video"]
        /\ g \in Nat /\ sequence \in [Streams -> Nat]
    BY DEF Caches, Streams
  <1>2. /\ hv # NoMsg => ~IsMedia(hv) /\ \A k \in Topics : Tells(k, hv) <=> k = "video"
        /\ ha # NoMsg => ~IsMedia(ha) /\ \A k \in Topics : Tells(k, ha) <=> k = "audio"
        /\ snapshot # NoMsg => /\ ~IsMedia(snapshot)
                               /\ \A k \in Topics : Tells(k, snapshot) <=> k = "health"
    BY <1>1 DEF IsMedia, IsHello, IsHealth, Tells, Topics
  <1>3. Sound(<< >>, g, zero) /\ Told(<< >>, none)
    BY Silence DEF Told
  <1>4. v1 \in Seq(Messages) /\ v2 \in Seq(Messages) /\ v3 \in Seq(Messages) /\ v4 \in Seq(Messages)
    <2>1. /\ Cached(hv) \in Seq(Messages) /\ Cached(ha) \in Seq(Messages)
          /\ Cached(snapshot) \in Seq(Messages) /\ Cached(keyframe) \in Seq(Messages)
      BY <1>1, CachedSeq
    <2> HIDE DEF hv, ha
    <2> QED BY <2>1, ConcatProperties
  <1>5. Sound(v1, g, zero) /\ Told(v1, now1)
    <2>1. \A k \in Topics : now1[k] = IF hv # NoMsg /\ Tells(k, hv) THEN hv ELSE none[k]
      BY <1>2
    <2>2. << >> \o v1 = v1
      BY <1>4, ConcatEmptySeq
    <2>3. Sound(<< >> \o Cached(hv), g, zero) /\ Told(<< >> \o Cached(hv), now1)
      <3> HIDE DEF hv, none, now1, zero
      <3> QED BY <1>1, <1>2, <1>3, <2>1, AddCached
    <2> QED BY <2>2, <2>3
  <1>6. Sound(v2, g, zero) /\ Told(v2, now2)
    <2>1. \A k \in Topics : now2[k] = IF ha # NoMsg /\ Tells(k, ha) THEN ha ELSE now1[k]
      BY <1>2 DEF Topics
    <2> HIDE DEF hv, ha, now1, now2, zero, v1
    <2> QED BY <1>1, <1>2, <1>5, <2>1, AddCached
  <1>7. Sound(v3, g, zero) /\ Told(v3, Now)
    <2>1. \A k \in Topics :
              Now[k] = IF snapshot # NoMsg /\ Tells(k, snapshot) THEN snapshot ELSE now2[k]
      BY <1>2 DEF Now, Topics
    <2> HIDE DEF hv, ha, now2, zero, v2
    <2> QED BY <1>1, <1>2, <1>6, <2>1, AddCached
  <1>8. zero \in [Streams -> Nat] /\ \A s \in Streams : zero[s] <= sequence[s]
    BY <1>1
  <1>9. Sound(v4, g, sequence) /\ Told(v4, Now)
    <2>1. CASE keyframe = NoMsg
      <3>1. v4 = v3
        BY <1>4, <2>1, ConcatEmptySeq DEF Cached
      <3> HIDE DEF v3, v4, zero
      <3> QED BY <1>1, <1>7, <1>8, <3>1, Later
    <2>2. CASE keyframe # NoMsg
      <3>1. v4 = Append(v3, keyframe)
        BY <1>1, <1>4, <2>2, AppendIsConcat DEF Cached
      <3>2. keyframe \in Messages /\ IsMedia(keyframe) /\ keyframe.seq \in Nat
        BY <1>1, <2>2 DEF IsMedia, Messages
      <3>3. Numbered(v3, g, zero)
        BY <1>7 DEF Sound
      <3>4. ASSUME NEW i \in 1..Len(v3), IsMedia(v3[i]), v3[i].gen = g PROVE FALSE
        <4>1. v3[i] \in Messages
          BY <1>4, ElementOfSeq
        <4>2. v3[i].stream \in Streams /\ v3[i].seq \in Nat
          BY <3>4, <4>1 DEF Messages, IsMedia
        <4>3. v3[i].gen < g \/ v3[i].seq < zero[v3[i].stream]
          BY <3>3, <3>4 DEF Numbered
        <4>4. zero[v3[i].stream] = 0
          BY <4>2
        <4> QED BY <1>1, <3>4, <4>2, <4>3, <4>4
      <3>5. Latest(v3, keyframe.stream, Now["video"])
        BY <1>1, <1>7, <2>2 DEF Told, Topics
      <3>6. Now["video"] # NoMsg => Now["video"].gen = g
        BY <1>1 DEF Now, Topics
      <3>7. \A k \in Topics : Latest(v3, k, Now[k])
        BY <1>7 DEF Told
      <3>8. keyframe.gen = g /\ keyframe.seq < sequence[keyframe.stream]
        BY <1>1, <2>2
      <3> HIDE DEF v3, v4, zero
      <3>9. /\ Sound(Append(v3, keyframe), g, sequence)
            /\ \A k \in Topics : \A y : Latest(v3, k, y) => Latest(Append(v3, keyframe), k, y)
        BY <1>1, <1>4, <1>7, <1>8, <3>2, <3>4, <3>5, <3>6, <3>8, AddMedia
      <3> QED BY <3>1, <3>7, <3>9 DEF Told
    <2> QED BY <2>1, <2>2
  <1>10. cl \in Client /\ cl.wire = << >> /\ cl.queue = v4 /\ cl.off = 0
    <2>1. << >> \in Seq(Messages)
      BY EmptySeq
    <2>2. cl.queue = v4
      BY DEF NewClient, FreeSlot
    <2> HIDE DEF v4
    <2>3. cl = [FreeSlot EXCEPT !.conn = c, !.video = TRUE, !.audio = TRUE, !.events = TRUE,
                                !.queue = v4]
      BY DEF NewClient, v4
    <2> HIDE DEF cl
    <2> QED BY <1>4, <2>1, <2>3 DEF Client, FreeSlot
  <1>11. ViewOf(cl) = v4
    BY <1>4, <1>10, ConcatEmptySeq DEF ViewOf
  <1> HIDE DEF cl, v4
  <1>12. Served(cl, g, sequence, Now) /\ Partly(cl)
    BY <1>9, <1>10, <1>11 DEF Served, Partly
  <1> QED BY <1>10, <1>12 DEF cl
-----------------------------------------------------------------------------
(* What the loop does to one client leaves it served. *)
Kept(cl, r) == /\ r \in Client /\ r.conn = cl.conn /\ (cl.dead => r.dead)
               /\ Continues(cl, r) /\ Served(r, generation, sequence, Now)

(* onClientWritable *)
LEMMA FlushKept ==
  ASSUME env \in Setups, NEW cl \in Client, Served(cl, generation, sequence, Now),
         NEW r \in Flushed(cl)
  PROVE  Kept(cl, r)
  <1>1. Partly(cl)
    BY DEF Served
  <1>2. /\ r \in Client /\ Partly(r) /\ r.conn = cl.conn /\ (cl.dead => r.dead)
        /\ ViewOf(r) = ViewOf(cl) /\ Continues(cl, r)
    BY <1>1, FlushedView
  <1>3. Listens(r) => Listens(cl)
    BY <1>2 DEF Listens
  <1> QED BY <1>2, <1>3 DEF Kept, Served

(* What repeats the present, or says nothing of it, may be queued. *)
LEMMA PushKept ==
  ASSUME Caches, NEW cl \in Client, Served(cl, generation, sequence, Now),
         NEW m, m # NoMsg => m \in Messages /\ ~IsMedia(m),
         \A k \in Topics : (m # NoMsg /\ Tells(k, m)) => Now[k] = m
  PROVE  Kept(cl, Pushed(cl, Cached(m)))
  <1> DEFINE r == Pushed(cl, Cached(m))
  <1>1. Cached(m) \in Seq(Messages)
    BY CachedSeq
  <1>2. Partly(cl)
    BY DEF Served
  <1>3. /\ r \in Client /\ Partly(r) /\ r.conn = cl.conn /\ r.dead = cl.dead
        /\ ViewOf(r) = ViewOf(cl) \o Cached(m) /\ Continues(cl, r)
    BY <1>1, <1>2, PushedView
  <1> HIDE DEF r
  <1>4. ASSUME Listens(r)
        PROVE  Sound(ViewOf(r), generation, sequence) /\ Told(ViewOf(r), Now)
    <2>1. Listens(cl)
      BY <1>3, <1>4 DEF Listens
    <2>2. Sound(ViewOf(cl), generation, sequence) /\ Told(ViewOf(cl), Now)
      BY <2>1 DEF Served
    <2>3. \A k \in Topics : Now[k] = IF m # NoMsg /\ Tells(k, m) THEN m ELSE Now[k]
      OBVIOUS
    <2>4. /\ Sound(ViewOf(cl) \o Cached(m), generation, sequence)
          /\ Told(ViewOf(cl) \o Cached(m), Now)
      <3> HIDE DEF Now
      <3> QED BY <2>2, <2>3, AddCached
    <2> QED BY <1>3, <2>4
  <1>5. Served(r, generation, sequence, Now)
    BY <1>3, <1>4 DEF Served
  <1> QED BY <1>3, <1>5 DEF Kept, r

(* One after the other. *)
LEMMA KeptOn ==
  ASSUME NEW a \in Client, NEW b, NEW c, Kept(a, b), Kept(b, c)
  PROVE  Kept(a, c)
  BY ContinuesOn DEF Kept

(* Two cached messages are queued one after the other. *)
LEMMA PushedTwice ==
  ASSUME NEW cl \in Client, NEW x \in Seq(Messages), NEW y \in Seq(Messages)
  PROVE  Pushed(cl, x \o y) = Pushed(Pushed(cl, x), y)
  <1>1. cl.queue \in Seq(Messages)
    BY Fields
  <1>2. (cl.queue \o x) \o y = cl.queue \o (x \o y)
    BY <1>1, Pieces, Zenon
  <1> QED BY <1>2 DEF Pushed, Client

(* onClientReadable *)
LEMMA ReadKept ==
  ASSUME Caches, Consumers, NEW cl \in Client, cl.conn # 0,
         Served(cl, generation, sequence, Now), NEW r \in ReadBy(cl)
  PROVE  Kept(cl, r)
  <1> DEFINE q == inbox[cl.conn]
             hv == IF q.video THEN hello["video"] ELSE NoMsg
             ha == IF q.audio THEN hello["audio"] ELSE NoMsg
             s == [cl EXCEPT !.video = q.video, !.audio = q.audio, !.events = q.events]
             resp == Message("Response", "monitor", 0, generation, TRUE, None)
  <1>1. env \in Setups /\ generation \in Nat /\ q \in Requests
    BY Fields DEF Caches, Consumers
  <1>2. \/ r = [cl EXCEPT !.dead = TRUE]
        \/ r = cl
        \/ r \in Flushed(Pushed(s, Cached(hv) \o Cached(ha)))
        \/ r \in Flushed(Pushed(cl, <<resp>>))
    BY DEF ReadBy
  <1>3. CASE r = [cl EXCEPT !.dead = TRUE]
    <2>1. /\ r \in Client /\ r.conn = cl.conn /\ r.dead /\ r.wire = cl.wire
          /\ r.queue = cl.queue /\ r.off = cl.off
      BY <1>3 DEF Client
    <2>2. Continues(cl, r)
      <3>1. Fixed(r) = Fixed(cl) /\ ViewOf(r) = ViewOf(cl)
        BY <2>1 DEF Fixed, ViewOf
      <3>2. Fixed(cl) \in Nat
        BY Fields
      <3> QED BY <2>1, <3>1, <3>2, StillToldOn DEF Continues
    <2>3. Served(r, generation, sequence, Now)
      BY <2>1 DEF Served, Partly, Listens
    <2> QED BY <2>1, <2>2, <2>3 DEF Kept
  <1>4. CASE r = cl
    BY <1>4, ContinuesOn DEF Kept
  <1>5. CASE r \in Flushed(Pushed(s, Cached(hv) \o Cached(ha)))
    <2> DEFINE p == Pushed(s, Cached(hv))
               t == Pushed(p, Cached(ha))
    <2>1. Kept(cl, s)
      <3>1. /\ s \in Client /\ s.conn = cl.conn /\ s.dead = cl.dead /\ s.wire = cl.wire
            /\ s.queue = cl.queue /\ s.off = cl.off
        BY <1>1 DEF Client, Requests
      <3> HIDE DEF s
      <3>2. Continues(cl, s)
        <4>1. Fixed(s) = Fixed(cl) /\ ViewOf(s) = ViewOf(cl)
          BY <3>1 DEF Fixed, ViewOf
        <4>2. Fixed(cl) \in Nat
          BY Fields
        <4> QED BY <3>1, <4>1, <4>2, StillToldOn DEF Continues
      <3>3. Served(s, generation, sequence, Now)
        BY <3>1 DEF Served, Partly, Listens, ViewOf
      <3> QED BY <3>1, <3>2, <3>3 DEF Kept
    <2>2. /\ hv # NoMsg => hv \in Messages /\ IsHello("video", hv) /\ hv = hello["video"]
          /\ ha # NoMsg => ha \in Messages /\ IsHello("audio", ha) /\ ha = hello["audio"]
      BY DEF Caches, Streams
    <2>3. Now["video"] = hello["video"] /\ Now["audio"] = hello["audio"]
      BY DEF Now, Topics
    <2> HIDE DEF s, hv, ha
    <2>4. /\ hv # NoMsg => ~IsMedia(hv) /\ \A k \in Topics : Tells(k, hv) => k = "video"
          /\ ha # NoMsg => ~IsMedia(ha) /\ \A k \in Topics : Tells(k, ha) => k = "audio"
      BY <2>2 DEF IsMedia, IsHello, IsHealth, Tells, Topics
    <2>5. s \in Client /\ Served(s, generation, sequence, Now)
      BY <2>1 DEF Kept
    <2>6. Kept(s, p)
      BY <2>2, <2>3, <2>4, <2>5, PushKept
    <2>7. p \in Client /\ Served(p, generation, sequence, Now)
      BY <2>6 DEF Kept
    <2> HIDE DEF p
    <2>8. Kept(p, t)
      BY <2>2, <2>3, <2>4, <2>7, PushKept
    <2>9. Pushed(s, Cached(hv) \o Cached(ha)) = t
      <3>1. Cached(hv) \in Seq(Messages) /\ Cached(ha) \in Seq(Messages)
        BY <2>2, CachedSeq
      <3> QED BY <2>5, <3>1, PushedTwice DEF p
    <2>10. t \in Client /\ Served(t, generation, sequence, Now)
      BY <2>8 DEF Kept
    <2> HIDE DEF t
    <2>11. Kept(t, r)
      BY <1>1, <1>5, <2>9, <2>10, FlushKept
    <2> QED BY <2>1, <2>5, <2>6, <2>7, <2>8, <2>10, <2>11, KeptOn
  <1>6. CASE r \in Flushed(Pushed(cl, <<resp>>))
    <2> DEFINE p == Pushed(cl, <<resp>>)
    <2>1. resp \in Messages /\ ~IsMedia(resp) /\ \A k \in Topics : ~Tells(k, resp)
      BY <1>1 DEF Message, Messages, Bodies, IsMedia, Tells, IsHello, IsHealth
    <2>2. resp # NoMsg
      BY DEF Message, NoMsg
    <2>3. Cached(resp) = <<resp>>
      BY <2>2 DEF Cached
    <2> HIDE DEF resp
    <2>4. Kept(cl, p)
      BY <2>1, <2>3, PushKept
    <2>5. p \in Client /\ Served(p, generation, sequence, Now)
      BY <2>4 DEF Kept
    <2> HIDE DEF p
    <2>6. Kept(p, r)
      BY <1>1, <1>6, <2>5, FlushKept DEF p
    <2> QED BY <2>4, <2>5, <2>6, KeptOn
  <1> QED BY <1>2, <1>3, <1>4, <1>5, <1>6
-----------------------------------------------------------------------------
(* A step on one client. *)
LEMMA OneClient ==
  ASSUME AllSound(clients, generation, sequence, Now), NEW fd \in Fds, NEW r \in Client,
         Served(r, generation, sequence, Now), clients' = [clients EXCEPT ![fd] = r],
         Listens(clients[fd]) => Continues(clients[fd], r)
  PROVE  AllSound(clients', generation, sequence, Now) /\ Continued
  <1>1. clients \in [Fds -> Client] /\ clients' \in [Fds -> Client]
    BY DEF AllSound
  <1>2. \A g \in Fds : clients'[g] = IF g = fd THEN r ELSE clients[g]
    BY <1>1
  <1>3. \A g \in Fds : Served(clients'[g], generation, sequence, Now)
    BY <1>2 DEF AllSound
  <1>4. Continued
    BY <1>1, <1>2, ContinuesOn DEF Continued
  <1> QED BY <1>1, <1>3, <1>4 DEF AllSound

(* acceptClient *)
LEMMA AcceptInv ==
  ASSUME Inv, Accept
  PROVE  Inv' /\ Continued
  <1>1. /\ AllSound(clients, generation, sequence, Now) /\ env \in Setups
        /\ clients \in [Fds -> Client] /\ Caches /\ Consumers
    BY DEF Inv, Caches, AllSound
  <1>2. /\ lpc = "accept" /\ lpc' = "serve"
        /\ UNCHANGED <<env, generation, sequence, eventSeq, hello, keyframe, snapshot,
                       backlog, inbox>>
    BY DEF Accept, linkVars
  <1>3. Now' = Now /\ Caches'
    BY <1>1, <1>2 DEF Now, Caches
  <1>4. CASE ~(backlog /\ Fds # InUse)
    <2>1. UNCHANGED <<clients, conn>>
      BY <1>4 DEF Accept
    <2>2. Continued
      BY <1>1, <2>1, SameContinues
    <2>3. Consumers'
      BY <1>1, <1>2, <2>1 DEF Consumers
    <2> QED BY <1>1, <1>2, <1>3, <2>1, <2>2, <2>3 DEF Inv
  <1>5. CASE backlog /\ Fds # InUse
    <2> DEFINE c == Min(Pending)
               fd == Min(Fds \ InUse)
    <2>1. c \in Pending /\ c \in Conns
      <3>1. Pending # {} /\ Pending \subseteq Conns /\ Pending \subseteq Nat
        BY <1>1, <1>2, <1>5, WorkerLinkAssumption DEF Consumers, Pending
      <3> QED BY <3>1, MinExists
    <2>2. fd \in Fds \ InUse
      <3>1. Fds \ InUse # {} /\ Fds \ InUse \subseteq Nat
        BY <1>5, WorkerLinkAssumption DEF InUse
      <3> QED BY <3>1, MinExists
    <2>3. \/ conn' = [conn EXCEPT ![c] = "closed"] /\ UNCHANGED clients
          \/ /\ \E cl \in Flushed(NewClient(c)) : clients' = [clients EXCEPT ![fd] = cl]
             /\ conn' = [conn EXCEPT ![c] = "accepted"]
      BY <1>5 DEF Accept
    <2> HIDE DEF c, fd
    <2>4. AllSound(clients', generation, sequence, Now) /\ Continued
      <3>1. CASE UNCHANGED clients
        BY <1>1, <3>1, SameContinues
      <3>2. CASE \E cl \in Flushed(NewClient(c)) : clients' = [clients EXCEPT ![fd] = cl]
        <4>1. PICK cl \in Flushed(NewClient(c)) : clients' = [clients EXCEPT ![fd] = cl]
          BY <3>2
        <4>2. NewClient(c) \in Client /\ Served(NewClient(c), generation, sequence, Now)
          BY <1>1, <2>1, NewClientServed
        <4>3. cl \in Client /\ Served(cl, generation, sequence, Now)
          BY <1>1, <4>2, FlushKept DEF Kept
        <4>4. ~Listens(clients[fd])
          BY <2>2 DEF InUse, Listens
        <4> QED BY <1>1, <2>2, <4>1, <4>3, <4>4, OneClient
      <3> QED BY <2>3, <3>1, <3>2
    <2>5. Consumers'
      BY <1>1, <1>2, <2>1, <2>3 DEF Consumers
    <2> QED BY <1>2, <1>3, <2>4, <2>5 DEF Inv
  <1> QED BY <1>4, <1>5

(* The events of one descriptor. *)
LEMMA ServeInv ==
  ASSUME Inv, NEW fd \in Fds, Serve(fd)
  PROVE  Inv' /\ Continued
  <1> DEFINE cl == clients[fd]
             readable == cl.conn # 0 /\ "HUP" \notin ready[fd] /\ "IN" \in ready[fd]
  <1>1. /\ AllSound(clients, generation, sequence, Now) /\ env \in Setups
        /\ Caches /\ Consumers /\ cl \in Client /\ Served(cl, generation, sequence, Now)
    BY DEF Inv, Caches, AllSound
  <1>2. /\ lpc = "serve"
        /\ UNCHANGED <<env, generation, sequence, eventSeq, hello, keyframe, snapshot,
                       lpc, backlog, conn>>
        /\ inbox' = IF readable THEN [inbox EXCEPT ![cl.conn] = NoRequest] ELSE inbox
    BY DEF Serve, linkVars
  <1>3. Now' = Now /\ Caches'
    BY <1>1, <1>2 DEF Now, Caches
  <1>4. AllSound(clients', generation, sequence, Now) /\ Continued
    <2>1. CASE cl.conn = 0
      <3>1. UNCHANGED clients
        BY <2>1 DEF Serve
      <3> QED BY <1>1, <3>1, SameContinues
    <2>2. CASE cl.conn # 0 /\ "HUP" \in ready[fd]
      <3> DEFINE r == [cl EXCEPT !.dead = TRUE]
      <3>1. clients' = [clients EXCEPT ![fd] = r]
        BY <2>2 DEF Serve
      <3>2. /\ r \in Client /\ r.conn = cl.conn /\ r.dead /\ r.wire = cl.wire
            /\ r.queue = cl.queue /\ r.off = cl.off
        BY <1>1 DEF Client
      <3> HIDE DEF r
      <3>3. Fixed(r) = Fixed(cl) /\ ViewOf(r) = ViewOf(cl) /\ Fixed(cl) \in Nat
        BY <1>1, <3>2, Fields DEF Fixed, ViewOf
      <3>4. Continues(cl, r)
        BY <3>2, <3>3, StillToldOn DEF Continues
      <3>5. Served(r, generation, sequence, Now)
        BY <1>1, <3>2 DEF Served, Partly, Listens
      <3> QED BY <1>1, <3>1, <3>2, <3>4, <3>5, OneClient
    <2>3. CASE cl.conn # 0 /\ "HUP" \notin ready[fd]
      <3>1. PICK r \in IF readable THEN ReadBy(cl) ELSE {cl} :
                \E w \in IF ~r.dead /\ "OUT" \in ready[fd] THEN Flushed(r) ELSE {r} :
                    clients' = [clients EXCEPT ![fd] = w]
        BY <2>3 DEF Serve
      <3>2. PICK w \in IF ~r.dead /\ "OUT" \in ready[fd] THEN Flushed(r) ELSE {r} :
                clients' = [clients EXCEPT ![fd] = w]
        BY <3>1
      <3> HIDE DEF cl, readable
      <3>3. Kept(cl, r)
        <4>1. CASE r = cl
          BY <1>1, <4>1, ContinuesOn DEF Kept
        <4>2. CASE r \in ReadBy(cl)
          BY <1>1, <2>3, <4>2, ReadKept
        <4> QED BY <3>1, <4>1, <4>2
      <3>4. r \in Client /\ Served(r, generation, sequence, Now)
        BY <3>3 DEF Kept
      <3>5. Kept(r, w)
        <4>1. CASE w = r
          BY <3>4, <4>1, ContinuesOn DEF Kept
        <4>2. CASE w \in Flushed(r)
          BY <1>1, <3>4, <4>2, FlushKept
        <4> QED BY <3>2, <4>1, <4>2
      <3>6. Kept(cl, w)
        BY <1>1, <3>3, <3>5, KeptOn
      <3>7. w \in Client /\ Served(w, generation, sequence, Now) /\ Continues(cl, w)
        BY <3>6 DEF Kept
      <3> QED BY <1>1, <3>2, <3>7, OneClient DEF cl
    <2> QED BY <2>1, <2>2, <2>3
  <1>5. Consumers'
    <2>1. NoRequest \in Requests
      BY DEF NoRequest, Requests
    <2>2. inbox' \in [Conns -> Requests]
      BY <1>1, <1>2, <2>1 DEF Consumers
    <2> QED BY <1>1, <1>2, <2>2 DEF Consumers
  <1> QED BY <1>2, <1>3, <1>4, <1>5 DEF Inv

(* reapDead *)
LEMMA ReapedSound ==
  ASSUME NEW f, AllSound(f, generation, sequence, Now), clients' = Reaped(f),
         \A fd \in Fds : Listens(clients[fd]) => Continues(clients[fd], f[fd])
  PROVE  AllSound(clients', generation, sequence, Now) /\ Continued
  <1>1. clients' = [fd \in Fds |-> IF f[fd].dead THEN FreeSlot ELSE f[fd]]
    BY DEF Reaped
  <1>2. clients' \in [Fds -> Client]
    BY <1>1, FreeClient DEF AllSound
  <1>3. ASSUME NEW fd \in Fds PROVE Served(clients'[fd], generation, sequence, Now)
    BY <1>1, FreeClient DEF AllSound, Served
  <1>4. Continued
    <2> SUFFICES ASSUME NEW fd \in Fds, Listens(clients[fd]),
                        clients'[fd].conn = clients[fd].conn
                 PROVE  Continues(clients[fd], clients'[fd])
      BY DEF Continued
    <2>1. clients'[fd] # FreeSlot
      BY DEF Listens, FreeSlot
    <2> QED BY <1>1, <2>1
  <1> QED BY <1>2, <1>3, <1>4 DEF AllSound

(* The end of an iteration, without a statistics round. *)
LEMMA EndIterationInv ==
  ASSUME Inv, EndIteration
  PROVE  Inv' /\ Continued
  <1>1. /\ AllSound(clients, generation, sequence, Now) /\ Caches /\ Consumers
        /\ clients \in [Fds -> Client]
    BY DEF Inv, AllSound
  <1>2. /\ clients' = Reaped(clients) /\ conn' = Closed(Reaped(clients)) /\ lpc' = "top"
        /\ UNCHANGED <<env, generation, sequence, eventSeq, hello, keyframe, snapshot,
                       backlog, inbox>>
    BY DEF EndIteration, linkVars, SetClients
  <1>3. Now' = Now /\ Caches'
    BY <1>1, <1>2 DEF Now, Caches
  <1>4. AllSound(clients', generation, sequence, Now) /\ Continued
    BY <1>1, <1>2, ReapedSound, ContinuesOn
  <1>5. Consumers'
    BY <1>1, <1>2, ConsumersKept
  <1> QED BY <1>2, <1>3, <1>4, <1>5 DEF Inv

(* The end of an iteration, with one. *)
LEMMA EndIterationWithStatsInv ==
  ASSUME Inv, EndIterationWithStats
  PROVE  Inv' /\ Continued
  <1>1. /\ AllSound(clients, generation, sequence, Now) /\ Caches /\ Consumers
        /\ clients \in [Fds -> Client] /\ env \in Setups /\ generation \in Nat
    BY DEF Inv, AllSound, Caches
  <1> DEFINE R(fd) == IF clients[fd].conn # 0 /\ ~clients[fd].dead
                        THEN Flushed(Pushed(clients[fd], <<StatsMsg>>)) ELSE {clients[fd]}
  <1>2. PICK f \in [Fds -> UNION {R(fd) : fd \in Fds}] :
            /\ \A fd \in Fds : f[fd] \in R(fd)
            /\ SetClients(Reaped(f))
    BY DEF EndIterationWithStats
  <1>3. /\ clients' = Reaped(f) /\ conn' = Closed(Reaped(f)) /\ lpc' = "top"
        /\ UNCHANGED <<env, generation, sequence, eventSeq, hello, keyframe, snapshot,
                       backlog, inbox>>
    BY <1>2 DEF EndIterationWithStats, linkVars, SetClients
  <1>4. Now' = Now /\ Caches'
    BY <1>1, <1>3 DEF Now, Caches
  <1>5. ASSUME NEW fd \in Fds PROVE Kept(clients[fd], f[fd])
    <2> DEFINE cl == clients[fd]
               r == f[fd]
               p == Pushed(cl, <<StatsMsg>>)
    <2>1. cl \in Client /\ Served(cl, generation, sequence, Now) /\ (r = cl \/ r \in Flushed(p))
      BY <1>1, <1>2 DEF AllSound
    <2> HIDE DEF cl, r
    <2>2. CASE r = cl
      BY <2>1, <2>2, ContinuesOn DEF Kept, cl, r
    <2>3. CASE r \in Flushed(p)
      <3>1. /\ StatsMsg \in Messages /\ ~IsMedia(StatsMsg)
            /\ \A k \in Topics : ~Tells(k, StatsMsg)
        BY <1>1 DEF StatsMsg, Message, Messages, Bodies, IsMedia, Tells, IsHello, IsHealth
      <3>2. StatsMsg # NoMsg
        BY DEF StatsMsg, Message, NoMsg
      <3>3. Cached(StatsMsg) = <<StatsMsg>>
        BY <3>2 DEF Cached
      <3>4. Kept(cl, p)
        BY <1>1, <2>1, <3>1, <3>3, PushKept
      <3>5. p \in Client /\ Served(p, generation, sequence, Now)
        BY <3>4 DEF Kept
      <3> HIDE DEF p
      <3>6. Kept(p, r)
        BY <1>1, <2>3, <3>5, FlushKept
      <3>7. Kept(cl, r)
        BY <2>1, <3>4, <3>6, KeptOn
      <3> QED BY <3>7 DEF cl, r
    <2> QED BY <2>1, <2>2, <2>3
  <1>6. f \in [Fds -> Client]
    BY <1>2, <1>5 DEF Kept
  <1>7. AllSound(f, generation, sequence, Now)
    BY <1>5, <1>6 DEF AllSound, Kept
  <1>8. AllSound(clients', generation, sequence, Now) /\ Continued
    BY <1>3, <1>5, <1>7, ReapedSound DEF Kept
  <1>9. Consumers'
    BY <1>1, <1>3, ConsumersKept
  <1> QED BY <1>3, <1>4, <1>8, <1>9 DEF Inv
-----------------------------------------------------------------------------
(* A consumer that is there before and after a step is still told what it was to be told. *)
Untaken == \A fd \in Fds :
    (Listens(clients[fd]) /\ clients'[fd].conn = clients[fd].conn)
        => StillTold(ViewOf(clients[fd]), ViewOf(clients'[fd]))

(* stop(): Bye overtakes what is queued. *)
LEMMA StopByeInv ==
  ASSUME Inv, StopBye
  PROVE  Inv' /\ spc' # spc /\ Untaken
  <1>1. /\ AllSound(clients, generation, sequence, Now) /\ Caches /\ Consumers
        /\ clients \in [Fds -> Client] /\ generation \in Nat
    BY DEF Inv, AllSound, Caches
  <1>2. /\ spc = "bye" /\ spc' = "join"
        /\ UNCHANGED <<env, generation, sequence, eventSeq, hello, keyframe, snapshot,
                       lpc, backlog, conn, inbox>>
        /\ clients' = [fd \in Fds |->
               IF fd \in InUse /\ clients[fd].conn \notin hung
                 THEN [clients[fd] EXCEPT !.wire = Append(@, Bye)] ELSE clients[fd]]
    BY DEF StopBye, linkVars, loopVars, peerVars
  <1>3. Now' = Now /\ Caches' /\ Consumers'
    BY <1>1, <1>2 DEF Now, Caches, Consumers, Pending
  <1>4. Bye \in Messages /\ Bye.type = "Bye"
    BY <1>1 DEF Bye, Message, Messages, Bodies, Streams
  <1>5. ASSUME NEW fd \in Fds
        PROVE  /\ clients'[fd] \in Client /\ Served(clients'[fd], generation, sequence, Now)
               /\ StillTold(ViewOf(clients[fd]), ViewOf(clients'[fd]))
    <2> DEFINE cl == clients[fd]
               r == clients'[fd]
    <2>1. cl \in Client /\ Served(cl, generation, sequence, Now)
      BY <1>1 DEF AllSound
    <2>2. r = cl \/ r = [cl EXCEPT !.wire = Append(cl.wire, Bye)]
      BY <1>2
    <2> HIDE DEF cl, r
    <2>3. CASE r = cl
      BY <2>1, <2>3, StillToldOn DEF r, cl
    <2>4. CASE r = [cl EXCEPT !.wire = Append(cl.wire, Bye)]
      <3>1. cl.wire \in Seq(Messages) /\ cl.queue \in Seq(Messages)
        BY <2>1, Fields
      <3>2. Append(cl.wire, Bye) \in Seq(Messages)
        BY <1>4, <3>1, AppendProperties
      <3>3. /\ r \in Client /\ r.conn = cl.conn /\ r.dead = cl.dead /\ r.off = cl.off
            /\ r.queue = cl.queue /\ r.wire = Append(cl.wire, Bye)
        BY <2>1, <2>4, <3>2 DEF Client
      <3>4. NoWorse(ViewOf(cl), ViewOf(r)) /\ StillTold(ViewOf(cl), ViewOf(r))
        BY <1>4, <3>1, <3>3, Between DEF ViewOf
      <3>5. Listens(r) => Listens(cl)
        BY <3>3 DEF Listens
      <3>6. Listens(cl) => /\ Sound(ViewOf(r), generation, sequence)
                           /\ Told(ViewOf(r), Now)
        BY <2>1, <3>4 DEF Served, NoWorse, Told
      <3>7. Partly(r)
        BY <2>1, <3>3 DEF Served, Partly
      <3> QED BY <3>3, <3>4, <3>5, <3>6, <3>7 DEF Served, r, cl
    <2> QED BY <2>2, <2>3, <2>4
  <1>6. AllSound(clients', generation, sequence, Now)
    <2>1. clients' \in [Fds -> Client]
      BY <1>2, <1>5
    <2> QED BY <1>5, <2>1 DEF AllSound
  <1>7. Untaken
    BY <1>5 DEF Untaken
  <1> QED BY <1>2, <1>3, <1>6, <1>7 DEF Inv

(* stop(), once the loop has ended: clients_ is cleared. *)
LEMMA StopJoinInv ==
  ASSUME Inv, StopJoin
  PROVE  Inv' /\ spc' # spc /\ Untaken
  <1>1. Caches /\ Consumers
    BY DEF Inv
  <1>2. /\ spc = "join" /\ spc' = "done" /\ lpc = "exited"
        /\ UNCHANGED <<env, generation, sequence, eventSeq, hello, keyframe, snapshot,
                       lpc, backlog, inbox>>
        /\ clients' = [fd \in Fds |-> FreeSlot]
        /\ conn' = [c \in Conns |-> IF conn[c] = "none" THEN "none" ELSE "closed"]
    BY DEF StopJoin, linkVars, loopVars
  <1>3. Now' = Now /\ Caches' /\ Consumers'
    BY <1>1, <1>2 DEF Now, Caches, Consumers
  <1>4. AllSound(clients', generation, sequence, Now)
    BY <1>2, FreeClient DEF AllSound, Served
  <1>5. Untaken
    BY <1>2 DEF Untaken, Listens, FreeSlot
  <1> QED BY <1>2, <1>3, <1>4, <1>5 DEF Inv

(* The steps that touch no client. *)
LEMMA UntouchedInv ==
  ASSUME Inv,
         \/ LoopTop \/ Poll \/ StopRequest \/ UNCHANGED vars
         \/ \E c \in Conns : Connect(c) \/ Request(c) \/ Hangup(c)
  PROVE  Inv' /\ Continued
  <1>1. AllSound(clients, generation, sequence, Now) /\ Caches /\ Consumers
    BY DEF Inv
  <1>2. UNCHANGED <<clients, env, generation, sequence, eventSeq, hello, keyframe, snapshot>>
    BY DEF LoopTop, Poll, StopRequest, Connect, Request, Hangup, vars, linkVars
  <1>3. Now' = Now /\ Caches'
    BY <1>1, <1>2 DEF Now, Caches
  <1>4. Consumers'
    <2>1. CASE LoopTop
      BY <1>1, <2>1 DEF LoopTop, peerVars, Consumers
    <2>2. CASE Poll
      BY <1>1, <2>2 DEF Poll, peerVars, Consumers, Pending
    <2>3. CASE StopRequest
      BY <1>1, <2>3 DEF StopRequest, loopVars, peerVars, Consumers, Pending
    <2>4. CASE UNCHANGED vars
      BY <1>1, <2>4 DEF vars, loopVars, peerVars, Consumers, Pending
    <2>5. ASSUME NEW c \in Conns, Connect(c) PROVE Consumers'
      BY <1>1, <2>5 DEF Connect, loopVars, Consumers, Pending
    <2>6. ASSUME NEW c \in Conns, Request(c) PROVE Consumers'
      <3>1. env.requests \subseteq Requests
        BY <1>1, WorkerLinkAssumption DEF Caches
      <3> QED BY <1>1, <2>6, <3>1 DEF Request, loopVars, Consumers, Pending
    <2>7. ASSUME NEW c \in Conns, Hangup(c) PROVE Consumers'
      BY <1>1, <2>7 DEF Hangup, loopVars, Consumers, Pending
    <2> QED BY <2>1, <2>2, <2>3, <2>4, <2>5, <2>6, <2>7
  <1>5. Continued
    BY <1>1, <1>2, SameContinues
  <1> QED BY <1>1, <1>2, <1>3, <1>4, <1>5 DEF Inv

(* At first nobody is connected. *)
LEMMA InitInv == Init => Inv
  <1> SUFFICES ASSUME Init PROVE Inv
    OBVIOUS
  <1> USE DEF Init
  <1>1. Caches
    BY DEF Caches
  <1>2. Consumers
    BY DEF Consumers, NoRequest, Requests
  <1>3. AllSound(clients, generation, sequence, Now)
    BY FreeClient DEF AllSound, Served
  <1> QED BY <1>1, <1>2, <1>3 DEF Inv

(* Every step keeps the invariant, and what the consumers that stay are told. *)
LEMMA StepInv ==
  ASSUME Inv, [Next]_vars
  PROVE  Inv' /\ Untaken /\ (spc' = spc => Continued)
  <1>0. Continued => Untaken
    BY DEF Continued, Continues, Untaken
  <1>1. env.media \subseteq Streams
    BY WorkerLinkAssumption DEF Inv, Caches, Streams
  <1>2. CASE Producer
    BY <1>0, <1>1, <1>2, SendMediaInv, AnnounceInv, ReconfigureInv, PublishEventInv DEF Producer
  <1>3. CASE Loop
    BY <1>0, <1>3, UntouchedInv, AcceptInv, ServeInv, EndIterationInv, EndIterationWithStatsInv
       DEF Loop
  <1>4. CASE StopRequest \/ Consumer \/ UNCHANGED vars
    BY <1>0, <1>4, UntouchedInv DEF Consumer
  <1>5. CASE StopBye \/ StopJoin
    BY <1>5, StopByeInv, StopJoinInv
  <1> QED BY <1>2, <1>3, <1>4, <1>5 DEF Next
-----------------------------------------------------------------------------
(* The greatest of some positions, 0 if there is none. *)
LEMMA LastHit ==
  ASSUME NEW n \in Nat, NEW S \in SUBSET (1..n), NEW h, h = IF S = {} THEN 0 ELSE Max(S)
  PROVE  /\ h \in 0..n
         /\ h # 0 => h \in S
         /\ \A k \in S : k <= h /\ h # 0
  <1>1. CASE S = {}
    BY <1>1
  <1>2. CASE S # {}
    <2>1. S \subseteq 0..n
      OBVIOUS
    <2>2. Max(S) \in S /\ \A y \in S : Max(S) >= y
      BY <1>2, <2>1, MaxExists
    <2> HIDE DEF Max
    <2> QED BY <1>2, <2>2
  <1> QED BY <1>1, <1>2

(* What was last said of a topic is found at its last mention. *)
LEMMA LatestFound ==
  ASSUME NEW v \in Seq(Messages), NEW k \in Topics, NEW m, m # NoMsg, Latest(v, k, m),
         NEW h, h = IF Telling(v, k) = {} THEN 0 ELSE Max(Telling(v, k))
  PROVE  h # 0 /\ v[h] = m
  <1> DEFINE S == Telling(v, k)
  <1>1. Len(v) \in Nat /\ S \in SUBSET (1..Len(v))
    BY LenProperties DEF Telling
  <1>2. PICK c \in 1..Len(v) : /\ v[c] = m /\ Tells(k, m)
                               /\ \A i \in c + 1..Len(v) : ~Tells(k, v[i])
    BY DEF Latest
  <1>3. c \in S /\ h = IF S = {} THEN 0 ELSE Max(S)
    BY <1>2 DEF Telling
  <1> HIDE DEF S
  <1>4. h \in 0..Len(v) /\ (h # 0 => h \in S) /\ \A i \in S : i <= h /\ h # 0
    BY <1>1, <1>3, LastHit
  <1>5. h \in S /\ c <= h
    BY <1>3, <1>4
  <1>6. ~(h \in c + 1..Len(v))
    BY <1>2, <1>5 DEF S, Telling
  <1>7. c = h
    BY <1>1, <1>2, <1>4, <1>5, <1>6
  <1> QED BY <1>2, <1>4, <1>5, <1>7

(* The invariant gives what the consumers are promised. *)
LEMMA InvGives == Inv => HelloCoversMedia /\ SequencesGrow /\ StatusCurrent
  <1> SUFFICES ASSUME Inv PROVE HelloCoversMedia /\ SequencesGrow /\ StatusCurrent
    OBVIOUS
  <1>1. ASSUME NEW fd \in Fds, Live(fd)
        PROVE  /\ View(fd) \in Seq(Messages) /\ Growing(View(fd)) /\ Covered(View(fd))
               /\ \A k \in Topics : Latest(View(fd), k, Now[k])
    <2>1. Sound(View(fd), generation, sequence) /\ Told(View(fd), Now)
      BY <1>1 DEF Inv, AllSound, Served, Listens, Live, View, ViewOf
    <2> QED BY <2>1 DEF Sound, Told
  <1>2. SequencesGrow
    BY <1>1 DEF SequencesGrow, Growing
  <1>3. ASSUME NEW fd \in Fds, Live(fd), snapshot # NoMsg
        PROVE  LET v == View(fd)
                   h == LastBefore(v, Len(v), IsHealth)
               IN h # 0 /\ v[h] = snapshot
    <2> DEFINE v == View(fd)
               h == LastBefore(v, Len(v), IsHealth)
    <2>1. h = IF {i \in 1..Len(v) : IsHealth(v[i])} = {} THEN 0
              ELSE Max({i \in 1..Len(v) : IsHealth(v[i])})
      BY DEF LastBefore
    <2>2. h = IF Telling(v, "health") = {} THEN 0 ELSE Max(Telling(v, "health"))
      BY <2>1 DEF Telling, Tells
    <2> DEFINE k == "health"
               m0 == snapshot
    <2>3. v \in Seq(Messages) /\ k \in Topics /\ Latest(v, k, m0) /\ m0 # NoMsg
      BY <1>1, <1>3 DEF Now, Topics
    <2> HIDE DEF v, h, m0, k
    <2>4. h = IF Telling(v, k) = {} THEN 0 ELSE Max(Telling(v, k))
      BY <2>2 DEF k
    <2>5. h # 0 /\ v[h] = m0
      BY <2>3, <2>4, LatestFound
    <2> QED BY <2>5 DEF v, h, m0
  <1>4. ASSUME NEW fd \in Fds, Live(fd), NEW s \in Streams, hello[s] # NoMsg
        PROVE  LET v == View(fd)
                   h == LastBefore(v, Len(v), LAMBDA m : IsHello(s, m))
               IN h # 0 /\ v[h] = hello[s]
    <2> DEFINE v == View(fd)
               h == LastBefore(v, Len(v), LAMBDA m : IsHello(s, m))
    <2>1. h = IF {i \in 1..Len(v) : IsHello(s, v[i])} = {} THEN 0
              ELSE Max({i \in 1..Len(v) : IsHello(s, v[i])})
      BY DEF LastBefore
    <2>2. h = IF Telling(v, s) = {} THEN 0 ELSE Max(Telling(v, s))
      BY <2>1 DEF Telling, Tells, Streams
    <2> DEFINE m0 == hello[s]
    <2>3. v \in Seq(Messages) /\ s \in Topics /\ Latest(v, s, m0) /\ m0 # NoMsg
      BY <1>1, <1>4 DEF Now, Topics, Streams
    <2> HIDE DEF v, h, m0
    <2>4. h # 0 /\ v[h] = m0
      BY <2>2, <2>3, LatestFound
    <2> QED BY <2>4 DEF v, h, m0
  <1>5. ASSUME NEW fd \in Fds, Live(fd), NEW i \in 1..Len(View(fd)), IsMedia(View(fd)[i])
        PROVE  LET v == View(fd)
                   h == LastBefore(v, i - 1, LAMBDA m : IsHello(v[i].stream, m))
               IN h # 0 => v[h].gen = v[i].gen
    <2> DEFINE v == View(fd)
               S == {j \in 1..i - 1 : IsHello(v[i].stream, v[j])}
               h == LastBefore(v, i - 1, LAMBDA m : IsHello(v[i].stream, m))
    <2>1. h = IF S = {} THEN 0 ELSE Max(S)
      BY DEF LastBefore
    <2>2. Len(v) \in Nat /\ Covered(v)
      BY <1>1, <1>5, LenProperties
    <2>3. i - 1 \in Nat /\ S \in SUBSET (1..i - 1)
      BY <2>2
    <2> HIDE DEF h
    <2>4. h \in 0..i - 1 /\ (h # 0 => h \in S) /\ \A k \in S : k <= h
      <3> HIDE DEF S
      <3> QED BY <2>1, <2>3, LastHit
    <2>5. ASSUME h # 0 PROVE v[h].gen = v[i].gen
      <3> HIDE DEF v
      <3>1. h \in 1..Len(v) /\ h < i /\ IsHello(v[i].stream, v[h]) /\ i \in 1..Len(v)
        BY <1>5, <2>2, <2>4, <2>5 DEF v
      <3>2. ASSUME NEW k \in h + 1..i - 1 PROVE ~IsHello(v[i].stream, v[k])
        <4>1. k \in 1..i - 1 /\ ~(k <= h)
          BY <2>3, <2>4
        <4> QED BY <2>4, <4>1
      <3>3. IsMedia(v[i])
        BY <1>5 DEF v
      <3> HIDE DEF S
      <3> QED BY <2>2, <3>1, <3>2, <3>3 DEF Covered
    <2> QED BY <2>5 DEF h
  <1>6. HelloCoversMedia
    BY <1>4, <1>5 DEF HelloCoversMedia
  <1>7. StatusCurrent
    BY <1>3 DEF StatusCurrent
  <1> QED BY <1>2, <1>6, <1>7

(* Any consumer, early, late, slow or re-subscribed, can decode what it gets, sees the *)
(* frames in order, and was last told the current parameters and status               *)
(* (WorkerLink.cpp:351-354, 384-390, 581-629).                                         *)
THEOREM LinkOrdered == Spec => [](HelloCoversMedia /\ SequencesGrow /\ StatusCurrent)
  <1>1. Inv /\ [Next]_vars => Inv'
    BY StepInv
  <1> QED BY <1>1, InitInv, InvGives, PTL DEF Spec

(* A message written in part is finished before anything else is written              *)
(* (WorkerLink.cpp:256-266, 438-482).                                                  *)
THEOREM PartialWritesFinish == Spec => PartialWriteFinishes
  <1> DEFINE Finishes ==
                 \A fd \in Fds : (Live(fd) /\ clients[fd].off = 1 /\ spc' = spc
                                    /\ clients'[fd].conn = clients[fd].conn
                                    /\ Len(View(fd)') >= Len(clients[fd].wire) + 1) =>
                     View(fd)'[Len(clients[fd].wire) + 1] = Head(clients[fd].queue)
  <1>1. Inv /\ [Next]_vars => Inv'
    BY StepInv
  <1>2. ASSUME Inv, [Next]_vars PROVE Finishes
    <2> SUFFICES ASSUME NEW fd \in Fds, Live(fd), clients[fd].off = 1, spc' = spc,
                        clients'[fd].conn = clients[fd].conn
                 PROVE  View(fd)'[Len(clients[fd].wire) + 1] = Head(clients[fd].queue)
      OBVIOUS
    <2> DEFINE cl == clients[fd]
               n == Len(cl.wire)
    <2>1. cl \in Client /\ cl.queue # << >>
      BY <1>2 DEF Inv, AllSound, Served, Partly
    <2>2. Continues(cl, clients'[fd])
      BY <1>2, StepInv DEF Live, Listens, Continued
    <2>3. View(fd)' = ViewOf(clients'[fd])
      BY DEF View, ViewOf
    <2> HIDE DEF cl
    <2>4. n \in Nat /\ Fixed(cl) = n + 1 /\ cl.queue \in Seq(Messages)
      BY <2>1, Fields DEF Fixed, cl
    <2>5. ViewOf(clients'[fd])[n + 1] = ViewOf(cl)[n + 1]
      BY <2>2, <2>4 DEF Continues
    <2>6. Len(cl.queue) \in Nat /\ Len(cl.queue) # 0
      BY <2>1, <2>4, EmptySeq, LenProperties
    <2>7. ViewOf(cl)[n + 1] = cl.queue[1]
      <3>1. n + 1 \in 1..n + Len(cl.queue) /\ (n + 1) - n = 1 /\ ~(n + 1 <= n)
        <4>1. \A a, b \in Nat : b # 0 =>
                  a + 1 \in 1..a + b /\ (a + 1) - a = 1 /\ ~(a + 1 <= a)
          OBVIOUS
        <4> HIDE DEF n
        <4> QED BY <2>4, <2>6, <4>1
      <3>2. \A i \in 1..n + Len(cl.queue) :
                ViewOf(cl)[i] = IF i <= n THEN cl.wire[i] ELSE cl.queue[i - n]
        BY <2>1, Fields
      <3> HIDE DEF n
      <3> QED BY <3>1, <3>2
    <2>8. Head(cl.queue) = cl.queue[1]
      BY <2>1, <2>4, HeadTailProperties
    <2> QED BY <2>3, <2>5, <2>7, <2>8 DEF cl
  <1>3. Inv /\ [Next]_vars => [Finishes]_vars
    BY <1>2
  <1> QED BY <1>1, <1>3, InitInv, PTL DEF Spec, PartialWriteFinishes

(* "Never drop a control message": what a live consumer is, or is to be, told only     *)
(* grows, whatever overflows, is reconfigured or stopped (WorkerLink.cpp:256).         *)
THEOREM ControlKept == Spec => ControlNeverDropped
  <1> DEFINE Grows == \A fd \in Fds :
                 (Live(fd) /\ clients'[fd].conn = clients[fd].conn)
                     => StillTold(View(fd), View(fd)')
  <1>1. Inv /\ [Next]_vars => Inv'
    BY StepInv
  <1>2. ASSUME Inv, [Next]_vars PROVE Grows
    <2>1. \A fd \in Fds : View(fd) = ViewOf(clients[fd]) /\ View(fd)' = ViewOf(clients'[fd])
      BY DEF View, ViewOf
    <2> QED BY <1>2, <2>1, StepInv DEF Untaken, Live, Listens
  <1>3. Inv /\ [Next]_vars => [Grows]_vars
    BY <1>2
  <1> QED BY <1>1, <1>3, InitInv, PTL DEF Spec, ControlNeverDropped
===============================================================================
