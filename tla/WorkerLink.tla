------------------------------ MODULE WorkerLink ------------------------------
(***************************************************************************)
(* The per-monitor worker link (core/src/WorkerLink.cpp): one Unix socket  *)
(* on which several consumers receive codec parameters (Hello), media,     *)
(* events and statistics, and send requests.                               *)
(*                                                                         *)
(* Threads: producers (capture and plugin threads, through sendMedia and   *)
(* publishEventJson) and the link's own poll loop; the main thread calls   *)
(* stop() once the producers are stopped (zm-core.cpp:168-169).  Every     *)
(* access to the clients is under mutex_, so a producer's call is one      *)
(* step.  The loop takes its pollfd snapshot, polls, accepts and serves in *)
(* separate steps; it holds mutex_ from the first served descriptor to the *)
(* end of the iteration.                                                   *)
(*                                                                         *)
(* The kernel is part of the model: descriptors are reused lowest first,   *)
(* and writev completes, stops part way, would block, or fails with EPIPE  *)
(* once the peer has gone.  Whether a writev may block with mutex_ held is *)
(* the subject of module WorkerLocks.  Every message counts one byte, so the *)
(* byte limit of a queue is its message limit.                             *)
(***************************************************************************)
EXTENDS Naturals, Sequences, FiniteSets, FiniteSetsExt

CONSTANTS Fds,          \* descriptors accept() can return
          Conns,        \* consumers there may be
          QueueMax,     \* cfg_.queue_max_msgs
          Setups        \* the environments to explore (see env)

(* What an environment may do, and how often: the bounds of a behaviour. *)
EnvFields == {"maxClients", \* cfg_.max_clients
              "params",     \* possible Hello bodies (codec parameters)
              "media",      \* streams of which media is sent
              "kinds",      \* kinds of events published
              "calls",      \* calls of the producers
              "conns",      \* consumers that connect
              "requests",   \* requests a consumer can send, at most one each
              "hangups",    \* consumers that hang up
              "offsets",    \* {0, 1}, or {0}: writev stops only between messages
              "stats",      \* statistics rounds
              "stop"}       \* whether stop() is called

(* What a consumer can send: "corrupt" does not parse, and "none" is an empty inbox. *)
Requests == [type : {"none", "corrupt", "subscribe", "command", "talkback"},
             video : BOOLEAN, audio : BOOLEAN, events : BOOLEAN]

ASSUME WorkerLinkAssumption ==
    /\ Fds \subseteq Nat \ {0} /\ IsFiniteSet(Fds)
    /\ Conns \subseteq Nat \ {0} /\ IsFiniteSet(Conns)
    /\ QueueMax \in Nat \ {0}
    /\ \A e \in Setups : /\ DOMAIN e = EnvFields
                          /\ e.maxClients \in Nat /\ e.offsets \in {{0}, {0, 1}}
                          /\ e.media \subseteq {"video", "audio"}
                          /\ e.requests \subseteq Requests

Streams == {"video", "audio"}
OtherStream(s) == IF s = "video" THEN "audio" ELSE "video"

VARIABLES env,          \* the environment, chosen once
          running,      \* running_
          clients,      \* clients_, by descriptor; conn = 0: not in the map
          generation,   \* generation_
          sequence,     \* sequence_, by stream
          eventSeq,     \* event_sequence_
          hello,        \* hello_video_, hello_audio_ with their bodies
          keyframe,     \* keyframe_
          snapshot,     \* snapshot_
          lpc,          \* the loop: "top", "poll", "accept", "serve", "exited"
          pfds,         \* its pollfd snapshot: descriptor -> POLLOUT asked
          ready,        \* what poll reported: descriptor -> revents
          backlog,      \* poll reported POLLIN on the listening socket
          stats,        \* statistics rounds so far
          calls,        \* producers' calls so far
          spc,          \* the stopping thread
          conn,         \* consumers: "none", "pending", "accepted" or "closed"
          hung,         \* consumers whose own end is closed
          inbox,        \* a request a consumer has sent and the link not yet read
          asked         \* consumers that have sent a request

linkVars == <<env, generation, sequence, eventSeq, hello, keyframe, snapshot, calls>>
loopVars == <<lpc, pfds, ready, backlog, stats>>
peerVars == <<conn, hung, inbox, asked>>
vars == <<running, clients, linkVars, loopVars, spc, peerVars>>

None == "none"

(* makeControl and makeMedia stamp the current generation. *)
Message(type, stream, seq, gen, ctl, body) ==
    [type |-> type, stream |-> stream, seq |-> seq, gen |-> gen, ctl |-> ctl,
     body |-> body]
NoMsg == Message("none", None, 0, 0, FALSE, None)
NoRequest == [type |-> "none", video |-> FALSE, audio |-> FALSE, events |-> FALSE]
HelloMsg(s, body, gen) == Message("Hello", s, 0, gen, TRUE, body)

FreeSlot == [conn |-> 0, queue |-> << >>, off |-> 0, video |-> FALSE,
             audio |-> FALSE, events |-> FALSE, dead |-> FALSE, dropped |-> 0,
             wire |-> << >>]

Init == /\ env \in Setups
        /\ running = TRUE
        /\ clients = [fd \in Fds |-> FreeSlot]
        /\ generation = 0 /\ eventSeq = 0
        /\ sequence = [s \in Streams |-> 0]
        /\ hello = [s \in Streams |-> NoMsg]
        /\ keyframe = NoMsg /\ snapshot = NoMsg
        /\ lpc = "top" /\ pfds = << >> /\ ready = << >> /\ backlog = FALSE
        /\ stats = 0 /\ calls = 0 /\ spc = "idle"
        /\ conn = [c \in Conns |-> "none"] /\ hung = {}
        /\ inbox = [c \in Conns |-> NoRequest] /\ asked = {}

InUse == {fd \in Fds : clients[fd].conn # 0}

(* The loop locks mutex_ after acceptClient and unlocks it when the iteration ends. *)
MutexFree == lpc = "serve" => DOMAIN ready = DOMAIN pfds

-----------------------------------------------------------------------------
(* Writing to a client *)

(* The first k messages are written whole, and o bytes of the next; wire is what    *)
(* the consumer has received.                                                      *)
Written(cl, k, o) == [cl EXCEPT !.wire = @ \o SubSeq(cl.queue, 1, k),
                                !.queue = SubSeq(@, k + 1, Len(@)), !.off = o]

(* onClientWritable: the writing stops when the queue is empty, when writev would  *)
(* block, or within a message.                                                     *)
Flushed(cl) ==
    IF cl.queue = << >> THEN {cl}
    ELSE IF cl.conn \in hung THEN {[cl EXCEPT !.dead = TRUE]}
    ELSE {Written(cl, p[1], p[2]) :
             p \in {q \in (0..Len(cl.queue)) \X env.offsets :
                       /\ q[1] = Len(cl.queue) => q[2] = 0
                       /\ q[1] = 0 => q[2] >= cl.off}}

(* Mutation: dead clients stay in the map. *)
ReapNothing(cls) == cls

(* reapDead *)
Reaped(cls) == [fd \in Fds |-> IF cls[fd].dead THEN FreeSlot ELSE cls[fd]]
Pushed(cl, msgs) == [cl EXCEPT !.queue = @ \o msgs]

(* Mutation: control messages are dropped too. *)
DroppableIgnoringControl(cl, d, need) == cl.off = 0 \/ d = 0
(* Mutation: a partially written message is dropped too. *)
DroppableIgnoringOffset(cl, d, need) ==
    /\ \A i \in 1..d : ~cl.queue[i].ctl
    /\ d = need \/ cl.queue[d + 1].ctl

(* The drop loop of enqueue removes d messages: it stops at a control message, and *)
(* removes nothing while the front one is partially written.                       *)
Droppable(cl, d, need) ==
    IF cl.off > 0 THEN d = 0
    ELSE /\ \A i \in 1..d : ~cl.queue[i].ctl
         /\ d = need \/ cl.queue[d + 1].ctl

(* enqueue, for one client: make room by dropping from the front, then push. *)
Offered(cl, msg) ==
    LET need == IF Len(cl.queue) >= QueueMax THEN Len(cl.queue) - QueueMax + 1 ELSE 0
        d == CHOOSE n \in 0..need :
                 Droppable(cl, n, need) /\ \A m \in n+1..need : ~Droppable(cl, m, need)
    IN Pushed([cl EXCEPT !.queue = SubSeq(@, d + 1, Len(@)), !.dropped = @ + d], <<msg>>)

Wanted(cl, msg) == \/ msg.ctl
                   \/ msg.stream = "video" /\ cl.video
                   \/ msg.stream = "audio" /\ cl.audio

(* enqueue: every client map it can leave, after writing and reaping. *)
Enqueued(cls, msg) ==
    LET results == [fd \in Fds |->
            IF cls[fd].conn # 0 /\ ~cls[fd].dead /\ Wanted(cls[fd], msg)
              THEN Flushed(Offered(cls[fd], msg)) ELSE {cls[fd]}]
    IN {Reaped(f) : f \in {g \in [Fds -> UNION {results[fd] : fd \in Fds}] :
                              \A fd \in Fds : g[fd] \in results[fd]}}

(* A descriptor that leaves the map is closed. *)
Closed(cls) == [c \in Conns |->
    IF conn[c] = "accepted" /\ \A fd \in Fds : cls[fd].conn # c
      THEN "closed" ELSE conn[c]]

SetClients(cls) == clients' = cls /\ conn' = Closed(cls)

-----------------------------------------------------------------------------
(* Producers *)

Producing == /\ running /\ MutexFree /\ calls < env.calls
             /\ calls' = calls + 1 /\ UNCHANGED env

(* Mutation: the cached keyframe takes the next number. *)
KeyframeAfterIncrement(s, key) ==
    IF key /\ s = "video"
      THEN Message("Keyframe", s, sequence[s] + 1, generation, FALSE, None)
      ELSE keyframe

(* A video keyframe is cached, under the number its Media message carries. *)
CachedKeyframe(s, key) ==
    IF key /\ s = "video"
      THEN Message("Keyframe", s, sequence[s], generation, FALSE, None)
      ELSE keyframe

(* sendMedia: the stream's counter advances whether or not anyone listens. *)
SendMedia(s, key) ==
    /\ Producing
    /\ sequence' = [sequence EXCEPT ![s] = @ + 1]
    /\ keyframe' = CachedKeyframe(s, key)
    /\ IF InUse = {} THEN UNCHANGED <<clients, conn>>
       ELSE \E cls \in Enqueued(clients, Message("Media", s, sequence[s], generation,
                                                 FALSE, None)) : SetClients(cls)
    /\ UNCHANGED <<running, generation, eventSeq, hello, snapshot, loopVars, spc,
                   hung, inbox, asked>>

(* Mutation: only the changed stream is announced. *)
OtherHelloForgotten(s, gen) == NoMsg

(* The Hello of the other stream, to be issued again under a new generation. *)
OtherHello(s, gen) ==
    LET o == OtherStream(s)
    IN IF hello[o] = NoMsg THEN NoMsg ELSE HelloMsg(o, hello[o].body, gen)

(* setStreamParams, changed parameters: a new generation restarts the sequences,    *)
(* forgets the keyframe, and both streams are announced again.                      *)
Reconfigure(s, body) ==
    /\ Producing /\ hello[s] # NoMsg /\ hello[s].body # body
    /\ generation' = generation + 1
    /\ sequence' = [t \in Streams |-> 0]
    /\ keyframe' = NoMsg
    /\ LET first == HelloMsg(s, body, generation')
           other == OtherHello(s, generation')
       IN /\ hello' = [hello EXCEPT ![s] = first,
                                    ![OtherStream(s)] = IF other = NoMsg THEN @ ELSE other]
          /\ \E mid \in Enqueued(clients, first) :
                 IF other = NoMsg THEN SetClients(mid)
                 ELSE \E cls \in Enqueued(mid, other) : SetClients(cls)
    /\ UNCHANGED <<running, eventSeq, snapshot, loopVars, spc, hung, inbox, asked>>

(* setStreamParams, first parameters of the stream. *)
Announce(s, body) ==
    /\ Producing /\ hello[s] = NoMsg
    /\ hello' = [hello EXCEPT ![s] = HelloMsg(s, body, generation)]
    /\ \E cls \in Enqueued(clients, hello'[s]) : SetClients(cls)
    /\ UNCHANGED <<running, generation, sequence, eventSeq, keyframe, snapshot,
                   loopVars, spc, hung, inbox, asked>>

EventMsg(kind) == Message("Event", "monitor", eventSeq, generation, TRUE, kind)

(* Mutation: every event becomes the snapshot. *)
SnapshotOfAnyEvent(kind) == EventMsg(kind)
SnapshotAfter(kind) == IF kind = "health" THEN EventMsg(kind) ELSE snapshot

(* publishEventJson, other events: a health event is also the connect snapshot. *)
PublishEvent(kind) ==
    /\ Producing
    /\ eventSeq' = eventSeq + 1
    /\ \E cls \in Enqueued(clients, EventMsg(kind)) : SetClients(cls)
    /\ snapshot' = SnapshotAfter(kind)
    /\ UNCHANGED <<running, generation, sequence, hello, keyframe, loopVars, spc,
                   hung, inbox, asked>>

-----------------------------------------------------------------------------
(* The loop *)

(* while (running_), and the pollfd snapshot under mutex_. *)
LoopTop ==
    /\ lpc = "top"
    /\ IF running THEN lpc' = "poll" /\ pfds' = [fd \in InUse |-> clients[fd].queue # << >>]
                  ELSE lpc' = "exited" /\ UNCHANGED pfds
    /\ UNCHANGED <<running, clients, linkVars, ready, backlog, stats, spc, peerVars>>

(* What poll() reports of a descriptor: POLLNVAL, which the loop ignores, if it was  *)
(* closed since the snapshot.                                                        *)
Revents(fd) ==
    LET c == clients[fd].conn IN
    IF c = 0 THEN {}
    ELSE (IF c \in hung THEN {"HUP"} ELSE {})
         \cup (IF inbox[c] # NoRequest \/ c \in hung THEN {"IN"} ELSE {})

Pending == {c \in Conns : conn[c] = "pending"}

(* poll(): the 200 ms timeout makes it return also when nothing is ready. *)
Poll ==
    /\ lpc = "poll"
    /\ \E W \in SUBSET {fd \in DOMAIN pfds : pfds[fd] /\ clients[fd].conn # 0} :
           ready' = [fd \in DOMAIN pfds |->
                        Revents(fd) \cup (IF fd \in W THEN {"OUT"} ELSE {})]
    /\ backlog' = (Pending # {})
    /\ lpc' = "accept"
    /\ UNCHANGED <<running, clients, linkVars, pfds, stats, spc, peerVars>>

(* push() in acceptClient and onClientReadable: a cached message, if there is one. *)
Cached(m) == IF m = NoMsg THEN << >> ELSE <<m>>

(* acceptClient: the new consumer gets everything, after what is cached. *)
NewClient(c) ==
    [FreeSlot EXCEPT !.conn = c, !.video = TRUE, !.audio = TRUE, !.events = TRUE,
        !.queue = Cached(hello["video"]) \o Cached(hello["audio"]) \o Cached(snapshot)
                      \o Cached(keyframe)]

(* Mutation: one client too many. *)
AtLimitOffByOne == Cardinality(InUse) > env.maxClients
AtLimit == Cardinality(InUse) >= env.maxClients

(* accept() takes the oldest pending consumer and the lowest free descriptor. *)
Accept ==
    /\ lpc = "accept"
    /\ lpc' = "serve"
    /\ IF backlog /\ Fds # InUse
         THEN LET c == Min(Pending)
                  fd == Min(Fds \ InUse) IN
              IF AtLimit
                THEN conn' = [conn EXCEPT ![c] = "closed"] /\ UNCHANGED clients
                ELSE /\ \E cl \in Flushed(NewClient(c)) :
                            clients' = [clients EXCEPT ![fd] = cl]
                     /\ conn' = [conn EXCEPT ![c] = "accepted"]
         ELSE UNCHANGED <<clients, conn>>
    /\ UNCHANGED <<running, linkVars, pfds, ready, backlog, stats, spc, hung, inbox,
                   asked>>

(* onClientReadable: every state it can leave the client in.  A talkback chunk goes  *)
(* to its handler and an unknown request is ignored; neither changes the link.       *)
ReadBy(cl) ==
    LET r == inbox[cl.conn]
        hellos == Cached(IF r.video THEN hello["video"] ELSE NoMsg)
                      \o Cached(IF r.audio THEN hello["audio"] ELSE NoMsg)
    IN CASE r.type \in {"none", "corrupt"} -> {[cl EXCEPT !.dead = TRUE]}
         [] r.type = "subscribe" ->
              Flushed(Pushed([cl EXCEPT !.video = r.video, !.audio = r.audio,
                                        !.events = r.events], hellos))
         [] r.type = "command" ->
              Flushed(Pushed(cl, <<Message("Response", "monitor", 0, generation, TRUE,
                                           None)>>))
         [] OTHER -> {cl}

(* One polled descriptor; mutex_ stays held until the iteration ends. *)
Serve(fd) ==
    /\ lpc = "serve" /\ fd \in DOMAIN ready
    /\ ready' = [g \in DOMAIN ready \ {fd} |-> ready[g]]
    /\ LET cl == clients[fd]
           readable == cl.conn # 0 /\ "HUP" \notin ready[fd] /\ "IN" \in ready[fd]
       IN /\ IF cl.conn = 0 THEN UNCHANGED clients
             ELSE IF "HUP" \in ready[fd]
               THEN clients' = [clients EXCEPT ![fd].dead = TRUE]
             ELSE \E r \in IF readable THEN ReadBy(cl) ELSE {cl} :
                  \E w \in IF ~r.dead /\ "OUT" \in ready[fd] THEN Flushed(r) ELSE {r} :
                      clients' = [clients EXCEPT ![fd] = w]
          /\ inbox' = IF readable THEN [inbox EXCEPT ![cl.conn] = NoRequest] ELSE inbox
    /\ UNCHANGED <<running, linkVars, lpc, pfds, backlog, stats, spc, conn, hung, asked>>

AllServed == lpc = "serve" /\ DOMAIN ready = {}

(* End of the iteration: reapDead, and a statistics round if one is due. *)
EndIteration ==
    /\ AllServed
    /\ SetClients(Reaped(clients))
    /\ lpc' = "top"
    /\ UNCHANGED <<running, linkVars, pfds, ready, backlog, stats, spc, hung, inbox, asked>>

StatsMsg == Message("Stats", "monitor", 0, generation, FALSE, None)

EndIterationWithStats ==
    /\ AllServed /\ stats < env.stats
    /\ stats' = stats + 1
    /\ LET results == [fd \in Fds |->
               IF clients[fd].conn # 0 /\ ~clients[fd].dead
                 THEN Flushed(Pushed(clients[fd], <<StatsMsg>>)) ELSE {clients[fd]}]
       IN \E f \in {g \in [Fds -> UNION {results[fd] : fd \in Fds}] :
                       \A fd \in Fds : g[fd] \in results[fd]} : SetClients(Reaped(f))
    /\ lpc' = "top"
    /\ UNCHANGED <<running, linkVars, pfds, ready, backlog, spc, hung, inbox, asked>>

-----------------------------------------------------------------------------
(* Stopping *)

StopRequest == /\ env.stop /\ spc = "idle" /\ running
               /\ running' = FALSE /\ spc' = "bye"
               /\ UNCHANGED <<clients, linkVars, loopVars, peerVars>>

Bye == Message("Bye", "video", 0, generation, TRUE, None)

(* stop(): Bye is written to the descriptor itself, past the queue and whatever part *)
(* of its front message is written; it may fail, and then nothing is received.       *)
StopBye == /\ spc = "bye" /\ MutexFree
           /\ spc' = "join"
           /\ clients' = [fd \in Fds |->
                  IF fd \in InUse /\ clients[fd].conn \notin hung
                    THEN [clients[fd] EXCEPT !.wire = Append(@, Bye)] ELSE clients[fd]]
           /\ UNCHANGED <<running, linkVars, loopVars, peerVars>>

StopJoin == /\ spc = "join" /\ lpc = "exited"
            /\ spc' = "done"
            /\ clients' = [fd \in Fds |-> FreeSlot]
            /\ conn' = [c \in Conns |-> IF conn[c] = "none" THEN "none" ELSE "closed"]
            /\ UNCHANGED <<running, linkVars, loopVars, hung, inbox, asked>>

-----------------------------------------------------------------------------
(* Consumers (external) *)

Connect(c) == /\ running /\ conn[c] = "none" /\ c <= env.conns
              /\ \A d \in Conns : d < c => conn[d] # "none"
              /\ conn' = [conn EXCEPT ![c] = "pending"]
              /\ UNCHANGED <<running, clients, linkVars, loopVars, spc, hung, inbox, asked>>

Request(c) == /\ conn[c] = "accepted" /\ c \notin hung
              /\ c \notin asked /\ asked' = asked \cup {c}
              /\ \E r \in env.requests : inbox' = [inbox EXCEPT ![c] = r]
              /\ UNCHANGED <<running, clients, linkVars, loopVars, spc, conn, hung>>

Hangup(c) == /\ conn[c] \in {"pending", "accepted"} /\ c \notin hung
             /\ Cardinality(hung) < env.hangups
             /\ hung' = hung \cup {c}
             /\ UNCHANGED <<running, clients, linkVars, loopVars, spc, conn, inbox, asked>>

Producer == \/ \E s \in env.media, key \in BOOLEAN : SendMedia(s, key)
            \/ \E s \in Streams, body \in env.params : Announce(s, body) \/ Reconfigure(s, body)
            \/ \E kind \in env.kinds : PublishEvent(kind)

Loop == \/ LoopTop \/ Poll \/ Accept
        \/ \E fd \in Fds : Serve(fd)
        \/ EndIteration \/ EndIterationWithStats

Consumer == \E c \in Conns : Connect(c) \/ Request(c) \/ Hangup(c)

Next == Producer \/ Loop \/ StopRequest \/ StopBye \/ StopJoin \/ Consumer

Spec == Init /\ [][Next]_vars

(* The loop thread runs, its poll() has a timeout, and stop() runs to its join. *)
Fairness == WF_vars(Loop) /\ WF_vars(StopBye) /\ WF_vars(StopJoin)
FairSpec == Spec /\ Fairness

-----------------------------------------------------------------------------
(* Properties *)

(* What a consumer has received and what is queued for it, in order. *)
View(fd) == clients[fd].wire \o clients[fd].queue
Live(fd) == clients[fd].conn # 0 /\ ~clients[fd].dead

LastBefore(seq, n, Test(_)) ==
    LET hits == {i \in 1..n : Test(seq[i])} IN IF hits = {} THEN 0 ELSE Max(hits)

IsHello(s, m) == m.type = "Hello" /\ m.stream = s
IsMedia(m) == m.type \in {"Media", "Keyframe"}
IsHealth(m) == m.type = "Event" /\ m.body = "health"

(* The caches belong to the current generation, a client in the map is an accepted  *)
(* consumer with a descriptor of its own, and a partial write has a message to       *)
(* finish (WorkerLink.cpp:350-356, 472-479, 581-606).                                *)
TypeOK ==
    /\ env \in Setups /\ calls \in 0..env.calls /\ stats \in 0..env.stats
    /\ generation \in Nat /\ eventSeq \in Nat /\ sequence \in [Streams -> Nat]
    /\ \A s \in Streams : hello[s] # NoMsg => hello[s].gen = generation
    /\ keyframe # NoMsg => keyframe.gen = generation
    /\ \A fd \in InUse : /\ clients[fd].conn \in Conns
                         /\ conn[clients[fd].conn] = "accepted"
                         /\ clients[fd].off \in {0, 1}
                         /\ clients[fd].off = 1 => clients[fd].queue # << >>
    /\ \A fd, g \in InUse : clients[fd].conn = clients[g].conn => fd = g
    /\ Cardinality(InUse) <= env.maxClients

(* A consumer can always decode what it gets: the codec parameters it last received  *)
(* before a media message are those the message was produced under, for a consumer   *)
(* that joins early or late, is slow, or re-subscribes, over any number of           *)
(* reconfigurations; and it has, or will get, the current parameters of both streams *)
(* (WorkerLink.cpp:351-354, 384-390, 581-606).                                       *)
HelloCoversMedia ==
    \A fd \in Fds : Live(fd) =>
        LET v == View(fd) IN
        /\ \A i \in 1..Len(v) : IsMedia(v[i]) =>
              LET h == LastBefore(v, i - 1, LAMBDA m : IsHello(v[i].stream, m))
              IN h # 0 => v[h].gen = v[i].gen
        /\ \A s \in Streams : hello[s] # NoMsg =>
              LET h == LastBefore(v, Len(v), LAMBDA m : IsHello(s, m))
              IN h # 0 /\ v[h] = hello[s]

(* Within a generation the sequence numbers of a stream only grow on the wire of a   *)
(* consumer, the keyframe replayed on connect included: "gaps => drops", and never   *)
(* a repeated or an older frame (WorkerLink.cpp:619-629, 354).                       *)
SequencesGrow ==
    \A fd \in Fds : Live(fd) =>
        LET v == View(fd) IN
        \A i, j \in 1..Len(v) :
            (i < j /\ IsMedia(v[i]) /\ IsMedia(v[j]) /\ v[i].stream = v[j].stream
               /\ v[i].gen = v[j].gen) => v[i].seq < v[j].seq

(* The status a consumer was last told, at connect or since, is the current one:     *)
(* the snapshot and the broadcast leave no gap and no reordering between them        *)
(* (WorkerLink.cpp:353, 536-548).                                                    *)
StatusCurrent ==
    \A fd \in Fds : Live(fd) /\ snapshot # NoMsg =>
        LET v == View(fd)
            h == LastBefore(v, Len(v), IsHealth)
        IN h # 0 /\ v[h] = snapshot

(* The control messages of a view.  Bye is not among them: it overtakes the queue     *)
(* (StopBye).                                                                         *)
Controls(v) == {i \in 1..Len(v) : v[i].ctl /\ v[i].type # "Bye"}
Rank(v, i) == Cardinality({k \in Controls(v) : k <= i})

(* The control messages of v are the first of those of w, in the same order. *)
StillTold(v, w) ==
    \A i \in Controls(v) : \E j \in Controls(w) : w[j] = v[i] /\ Rank(w, j) = Rank(v, i)

(* "Never drop a control message" (WorkerLink.cpp:256): what a live consumer has     *)
(* been, or is to be, told only grows, also when its queue overflows.                *)
ControlNeverDropped ==
    [][\A fd \in Fds : (Live(fd) /\ clients'[fd].conn = clients[fd].conn)
                           => StillTold(View(fd), View(fd)')]_vars

(* "... and never drop the partially-written front message" (WorkerLink.cpp:256-257): *)
(* it stays at the front until it is written, so the next bytes on the wire are its   *)
(* own rest.  stop() is the exception: its Bye overtakes what is written in part.      *)
PartialWriteFinishes ==
    [][\A fd \in Fds : (Live(fd) /\ clients[fd].off = 1 /\ spc' = spc
                          /\ clients'[fd].conn = clients[fd].conn
                          /\ Len(View(fd)') >= Len(clients[fd].wire) + 1) =>
            View(fd)'[Len(clients[fd].wire) + 1] = Head(clients[fd].queue)]_vars

(* A consumer that went away is found out and its place and descriptor given back,    *)
(* even if nothing is ever sent to it again; one that waits is accepted or turned     *)
(* away (WorkerLink.cpp:290-301, 328-336, 484-494).                                   *)
ConsumersSettled ==
    \A c \in Conns :
        (conn[c] = "pending" \/ c \in hung)
            ~> (conn[c] = "closed" \/ (conn[c] = "accepted" /\ c \notin hung))

(* "Erase clients marked dead by an I/O failure or hangup" (WorkerLink.cpp:485): a   *)
(* consumer that is there and has sent nothing corrupt is not disconnected.          *)
DisconnectedOnlyIfGone ==
    [][\A c \in Conns : (conn[c] = "accepted" /\ conn'[c] = "closed" /\ running)
                            => c \in hung]_vars
=============================================================================
