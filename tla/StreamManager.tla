---------------------------- MODULE StreamManager ----------------------------
(***************************************************************************)
(* The RTSP input (plugins/capture_rtsp_multi): the streams a              *)
(* configuration names, one capture thread per stream, reconnection, and   *)
(* the manager that starts, removes and stops streams.                     *)
(*                                                                         *)
(* Threads: the owner's thread (start_all_streams, remove_stream,          *)
(* stop_all_streams, all under streams_mutex_) and the capture threads,    *)
(* which look their stream up in the map WITHOUT that mutex.  A lookup     *)
(* during an insertion or an erasure is a data race: it may miss.          *)
(***************************************************************************)
EXTENDS Integers, Sequences, SequencesExt, FiniteSetsExt

CONSTANT Setups  \* configurations: [entries, maxRetry, removable]

NoId == -1          \* an entry without "stream_id"
MinDelay == 1000    \* MIN_RECONNECT_DELAY_MS
MaxDelay == 30000   \* MAX_RECONNECT_DELAY_MS
Codecs == {"h264", "hevc"}

VARIABLES config,   \* the configuration, chosen once
          streams,  \* stream_states_, and each stream's thread
          heard,    \* what subscribers of the bus know of each stream
          manager   \* the owner's thread: where it is, streams still to do,
                    \* and whether it is changing the map
streamVars == <<config, streams, heard, manager>>

-----------------------------------------------------------------------------
(* parse_configuration *)

HasUrl(entries, k) == entries[k].url

(* stream_counter counts the entries with a url; an explicit id does not    *)
(* advance it differently.                                                  *)
EntryId(entries, k) ==
    IF entries[k].id # NoId THEN entries[k].id
    ELSE Cardinality({j \in 1 .. k - 1 : HasUrl(entries, j)})

(* stream_configs_: a later entry with the same id replaces an earlier one.  *)
StreamIds(entries) ==
    {EntryId(entries, k) : k \in {j \in DOMAIN entries : HasUrl(entries, j)}}

Ids == StreamIds(config.entries)  \* of the configuration at hand, and of all
AllIds == UNION {StreamIds(c.entries) : c \in Setups}
InOrder(S) == SetToSortSeq(S, <)     \* std::map iterates in key order

-----------------------------------------------------------------------------
Absent == [pc |-> "absent", running |-> FALSE, connected |-> FALSE, retries |-> 0,
           delay |-> MinDelay, open |-> FALSE, video |-> "none", audio |-> FALSE]
Nothing == [up |-> FALSE, video |-> "none", audio |-> FALSE]

Init == /\ config \in {c \in Setups : StreamIds(c.entries) # {}}
        /\ streams = [s \in AllIds |-> Absent]
        /\ heard = [s \in AllIds |-> Nothing]
        /\ manager = [pc |-> "starting", todo |-> InOrder(Ids), changing |-> FALSE]

Present == {s \in AllIds : streams[s].pc # "absent"}

-----------------------------------------------------------------------------
(* The owner's thread. *)

(* start_all_streams, setup_stream: the map is being changed ... *)
SetupBegin == /\ manager.pc = "starting" /\ manager.todo # << >> /\ ~manager.changing
              /\ manager' = [manager EXCEPT !.changing = TRUE]
              /\ UNCHANGED <<config, streams, heard>>

(* ... the new state is in it, and its thread is started. *)
SetupEnd == LET s == Head(manager.todo) IN
    /\ manager.pc = "starting" /\ manager.changing
    /\ streams' = [streams EXCEPT ![s] = [Absent EXCEPT !.running = TRUE, !.pc = "lookup"]]
    /\ manager' = [pc |-> IF Tail(manager.todo) = << >> THEN "running" ELSE "starting",
                   todo |-> Tail(manager.todo), changing |-> FALSE]
    /\ UNCHANGED <<config, heard>>

(* stop_all_streams: every running flag first, then the joins. *)
StopAll == /\ manager.pc = "running"
           /\ manager' = [manager EXCEPT !.pc = "stopping", !.todo = InOrder(Present)]
           /\ streams' = [s \in AllIds |-> [streams[s] EXCEPT !.running = FALSE]]
           /\ UNCHANGED <<config, heard>>

(* remove_stream, up to its join. *)
RemoveStream(s) ==
    /\ manager.pc = "running" /\ config.removable /\ s \in Present
    /\ manager' = [manager EXCEPT !.pc = "removing", !.todo = <<s>>]
    /\ streams' = [streams EXCEPT ![s].running = FALSE]
    /\ UNCHANGED <<config, heard>>

(* Mutation: the contexts are freed without waiting for the thread. *)
Unjoined(s) == TRUE

(* join() returns once the thread has ended. *)
Joined(s) == streams[s].pc = "ended"

(* join and cleanup_stream: packet, codec and input contexts are freed; then  *)
(* remove_stream begins to erase the entry.                                 *)
JoinAndCleanup == LET s == Head(manager.todo) IN
    /\ manager.pc \in {"stopping", "removing"} /\ manager.todo # << >> /\ Joined(s)
    /\ streams' = [streams EXCEPT ![s].open = FALSE]
    /\ manager' = IF manager.pc = "stopping"
                  THEN [manager EXCEPT !.todo = Tail(@)]
                  ELSE [manager EXCEPT !.pc = "erasing", !.changing = TRUE]
    /\ UNCHANGED <<config, heard>>

(* remove_stream: the state and the configuration are erased. *)
Erased == LET s == Head(manager.todo) IN
    /\ manager.pc = "erasing"
    /\ streams' = [streams EXCEPT ![s] = Absent]
    /\ manager' = [pc |-> "running", todo |-> << >>, changing |-> FALSE]
    /\ UNCHANGED <<config, heard>>

(* stop_all_streams: stream_states_.clear() *)
Cleared == /\ manager.pc = "stopping" /\ manager.todo = << >>
           /\ streams' = [s \in AllIds |-> Absent]
           /\ manager' = [manager EXCEPT !.pc = "stopped"]
           /\ UNCHANGED <<config, heard>>

-----------------------------------------------------------------------------
(* The capture thread of stream s: capture_loop. *)

With(fields, r) == [f \in DOMAIN r |-> IF f \in DOMAIN fields THEN fields[f] ELSE r[f]]

Thread(s, at, fields) == /\ streams[s].pc = at
                         /\ streams' = [streams EXCEPT ![s] = With(fields, @)]
                         /\ UNCHANGED <<config, manager>>

(* The unlocked find: it may miss while the map is being changed. *)
LookupFound(s) == Thread(s, "lookup", [pc |-> "loop"]) /\ UNCHANGED heard
LookupMissed(s) == /\ manager.changing
                   /\ Thread(s, "lookup", [pc |-> "ended"]) /\ UNCHANGED heard

(* while (state->running) *)
LoopTop(s) == /\ Thread(s, "loop",
                    [pc |-> IF ~streams[s].running THEN "ended"
                            ELSE IF ~streams[s].connected THEN "connect"
                            ELSE IF streams[s].open THEN "read" ELSE "loop"])
              /\ UNCHANGED heard

(* Mutation: only the first connection announces its codec. *)
AnnounceOnce(s, v, a) ==
    heard' = [heard EXCEPT ![s] = [up |-> TRUE, audio |-> a \/ @.audio,
                                   video |-> IF @.video = "none" THEN v ELSE @.video]]

(* connect_stream's events: StreamConnected, then StreamMetadata for video   *)
(* and, when the source has audio, for audio.                               *)
Announce(s, v, a) == heard' = [heard EXCEPT ![s] = [up |-> TRUE, video |-> v, audio |-> a]]

(* connect_stream succeeds: a source with video v and perhaps audio. *)
ConnectOk(s) == \E v \in Codecs, a \in BOOLEAN :
    /\ Thread(s, "connect", [pc |-> "read", connected |-> TRUE, open |-> TRUE, video |-> v,
                             audio |-> a, retries |-> 0, delay |-> MinDelay])
    /\ Announce(s, v, a)

(* Mutation: the delay doubles without a limit on the number of attempts. *)
NeverGivesUp(n) == FALSE

(* max_retry_attempts, when positive, ends the thread. *)
GivesUp(n) == config.maxRetry > 0 /\ n >= config.maxRetry

(* connect_stream fails at some point, having closed the old contexts.  The  *)
(* counter matters only against maxRetry and is not counted beyond it.      *)
ConnectFail(s) == LET n == Min({streams[s].retries + 1, Max({config.maxRetry, 1})}) IN
    /\ \E open \in BOOLEAN :   \* an input opened before the failure stays
         Thread(s, "connect",
             IF GivesUp(n) THEN [pc |-> "ended", retries |-> n, open |-> open]
             ELSE [pc |-> "sleep", retries |-> n, open |-> open,
                   delay |-> Min({2 * streams[s].delay, MaxDelay})])
    /\ UNCHANGED heard

(* sleep_for(delay_ms) is not interrupted by a stop. *)
Wake(s) == Thread(s, "sleep", [pc |-> "loop"]) /\ UNCHANGED heard

(* av_read_frame returned a packet to forward ... *)
ReadPacket(s) == /\ \E kind \in {"video", "audio"} :
                      /\ kind = "audio" => streams[s].audio
                      /\ Thread(s, "read", [pc |-> kind])
                 /\ UNCHANGED heard

(* ... one to skip, or EAGAIN. *)
ReadNothing(s) == Thread(s, "read", [pc |-> "loop"]) /\ UNCHANGED heard

(* process_and_publish_frame, publish_audio_packet *)
Forward(s) == /\ streams[s].pc \in {"video", "audio"}
              /\ Thread(s, streams[s].pc, [pc |-> "loop"]) /\ UNCHANGED heard

(* The end of the stream or an error: handle_stream_disconnect looks the     *)
(* stream up again; when that misses, nothing is done.                      *)
Disconnect(s) == /\ Thread(s, "read", [pc |-> "loop", connected |-> FALSE, open |-> FALSE])
                 /\ heard' = [heard EXCEPT ![s].up = FALSE]
DisconnectMissed(s) == /\ manager.changing
                       /\ Thread(s, "read", [pc |-> "loop"]) /\ UNCHANGED heard

-----------------------------------------------------------------------------
CaptureLoop(s) == \/ LookupFound(s) \/ LookupMissed(s) \/ LoopTop(s)
                  \/ ConnectOk(s) \/ ConnectFail(s) \/ Wake(s)
                  \/ ReadPacket(s) \/ ReadNothing(s) \/ Forward(s)
                  \/ Disconnect(s) \/ DisconnectMissed(s)
Owner == SetupBegin \/ SetupEnd \/ JoinAndCleanup \/ Erased \/ Cleared

Next == \/ Owner \/ StopAll
        \/ \E s \in AllIds : CaptureLoop(s) \/ RemoveStream(s)

Fairness == /\ WF_streamVars(Owner)
            /\ \A s \in AllIds : WF_streamVars(CaptureLoop(s))
Spec == Init /\ [][Next]_streamVars /\ Fairness

-----------------------------------------------------------------------------
(* A frame is forwarded only from a live connection, and only after the bus has      *)
(* carried the codec of THIS connection: across reconnections, which may change the  *)
(* codec, consumers can decode what follows (stream_manager.cpp:499, 576).           *)
MediaAnnounced ==
    \A s \in AllIds : streams[s].pc \in {"video", "audio"} =>
        /\ heard[s].up /\ heard[s].video = streams[s].video
        /\ streams[s].pc = "audio" => heard[s].audio

(* No capture thread works on contexts the owner has freed or on a state it has      *)
(* erased: a thread that is connected has its input open until it ends               *)
(* (stream_manager.cpp:217-223, 758-763).                                            *)
ContextsOutliveThread ==
    \A s \in AllIds : streams[s].pc \in {"read", "video", "audio"} => streams[s].open

(* With a bound on attempts, a stream whose source is gone for good ends by itself,  *)
(* rather than try for ever: otherwise it connects again or is stopped               *)
(* (stream_manager.cpp:296).                                                         *)
SettlesOrEnds ==
    \A s \in AllIds :
        (config.maxRetry > 0 /\ streams[s].pc = "connect")
            ~> (streams[s].connected \/ streams[s].pc \in {"ended", "absent"})

(* A stop returns at whatever point of its loop each thread is: connecting, sleeping *)
(* off a back-off or reading (stream_manager.cpp:216).                               *)
StreamsStop == (manager.pc = "stopping") ~> (manager.pc = "stopped")

(* Every entry with a url becomes a stream of its own: "stream_id: Unique identifier *)
(* for the stream (auto-assigned if not specified)" (README.md:52).                  *)
EveryEntryAStream ==
    LET given == {k \in DOMAIN config.entries : HasUrl(config.entries, k)}
    IN Cardinality(Ids) = Cardinality(given)
=============================================================================
