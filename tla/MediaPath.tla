------------------------------ MODULE MediaPath ------------------------------
(***************************************************************************)
(* The way of a camera's video through the worker, across four threads:    *)
(* the input plugin announces and pushes packets, of one stream or several; *)
(* the capture thread sends them to the link and to the decoder's stage;   *)
(* decode_ffmpeg decodes the streams of its stream_filter; a stage below   *)
(* detects or encodes (encode_ffmpeg).  Codec parameters take another way: *)
(* StreamMetadata on the bus, at once, to every subscriber.                *)
(*                                                                         *)
(* The ring and the stages are the FIFOs of CaptureRing and StageRunner,   *)
(* a stage's queue drops its oldest frame.  A packet is the connection it  *)
(* came on, [stream, codec, size], and a decoded frame [id, gpu, size]; a  *)
(* GPU frame is only a pointer to the decoder's surface.                   *)
(***************************************************************************)
EXTENDS Naturals, Sequences, SequencesExt

CONSTANTS Setups,     \* see setup
          QueueDepth  \* depth of the ring and of each stage's queue

VARIABLES setup,    \* chosen once: [conns: the connections the source makes, in order,
                    \* each with its stream, codec and frame size; packets: per
                    \* connection (bound); wanted: the streams that pass stream_filter;
                    \* hwaccel; convert: has the output another pixel format than the
                    \* source; scale: the output's size, or Orig; below: "detect",
                    \* "encode" or "fused" (decode_detect); outCodec]
          input,    \* the input plugin: [conn: connections made, n: packets pushed on each]
          ring,     \* packets between the input and the capture thread
          hello,    \* codec the link has announced: all video is one wire stream
          sent,     \* the last packet's codec, and the one announced when the link got it
          meta,     \* DecodeMeta: the codec learned
          decoder,  \* DecoderCtx: ready, codec, the scaler's source size, subscribed,
                    \* and the packet it is decoding
          queue,    \* the queues of the decoder's stage and of the one below
          surfaces, \* surfaces the decoder holds
          below,    \* the stage below: the frame in hand, and whether it announced
          used      \* how the stage below last used a frame: "none", "alive" or "freed"
mediaVars == <<setup, input, ring, hello, sent, meta, decoder, queue, surfaces, below, used>>

NoFrame == [id |-> 0, gpu |-> FALSE, size |-> 0]
Fallback == "h264"    \* codec_name
Orig == 0             \* scale "orig"

Init == /\ setup \in Setups
        /\ input = [conn |-> 0, n |-> [k \in DOMAIN setup.conns |-> 0]] /\ ring = << >>
        /\ hello = "none" /\ sent = [codec |-> "none", hello |-> "none"] /\ meta = "none"
        /\ decoder = [ready |-> FALSE, codec |-> "none", scaler |-> 0, subscribed |-> TRUE,
                      packet |-> "none", frame |-> NoFrame, count |-> 0]
        /\ queue = [decode |-> << >>, below |-> << >>] /\ surfaces = {}
        /\ below = [frame |-> NoFrame, announced |-> FALSE]
        /\ used = "none"

Enqueue(q, x) == IF Len(q) < QueueDepth THEN Append(q, x) ELSE Append(Tail(q), x)

-----------------------------------------------------------------------------
(* Mutation: the decoder ignores metadata that arrives before it exists. *)
LearnLate(codec) == IF decoder.ready /\ decoder.subscribed THEN codec ELSE meta

(* decode_meta_cb, while subscribed: of whatever stream. *)
Learn(codec) == IF decoder.subscribed THEN codec ELSE meta

(* publish_evt of StreamMetadata: the bridge of zm-core gives it to the link *)
(* (setStreamParams), whoever published it; the decoder learns the codec.   *)
Announce(codec) == hello' = codec /\ meta' = Learn(codec)

(* Mutation: the packets of a connection come before its metadata. *)
ConnectSilently == /\ input.conn < Len(setup.conns)
                   /\ input' = [input EXCEPT !.conn = @ + 1]
                   /\ UNCHANGED <<setup, ring, hello, sent, meta, decoder, queue, surfaces,
                                  below, used>>

(* The input plugin (re)connects a stream and publishes its codec. *)
Connect == /\ input.conn < Len(setup.conns)
           /\ input' = [input EXCEPT !.conn = @ + 1]
           /\ Announce(setup.conns[input.conn + 1].codec)
           /\ UNCHANGED <<setup, ring, sent, decoder, queue, surfaces, below, used>>

(* The connections that are open: the last one made of each stream. *)
Open == {k \in 1..input.conn : \A l \in k+1..input.conn :
                                   setup.conns[l].stream # setup.conns[k].stream}

(* It pushes a packet into the ring, which refuses it when full. *)
Capture == /\ \E k \in Open :
                 /\ input.n[k] < setup.packets /\ input' = [input EXCEPT !.n[k] = @ + 1]
                 /\ ring' = IF Len(ring) < QueueDepth THEN Append(ring, setup.conns[k]) ELSE ring
           /\ UNCHANGED <<setup, hello, sent, meta, decoder, queue, surfaces, below, used>>

(* The capture thread: pop, sendMedia, deliver to the decoder's stage. *)
Pump == /\ ring # << >>
        /\ ring' = Tail(ring) /\ sent' = [codec |-> Head(ring).codec, hello |-> hello]
        /\ queue' = [queue EXCEPT !.decode = Enqueue(@, Head(ring))]
        /\ UNCHANGED <<setup, input, hello, meta, decoder, surfaces, below, used>>

-----------------------------------------------------------------------------
(* decode_ffmpeg *)

(* ensure_decoder: on the first packet, with the codec learned by then, else  *)
(* the configured one; metadata is not listened to any longer.              *)
Ensured == IF decoder.ready THEN decoder
           ELSE [decoder EXCEPT !.ready = TRUE, !.subscribed = FALSE,
                                !.codec = IF meta = "none" THEN Fallback ELSE meta]

(* A packet of a stream that is filtered out ... *)
DropUnwanted ==
    /\ decoder.frame = NoFrame /\ queue.decode # << >>
    /\ Head(queue.decode).stream \notin setup.wanted
    /\ queue' = [queue EXCEPT !.decode = Tail(@)]
    /\ UNCHANGED <<setup, input, ring, hello, sent, meta, decoder, surfaces, below, used>>

(* ... and one that is wanted: the decoder refuses it or decodes it to a     *)
(* frame, a surface of its own when hwaccel is on.                          *)
DecodePacket ==
    /\ decoder.frame = NoFrame /\ queue.decode # << >>
    /\ Head(queue.decode).stream \in setup.wanted
    /\ LET p == Head(queue.decode)
           good == Ensured.codec = p.codec
           f == [id |-> decoder.count + 1, gpu |-> setup.hwaccel, size |-> p.size]
       IN /\ decoder' = IF good THEN [Ensured EXCEPT !.packet = p.codec, !.frame = f,
                                                     !.count = @ + 1]
                        ELSE [Ensured EXCEPT !.packet = p.codec]
          /\ surfaces' = IF good /\ f.gpu THEN surfaces \cup {f.id} ELSE surfaces
    /\ queue' = [queue EXCEPT !.decode = Tail(@)]
    /\ UNCHANGED <<setup, input, ring, hello, sent, meta, below, used>>

(* The output's size, and whether a frame has to be converted at all. *)
OutSize(size) == IF setup.scale = Orig THEN size ELSE setup.scale
Converts(size) == setup.convert \/ OutSize(size) # size

(* Mutation: the scaler is kept as long as there is one. *)
KeepScaler(size) == IF decoder.scaler = 0 THEN size ELSE decoder.scaler

(* The size the scaler is made for: anew when there is none yet or the output *)
(* has another size than the frame, else it stays the one there is.          *)
ScalerFor(size) == IF decoder.scaler = 0 \/ OutSize(size) # size THEN size ELSE decoder.scaler

(* decode_detect is decoder and detector in one stage: on_decoded runs within *)
(* the decoder's on_frame call, on the surface itself.                      *)
DetectFused == /\ setup.below = "fused" /\ decoder.frame # NoFrame
               /\ decoder.packet # "forwarded"
               /\ used' = IF decoder.frame.gpu /\ decoder.frame.id \notin surfaces THEN "freed"
                          ELSE "alive"
               /\ decoder' = [decoder EXCEPT !.packet = "forwarded"]
               /\ UNCHANGED <<setup, input, ring, hello, sent, meta, queue, surfaces, below>>

(* The frame, or the descriptor of its surface, goes to the stage below,     *)
(* whose queue holds a copy of the bytes; frames in memory are scaled first. *)
ForwardFrame ==
    /\ setup.below # "fused" /\ decoder.frame # NoFrame /\ decoder.packet # "forwarded"
    /\ queue' = [queue EXCEPT !.below = Enqueue(@, decoder.frame)]
    /\ decoder' = [decoder EXCEPT !.packet = "forwarded",
                                  !.scaler = IF decoder.frame.gpu
                                                \/ ~Converts(decoder.frame.size) THEN @
                                             ELSE ScalerFor(decoder.frame.size)]
    /\ UNCHANGED <<setup, input, ring, hello, sent, meta, surfaces, below, used>>

(* Mutation: the surface is given back as soon as it has been decoded. *)
ReleaseEarly ==
    \/ /\ decoder.packet = "forwarded"
       /\ decoder' = [decoder EXCEPT !.frame = NoFrame, !.packet = "none"]
       /\ UNCHANGED <<setup, input, ring, hello, sent, meta, queue, surfaces, below, used>>
    \/ /\ surfaces # {} /\ surfaces' = {}
       /\ UNCHANGED <<setup, input, ring, hello, sent, meta, decoder, queue, below, used>>

(* on_frame has returned: av_frame_unref. *)
ReleaseFrame == /\ decoder.packet = "forwarded"
                /\ surfaces' = surfaces \ {decoder.frame.id}
                /\ decoder' = [decoder EXCEPT !.frame = NoFrame, !.packet = "none"]
                /\ UNCHANGED <<setup, input, ring, hello, sent, meta, queue, below, used>>

-----------------------------------------------------------------------------
(* The stage below: it takes a frame from its queue ... *)
Take == /\ below.frame = NoFrame /\ queue.below # << >>
        /\ below' = [below EXCEPT !.frame = Head(queue.below)]
        /\ queue' = [queue EXCEPT !.below = Tail(@)]
        /\ UNCHANGED <<setup, input, ring, hello, sent, meta, decoder, surfaces, used>>

(* ... and, detecting, reads its pixels, on the surface if it is one ... *)
Detect == /\ setup.below = "detect" /\ below.frame # NoFrame
          /\ used' = IF below.frame.gpu /\ below.frame.id \notin surfaces THEN "freed"
                     ELSE "alive"
          /\ below' = [below EXCEPT !.frame = NoFrame]
          /\ UNCHANGED <<setup, input, ring, hello, sent, meta, decoder, queue, surfaces>>

(* ... or encodes it: encode_ffmpeg announces its own codec on the bus before *)
(* its first packet, and passes GPU frames through.                         *)
Encode == /\ setup.below = "encode" /\ below.frame # NoFrame
          /\ below' = [below EXCEPT !.frame = NoFrame,
                                    !.announced = @ \/ ~below.frame.gpu]
          /\ IF below.announced \/ below.frame.gpu THEN UNCHANGED <<hello, meta>>
             ELSE Announce(setup.outCodec)
          /\ UNCHANGED <<setup, input, ring, sent, decoder, queue, surfaces, used>>

Next == \/ Connect \/ Capture \/ Pump \/ DropUnwanted \/ DecodePacket \/ ForwardFrame
        \/ ReleaseFrame \/ DetectFused \/ Take \/ Detect \/ Encode

Spec == Init /\ [][Next]_mediaVars

-----------------------------------------------------------------------------
(* "The decoder is created lazily on the first frame (by then metadata has arrived)" *)
(* (decode_ffmpeg.cpp:278), although packets and metadata travel on different ways:   *)
(* whatever streams there are, the decoder is opened for a codec that the source has  *)
(* announced, never for the fallback.                                                *)
CodecAnnounced == decoder.ready => decoder.codec \in {c.codec : c \in ToSet(setup.conns)}

(* The decoder is opened for the codec of the streams it decodes: it learns it "from  *)
(* the capture plugin's video StreamMetadata event, so decode auto-detects            *)
(* H264/HEVC/etc" (decode_ffmpeg.cpp:127-128), where "A capture may fan out several   *)
(* streams (e.g. a 4K record-only stream + a 720p detect stream)" (316-317).  For     *)
(* wanted streams that keep one codec.                                               *)
Wanted == {c \in ToSet(setup.conns) : c.stream \in setup.wanted}
WantedCodec == decoder.ready /\ (\A c, d \in Wanted : c.codec = d.codec)
                   => \E c \in Wanted : decoder.codec = c.codec

(* What the link sends as media has the codec it has announced for the stream: "the  *)
(* core turns it into the codec setup for downstream decode/store/Hello"             *)
(* (capture_file.cpp:75-76).                                                         *)
HelloMatchesMedia == sent.codec = sent.hello

(* A surface is "guaranteed valid only for the duration of the (synchronous)         *)
(* on_frame call, so a consumer must use or download it before returning"            *)
(* (zm_plugin.h:87): no stage reads one that has been freed.                         *)
SurfaceAlive == used # "freed"

(* A frame in memory that has been converted is on its way on. *)
Scaled == /\ setup.below # "fused" /\ decoder.packet = "forwarded"
          /\ ~decoder.frame.gpu /\ Converts(decoder.frame.size)

(* The scaler in use was made for frames of the size it is given: "Setup swscale      *)
(* context if needed (format conversion or scaling)" (decode_ffmpeg.cpp:470).         *)
ScalerFits == Scaled => decoder.scaler = decoder.frame.size

(* A scaler is never kept for too long where the frames have one size, or the output  *)
(* has a size that no frame has (decode_ffmpeg.cpp:475-476): there it fits.           *)
KeptRightly == \/ \A c, d \in ToSet(setup.conns) : c.size = d.size
               \/ setup.scale \notin {Orig} \cup {c.size : c \in ToSet(setup.conns)}
ScalerRemade == KeptRightly => ScalerFits
=============================================================================
