--------------------------- MODULE MCMediaPlugins ---------------------------
(* Small instances of the parts of MediaPlugins. *)
EXTENDS MediaPlugins

Entry(id) == [url |-> TRUE, id |-> id]
CameraLists == {[entries |-> <<Entry(-1)>>, maxRetry |-> 2, removable |-> TRUE],
                [entries |-> <<Entry(-1)>>, maxRetry |-> 0, removable |-> FALSE],
                [entries |-> <<[Entry(-1) EXCEPT !.url = FALSE], Entry(-1), Entry(5)>>,
                 maxRetry |-> 1, removable |-> TRUE]}

Pkt(kind, pts) == [kind |-> kind, pts |-> pts]
Packets == <<Pkt("video", 0), Pkt("audio", 0), Pkt("video", 1), Pkt("audio", 1), Pkt("video", 2)>>
MediaFiles == [packets : {Packets}, loop : BOOLEAN, realtime : BOOLEAN, opens : BOOLEAN,
               maxPasses : {3}]

Conn(s, c, n) == [stream |-> s, codec |-> c, size |-> n]
TwoSizes == [conns |-> <<Conn(1, "hevc", 1), Conn(1, "hevc", 2)>>, packets |-> 2, wanted |-> {1},
             hwaccel |-> FALSE, convert |-> TRUE, scale |-> 3, below |-> "detect",
             outCodec |-> "hevc"]
OneSize == <<Conn(1, "hevc", 1), Conn(1, "hevc", 1)>>
TwoStreams == [TwoSizes EXCEPT !.conns = <<Conn(1, "av1", 1), Conn(0, "hevc", 2), Conn(1, "av1", 1)>>,
                               !.packets = 1, !.scale = 0]
GpuDetect == {[TwoSizes EXCEPT !.hwaccel = TRUE]}
AnyScale == {[TwoSizes EXCEPT !.scale = n] : n \in 0..3}
TwoCodecs == {[TwoSizes EXCEPT !.conns = <<Conn(1, "hevc", 1), Conn(1, "h264", 1)>>]}
RecordAndDetect == {[TwoSizes EXCEPT !.conns = <<Conn(1, "h264", 1), Conn(0, "hevc", 2)>>],
                    [TwoSizes EXCEPT !.conns = <<Conn(0, "hevc", 2), Conn(1, "h264", 1)>>]}
CpuOrFused == AnyScale \cup TwoCodecs \cup RecordAndDetect
              \cup {TwoStreams, [TwoSizes EXCEPT !.convert = FALSE]}
              \cup {[TwoSizes EXCEPT !.conns = OneSize, !.scale = n, !.convert = c] :
                       n \in 0..1, c \in BOOLEAN}
              \cup {[TwoSizes EXCEPT !.hwaccel = h, !.below = b] :
                       h \in BOOLEAN, b \in {"encode", "fused"}}

Node(parent, type) == [parent |-> parent, type |-> type, loads |-> TRUE, starts |-> TRUE,
                       flushes |-> FALSE]
In == Node(0, "input")
PipelineFiles == {<<In, Node(1, "process"), Node(2, "store")>>,
                  <<In, [Node(0, "process") EXCEPT !.flushes = TRUE], Node(0, "store")>>,
                  <<In, [Node(1, "process") EXCEPT !.starts = FALSE], Node(1, "store")>>,
                  <<[In EXCEPT !.starts = FALSE], Node(1, "store")>>,
                  <<Node(0, "process"), Node(1, "store")>>,
                  <<In, [Node(1, "store") EXCEPT !.loads = FALSE]>>}

Key == [sps |-> TRUE, idr |-> TRUE]
Delta == [sps |-> FALSE, idr |-> FALSE]
BareKey == [sps |-> FALSE, idr |-> TRUE]
LateKey == {<<Delta, Delta, Delta, BareKey, Delta, BareKey, Delta, BareKey>>}
MseFeeds == {<<Delta, Key, Delta, Delta, Key, Delta, BareKey, Key, Delta, BareKey, Key, BareKey>>,
             <<Delta, Delta, BareKey, Delta, BareKey, Delta>>} \cup LateKey

TwoCameras == {{[camera |-> 1, stream |-> 0], [camera |-> 2, stream |-> 1]}}

Text(n) == [i \in 1..n |-> i % 3]
Unit(type, fields) == [type |-> type, version |-> 1, code |-> 5, fields |-> fields,
                       later |-> FALSE]
Plain(type, body) == [type |-> type, version |-> 1, body |-> body]
HelloUnit == Unit("hello", 1 :> 27 @@ 2 :> Text(2) @@ 3 :> 0)
EventUnit == Unit("event", 1 :> 300 @@ 2 :> Text(0) @@ 3 :> 0 @@ 16 :> Text(16))
Said(units) == [reader |-> "consumer", units |-> Append(units, Plain("bye", << >>)), cut |-> 0]
Dialogues == {Said(<<HelloUnit, [EventUnit EXCEPT !.later = TRUE]>>),
              Said(<<Unit("hello", 2 :> Text(15)), HelloUnit>>),
              Said(<<HelloUnit, [EventUnit EXCEPT !.version = 9], HelloUnit>>),
              [Said(<<Plain("command", Text(3)), Plain("command", << >>),
                      [Plain("command", Text(2)) EXCEPT !.version = 0]>>)
                   EXCEPT !.reader = "worker"]}
=============================================================================
