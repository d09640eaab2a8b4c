--------------------------- MODULE MCEventPlugins ---------------------------
(* Small instances of the parts of EventPlugins. *)
EXTENDS EventPlugins

LitScenes == [lane : {100, 140}, tail : {60, 91}]

OneClock ==
    [gate : {"bbox", "regions", "whole"}, shared : {FALSE}, frames : {"cuda", "rgb"},
     restarts : {FALSE}, fails : {FALSE}]
    \cup [gate : {"whole"}, shared : {TRUE}, frames : {"cuda"}, restarts : {TRUE},
          fails : {FALSE}]
    \cup [gate : {"bbox", "whole"}, shared : {FALSE}, frames : {"cuda"}, restarts : {FALSE},
          fails : {TRUE}]
Restarted == [gate : {"bbox"}, shared : {FALSE}, frames : {"cuda"}, restarts : {TRUE},
              fails : {FALSE}]
SharedOnRgb == [gate : {"whole"}, shared : {TRUE}, frames : {"rgb"}, restarts : {FALSE},
                fails : {FALSE}]

Detections == [at : 0..3, conf : {"high", "low"}, class : {0}]
OneOrTwo == {<< >>} \cup {<<d>> : d \in Detections}
            \cup {<<d, e>> : d \in {x \in Detections : x.at = 0},
                             e \in {x \in Detections : x.at \in {1, 2}}}

P(x, y) == [x |-> x, y |-> y]
Rule(type) == [type |-> type, polygon |-> <<P(1, 0), P(3, 2), P(1, 4)>>,
               line |-> <<P(2, -5), P(1, 7)>>, direction |-> "lr", seconds |-> 3]
ThreeRules == <<Rule("intrusion"), Rule("loiter"), Rule("linecross")>>
(* Places outside and inside the polygon, on its edge, and on the line: P(2, -5). *)
Grounds == {P(0, 0), P(1, 1), P(2, 2), P(3, 2), P(2, -5)}

(* Time stamps of events: some after which a track is forgotten, and some that start again. *)
TwoStamps == {<<1, 2, 3, 4, 8>>, <<4, 5, 1, 4, 5>>}

(* Time stamps with a gap in which a track is forgotten, and some that start again. *)
BothClocks == {<<1, 2, 3, 4, 5, 8, 9>>, <<5, 6, 1, 2, 3, 4>>}
=============================================================================
