--------------------------- MODULE StreamProtocol ---------------------------
(***************************************************************************)
(* The wire protocol of the worker's socket (stream_socket_protocol): units *)
(* of a header and a payload, the payload of a Hello or an Event a list of  *)
(* fields (tag, length, value).  A reader gets the bytes in pieces of any   *)
(* size and takes every complete unit out of its buffer: the worker for a   *)
(* consumer's requests (onClientReadable), the consumer for media and       *)
(* events (wl_dump).                                                       *)
(*                                                                         *)
(* A byte is a number; a number takes as many bytes as on the wire, digits  *)
(* of the base Base.  Of the header, length, version and type are kept: the *)
(* others are carried along.                                               *)
(***************************************************************************)
EXTENDS Naturals, Sequences, SequencesExt

CONSTANTS Base,       \* 256 in the code
          Sizes,      \* bytes that a read may find
          Exchanges   \* [reader: "worker" or "consumer", units, cut]: the sender writes all
                      \* units but the last `cut' bytes of the one before the Bye.  A unit is
                      \* [type, version, body], of a Hello or an Event [type, version, code,
                      \* fields, later]: fields a function from tags, later: a later version's
                      \* producer adds a field the reader does not know

kProtocolVersion == 1
LengthBytes == 4
kHeaderLengthBytes == 2                          \* version and type (20 in the code)
kHeaderSize == LengthBytes + kHeaderLengthBytes
kMaxMessageLength == 2 * Base ^ 3                \* 32 MB
Longest == Base ^ 2 - 1                          \* of a field: 0xffff

VARIABLES exchange,  \* chosen once
          wire,      \* bytes sent and not yet read
          inbuf,     \* bytes read
          received,  \* the units taken out of it
          state      \* "reading"; "dead", the worker's reader after a bad header; "lost",
                     \* the consumer's, which throws its buffer away and reads on
wireVars == <<exchange, wire, inbuf, received, state>>

-----------------------------------------------------------------------------
(* put_u16, put_u32 and put_u64, and their inverses. *)
put(n, width) == [i \in 1..width |-> (n \div Base ^ (i - 1)) % Base]
get(bytes) == FoldRight(LAMBDA digit, rest : digit + Base * rest, bytes, 0)

(* The fields of a payload, in the order they are written; width 0 is text. *)
Hello == <<[tag |-> 1, width |-> 4], [tag |-> 2, width |-> 0], [tag |-> 3, width |-> 4]>>
Event == <<[tag |-> 1, width |-> 8], [tag |-> 2, width |-> 0], [tag |-> 3, width |-> 4],
           [tag |-> 7, width |-> 2], [tag |-> 16, width |-> 0]>>
Code == [hello |-> 1, bye |-> 5, event |-> 6, command |-> 17]
CodecId == 1

append_tlv(tag, value) == <<tag>> \o put(Len(value), 2) \o value

(* append_tlv_str, and extradata: cut to what the length can say. *)
Clamped(text) == SubSeq(text, 1, IF Len(text) > Longest THEN Longest ELSE Len(text))

Later(unit) == IF unit.later THEN append_tlv(127, <<1, 2>>) ELSE << >>

Nothing(f) == IF f.width = 0 THEN << >> ELSE 0

(* A Hello leaves out what is 0 or empty ... *)
BuildHello(unit) ==
    LET written(f) == LET v == unit.fields[f.tag] IN
            IF f.tag \notin DOMAIN unit.fields \/ v = Nothing(f) THEN << >>
            ELSE append_tlv(f.tag, IF f.width = 0 THEN Clamped(v) ELSE put(v, f.width))
    IN FlattenSeq([i \in DOMAIN Hello |-> written(Hello[i])]) \o Later(unit)

(* ... an Event what has not been set; its code comes first. *)
BuildEvent(unit) ==
    LET written(f) == LET v == unit.fields[f.tag] IN
            IF f.tag \notin DOMAIN unit.fields \/ (f.width = 0 /\ v = << >>) THEN << >>
            ELSE append_tlv(f.tag, IF f.width = 0 THEN Clamped(v) ELSE put(v, f.width))
    IN put(unit.code, 2) \o FlattenSeq([i \in DOMAIN Event |-> written(Event[i])]) \o Later(unit)

Payload(unit) == CASE unit.type = "hello" -> BuildHello(unit)
                   [] unit.type = "event" -> BuildEvent(unit)
                   [] OTHER -> unit.body

(* SerializeHeader in front of it; a garbled unit has another version. *)
Serialized(unit) ==
    put(kHeaderLengthBytes + Len(Payload(unit)), LengthBytes)
        \o <<unit.version, Code[unit.type]>> \o Payload(unit)

-----------------------------------------------------------------------------
(* The fields of a list: not ok when one is cut off or of another width than its tag's;  *)
(* unknown tags are skipped.                                                             *)
FieldsFound(fields, payload, first) ==
    LET width(tag) == {f.width : f \in {x \in ToSet(fields) : x.tag = tag}}
        from[pos \in 1..Len(payload) + 1] ==
            LET left == Len(payload) + 1 - pos
                len == get(SubSeq(payload, pos + 1, pos + 2))
                value == SubSeq(payload, pos + 3, pos + 2 + len)
                rest == from[pos + 3 + len]
            IN  IF left = 0 THEN [ok |-> TRUE, found |-> {}]
                ELSE IF left < 3 \/ left - 3 < len THEN [ok |-> FALSE, found |-> {}]
                ELSE IF width(payload[pos]) = {} THEN rest
                ELSE IF 0 \in width(payload[pos])
                THEN [rest EXCEPT !.found = @ \cup {<<payload[pos], value>>}]
                ELSE IF len \notin width(payload[pos]) THEN [ok |-> FALSE, found |-> {}]
                ELSE [rest EXCEPT !.found = @ \cup {<<payload[pos], get(value)>>}]
    IN from[first]

Unparsable == [ok |-> FALSE, code |-> 0, found |-> {}]

(* A Hello must name a codec ... *)
ParseHello(payload) ==
    LET info == FieldsFound(Hello, payload, 1) IN
    IF info.ok /\ \E f \in info.found : f[1] = CodecId /\ f[2] # 0
    THEN [ok |-> TRUE, code |-> 0, found |-> info.found] ELSE Unparsable

(* ... an Event must have a code. *)
ParseEvent(payload) ==
    LET ev == FieldsFound(Event, payload, 3) IN
    IF Len(payload) >= 2 /\ ev.ok
    THEN [ok |-> TRUE, code |-> get(SubSeq(payload, 1, 2)), found |-> ev.found] ELSE Unparsable

ParseHeader(bytes) ==
    LET length == get(SubSeq(bytes, 1, LengthBytes)) IN
    [ok |-> /\ bytes[LengthBytes + 1] = kProtocolVersion
            /\ length >= kHeaderLengthBytes /\ length <= kMaxMessageLength,
     payload |-> length - kHeaderLengthBytes,
     type |-> LET types == {t \in DOMAIN Code : Code[t] = bytes[LengthBytes + 2]}
              IN IF types = {} THEN "other" ELSE CHOOSE t \in types : TRUE]

(* Mutation: a unit waits for a byte of the next one. *)
FollowedByMore(size, need) == size > need

(* A unit is taken out when all of it is in the buffer. *)
Complete(size, need) == size >= need

(* The units in a buffer, the bytes that are left, and whether a header is bad. *)
Units(buf) ==
    LET from[i \in 1..Len(buf) + 1] ==
            LET left == Len(buf) + 1 - i
                h == ParseHeader(SubSeq(buf, i, Len(buf)))
                need == kHeaderSize + h.payload
                payload == SubSeq(buf, i + kHeaderSize, i + need - 1)
                rest == from[i + need]
                unit == [type |-> h.type, says |-> CASE h.type = "hello" -> ParseHello(payload)
                                                     [] h.type = "event" -> ParseEvent(payload)
                                                     [] OTHER -> payload]
            IN  IF left < kHeaderSize
                THEN [got |-> << >>, left |-> SubSeq(buf, i, Len(buf)), bad |-> FALSE]
                ELSE IF ~h.ok THEN [got |-> << >>, left |-> << >>, bad |-> TRUE]
                ELSE IF ~Complete(left, need)
                THEN [got |-> << >>, left |-> SubSeq(buf, i, Len(buf)), bad |-> FALSE]
                ELSE [rest EXCEPT !.got = <<unit>> \o @]
    IN from[1]

-----------------------------------------------------------------------------
(* onClientWritable may have written a part of a unit when stop() writes its Bye. *)
Sent(x) == LET whole(units) == FlattenSeq([i \in DOMAIN units |-> Serialized(units[i])])
               last == Len(x.units)
               before == whole(SubSeq(x.units, 1, last - 1))
           IN SubSeq(before, 1, Len(before) - x.cut) \o whole(SubSeq(x.units, last, last))

Init == /\ exchange \in Exchanges /\ wire = Sent(exchange)
        /\ inbuf = << >> /\ received = << >> /\ state = "reading"

Off == /\ exchange = [reader |-> "worker", units |-> << >>, cut |-> 0]
       /\ wire = << >> /\ inbuf = << >> /\ received = << >> /\ state = "dead"

(* One read and the loop over what is complete by then. *)
Read == /\ state # "dead" /\ wire # << >>
        /\ \E n \in {Len(wire)} \cup {m \in Sizes : m < Len(wire)} :
               LET u == Units(inbuf \o SubSeq(wire, 1, n)) IN
               /\ wire' = SubSeq(wire, n + 1, Len(wire))
               /\ inbuf' = u.left /\ received' = received \o u.got
               /\ state' = IF ~u.bad THEN state
                           ELSE IF exchange.reader = "worker" THEN "dead" ELSE "lost"
        /\ UNCHANGED exchange

Next == Read
Spec == Init /\ [][Next]_wireVars

-----------------------------------------------------------------------------
(* What a unit says, as far as a payload can say it. *)
Said(unit) ==
    LET fields == IF unit.type = "hello" THEN Hello ELSE Event
        told == {f \in ToSet(fields) :
                    /\ f.tag \in DOMAIN unit.fields
                    /\ unit.type = "hello" \/ f.width = 0 => unit.fields[f.tag] # Nothing(f)}
        value(f) == IF f.width = 0 THEN Clamped(unit.fields[f.tag]) ELSE unit.fields[f.tag]
        all == [ok |-> TRUE, code |-> 0, found |-> {<<f.tag, value(f)>> : f \in told}]
    IN [type |-> unit.type,
        says |-> CASE unit.type = "event" -> [all EXCEPT !.code = unit.code]
                   [] unit.type = "hello" -> IF \E f \in told : f.tag = CodecId THEN all
                                             ELSE Unparsable
                   [] OTHER -> unit.body]

(* However the bytes are split over reads, the reader takes out the units that were sent,  *)
(* whole, once, in order and with every field it knows, up to the first with a bad header *)
(* (WorkerLink.cpp:365, stream_socket_protocol.hpp:23), and none stays in its buffer.      *)
AsSent ==
    LET good == SelectInSeq(exchange.units, LAMBDA u : u.version # kProtocolVersion) - 1
        said == [i \in DOMAIN exchange.units |-> Said(exchange.units[i])]
    IN IF state = "reading" THEN /\ IsPrefix(received, said)
                                 /\ wire = << >> => received = said
       ELSE IsPrefix(SubSeq(said, 1, good), received)
=============================================================================
