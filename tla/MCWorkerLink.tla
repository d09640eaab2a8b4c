----------------------------- MODULE MCWorkerLink -----------------------------
EXTENDS WorkerLink

CONSTANTS p1, p2

Req(type, v, a, e) == [type |-> type, video |-> v, audio |-> a, events |-> e]

AudioOnly == Req("subscribe", FALSE, TRUE, TRUE)
AskStatus == Req("command", FALSE, FALSE, FALSE)
Garbage == Req("corrupt", FALSE, FALSE, FALSE)
Talkback == Req("talkback", FALSE, FALSE, FALSE)

Quiet == [maxClients |-> 1, params |-> {}, media |-> Streams, kinds |-> {}, calls |-> 0,
          conns |-> 0, requests |-> {}, hangups |-> 0, offsets |-> {0}, stats |-> 0,
          stop |-> FALSE]

(* Messages are written in part; statistics and an answer join a full queue. *)
Writing == [Quiet EXCEPT !.kinds = {"health"}, !.calls = 2, !.conns = 1,
                         !.requests = {AskStatus}, !.offsets = {0, 1}, !.stats = 1]

(* Parameters of both streams change while a consumer joins and falls behind. *)
Reconfiguring == [Quiet EXCEPT !.params = {p1, p2}, !.media = {"audio"}, !.calls = 4,
                               !.conns = 1]

(* A consumer changes its subscription while the parameters change. *)
Ordering == [Quiet EXCEPT !.params = {p1, p2}, !.media = {"video"}, !.calls = 3,
                          !.conns = 1, !.requests = {AudioOnly}]

(* More consumers than the link takes come and go, and the link is stopped. *)
Crowding == [Quiet EXCEPT !.conns = 3, !.requests = {Garbage, Talkback}, !.hangups = 1,
                          !.stop = TRUE]

(* Two consumers at a time, one of which leaves. *)
Pair == [Quiet EXCEPT !.maxClients = 2, !.kinds = {"health", "detection"},
                      !.calls = 2, !.conns = 2, !.hangups = 1]

Reusing == [Quiet EXCEPT !.calls = 1, !.conns = 2, !.hangups = 1]

Ordinary == {Writing, Reconfiguring, Ordering, Crowding, Pair}
Reuse == {Reusing}
=============================================================================
