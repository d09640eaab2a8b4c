------------------------------ MODULE Tracker ------------------------------
(***************************************************************************)
(* tracker: persistent ids for the detections of one stream (tracker_core,  *)
(* a ByteTrack / OC-SORT hybrid).  One batch is one "detection" event.      *)
(*                                                                         *)
(* The picture is one line of pixels and every box is 3 wide, so that the   *)
(* IoU of boxes 0, 1 and 2 apart is 1, 0.5 and 0.2: scores are in tenths.   *)
(* The Kalman filter is at gain 1, which is within 2% of what its first     *)
(* update does (its velocity covariance starts at 1000).  Appearance        *)
(* vectors are left out (appearance_threshold is 0 unless configured).      *)
(***************************************************************************)
EXTENDS Integers, Sequences, FiniteSets

CONSTANTS Batches,     \* sequences of detections [at, conf, class], class -1 if unknown
          MaxBatches,  \* batches of a run
          MaxAge,      \* max_age
          MinHits      \* min_hits

VARIABLES tracks,    \* tracks_, of which the order does not matter: [id, x, v, last, hits,
                     \* age, class]
          nextId,    \* next_id_
          batch,     \* batches handled
          assigned,  \* the ids of the last batch's detections
          sight      \* what has been seen: [at, when, steady, ids]
trackerVars == <<tracks, nextId, batch, assigned, sight>>

Rest == /\ tracks = {} /\ nextId = 1 /\ batch = 0 /\ assigned = << >>
        /\ sight = [at |-> 0, when |-> 0, steady |-> TRUE, ids |-> {}]
Init == Rest

Apart(a, b) == IF a > b THEN a - b ELSE b - a
Sign(n) == IF n > 0 THEN 1 ELSE IF n < 0 THEN -1 ELSE 0
iou(a, b) == CASE Apart(a, b) = 0 -> 10 [] Apart(a, b) = 1 -> 5 [] Apart(a, b) = 2 -> 2
               [] OTHER -> 0

-----------------------------------------------------------------------------
(* Age and KF-predict. *)
Predicted(t) == [t EXCEPT !.age = @ + 1, !.x = @ + t.v]

gate_ok(d, t) == d.class = t.class \/ -1 \in {d.class, t.class}

(* The pairs <<track, detection>> of a pass: of those unmatched that overlap enough. *)
Pairs(ts, ds, cand, matched, lastObs, thr) ==
    {p \in ts \X cand :
        /\ \A m \in matched : m[1] # p[1] /\ m[2] # p[2]
        /\ gate_ok(ds[p[2]], p[1])
        /\ iou(ds[p[2]].at, IF lastObs THEN p[1].last ELSE p[1].x) >= thr}

(* The overlap, and in the first pass the direction of motion. *)
Score(ds, lastObs, ocm, p) ==
    LET t == p[1]
        d == ds[p[2]]
    IN iou(d.at, IF lastObs THEN t.last ELSE t.x)
       + (IF ocm THEN 2 * Sign(t.v) * Sign(d.at - t.last) ELSE 0)

Shares(p, q) == p[1] = q[1] \/ p[2] = q[2]

(* Mutation: a pair is taken whatever its track has been given before it. *)
BestForDet(pairs, score) ==
    {M \in SUBSET pairs :
        /\ \A p, q \in M : p[2] = q[2] => p = q
        /\ \A p \in pairs \ M : \E q \in M : p[2] = q[2] /\ score[q] >= score[p]}

(* What taking pairs by falling score can lead to: a pair is left out just when one *)
(* that scores at least as well has taken its track or its detection.               *)
Greedy(pairs, score) ==
    {M \in SUBSET pairs :
        /\ \A p, q \in M : Shares(p, q) => p = q
        /\ \A p \in pairs \ M : \E q \in M : Shares(p, q) /\ score[q] >= score[p]}

(* The third pass re-seeds the velocity after a gap. *)
Reseeded(t, d) ==
    IF t.age > 1 THEN [t EXCEPT !.v = Sign(d.at - t.last) * (Apart(d.at, t.last) \div t.age)]
    ELSE t

(* A matched track. *)
Corrected(t, d) == [t EXCEPT !.x = d.at, !.v = @ + d.at - t.x, !.last = d.at, !.hits = @ + 1,
                             !.age = 0, !.class = d.class]

NewTrack(id, d) ==
    [id |-> id, x |-> d.at, v |-> 0, last |-> d.at, hits |-> 1, age |-> 0, class |-> d.class]

(* Mutation: there is no third pass. *)
NoThirdPass(ts, ds, left, matched) == {{}}

(* Unmatched tracks against the high detections left, by the last observation. *)
ThirdPass(ts, ds, left, matched) ==
    LET pairs == Pairs(ts, ds, left, matched, TRUE, 3)
    IN Greedy(pairs, [p \in pairs |-> Score(ds, TRUE, FALSE, p)])

Place(i, S) == Cardinality({j \in S : j <= i})

(* What becomes of the tracks ts when m are matched, m3 of them in the third pass: a   *)
(* high detection left over begins a track of its own, in the order of the batch.      *)
Handed(ts, ds, m, m3) ==
    LET met == {p[2] : p \in m}
        new == {i \in DOMAIN ds : ds[i].conf # "low"} \ met
        track(i) == IF i \in new THEN NewTrack(nextId + Place(i, new) - 1, ds[i])
                    ELSE LET p == CHOOSE p \in m : p[2] = i
                         IN Corrected(IF p \in m3 THEN Reseeded(p[1], ds[i]) ELSE p[1], ds[i])
        now == {t \in ts : \A p \in m : p[1] # t} \cup {track(i) : i \in new \cup met}
    IN /\ assigned' = [i \in DOMAIN ds |->
                          IF i \in new \cup met /\ track(i).hits >= MinHits THEN track(i).id ELSE 0]
       /\ nextId' = nextId + Cardinality(new)
       /\ tracks' = {t \in now : t.age <= MaxAge}

(* What is seen in a batch, for OneIdEach. *)
Sighted(ds) ==
    LET lone == Len(ds) = 1 /\ ds[1].conf = "high"
        near == sight.when = 0 \/ (Apart(ds[1].at, sight.at) <= 1
                                   /\ batch + 1 - sight.when <= MaxAge + 1)
    IN sight' = [at |-> IF lone THEN ds[1].at ELSE sight.at,
                 when |-> IF lone THEN batch + 1 ELSE sight.when,
                 steady |-> sight.steady /\ (ds = << >> \/ (lone /\ near)),
                 ids |-> sight.ids \union ({assigned'[i] : i \in DOMAIN ds} \ {0})]

(* What handleEvent's update makes of a batch. *)
Update(ds) ==
    LET ts == {Predicted(t) : t \in tracks}
        high == {i \in DOMAIN ds : ds[i].conf # "low"}
        p1 == Pairs(ts, ds, high, {}, FALSE, 3)
        p2(m) == Pairs(ts, ds, DOMAIN ds \ high, m, FALSE, 2)
    IN \E m1 \in Greedy(p1, [p \in p1 |-> Score(ds, FALSE, TRUE, p)]) :
       \E m2 \in Greedy(p2(m1), [p \in p2(m1) |-> Score(ds, FALSE, FALSE, p)]) :
       LET met == {p[2] : p \in m1 \union m2}
       IN \E m3 \in ThirdPass(ts, ds, high \ met, m1 \union m2) :
              Handed(ts, ds, m1 \union m2 \union m3, m3)

HandleEvent == /\ batch < MaxBatches /\ batch' = batch + 1
               /\ \E ds \in Batches : Update(ds) /\ Sighted(ds)

Next == HandleEvent

Spec == Init /\ [][Next]_trackerVars

-----------------------------------------------------------------------------
(* One object, one id: the detections of a batch have different ids, and an object  *)
(* alone in the picture that moves by at most one pixel, either way, between        *)
(* sightings no further apart than max_age is never given a second one, although    *)
(* the predicted position of an object that turns round misses it.                  *)
OneIdEach ==
    /\ \A i, j \in DOMAIN assigned : assigned[i] = assigned[j] /\ i # j => assigned[i] = 0
    /\ sight.steady => Cardinality(sight.ids) <= 1
=============================================================================
