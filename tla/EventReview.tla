---------------------------- MODULE EventReview ----------------------------
(***************************************************************************)
(* llm_event_review: asks a vision model about the tracks of alerts, and    *)
(* for the story of a track that has gone idle.  handleEvent runs on the    *)
(* publisher's thread and queues reviews; workerLoop is a thread of its     *)
(* own; stop runs on the main thread.  What is in a picture, a prompt or a  *)
(* trajectory is left out.  Times are ages in ticks, kept up to the largest *)
(* that is compared with.                                                   *)
(***************************************************************************)
EXTENDS Naturals, Sequences, FiniteSets

CONSTANTS Tracks,       \* (stream, track_id)
          Events,       \* alerts of a run
          Debounce,     \* debounceUsec
          Prune,        \* the 30 s after which lastReview forgets a track
          Idle,         \* narratorIdleSec
          MinCaptions   \* narratorMinCaptions

VARIABLES alerts,      \* alerts so far
          framed,      \* the stream's ring holds a frame
          lastReview,  \* ages of the entries of lastReview, Never for none
          asked,       \* age of each track's last queued review
          hist,        \* trackHist: [captions, narrated, idle]
          jobs,        \* the tracks of the queued reviews
          worker,      \* workerLoop: [at, job, stories, notified]
          stopper      \* stop: "no", "flagged", "notified", "joined"
reviewVars == <<alerts, framed, lastReview, asked, hist, jobs, worker, stopper>>

Never == 99
Dead == Idle + 1     \* tracks idle for more than 5 minutes are dropped
running == stopper = "no"

Rest == /\ alerts = 0 /\ framed = FALSE
        /\ lastReview = [t \in Tracks |-> Never] /\ asked = [t \in Tracks |-> Never]
        /\ hist = [t \in Tracks |-> [captions |-> 0, narrated |-> FALSE, idle |-> 0]]
        /\ jobs = << >>
Init == Rest /\ stopper = "no"
        /\ worker = [at |-> "top", job |-> << >>, stories |-> {}, notified |-> FALSE]
Off == Rest /\ stopper = "joined"
       /\ worker = [at |-> "exited", job |-> << >>, stories |-> {}, notified |-> FALSE]

-----------------------------------------------------------------------------
Older(age, bound) == IF age = Never THEN Never ELSE IF age < bound THEN age + 1 ELSE age

Tick == /\ lastReview' = [t \in Tracks |-> Older(lastReview[t], Prune + 1)]
        /\ asked' = [t \in Tracks |-> Older(asked[t], Debounce)]
        /\ hist' = [t \in Tracks |-> [hist[t] EXCEPT !.idle = Older(@, Dead)]]
        /\ <<lastReview, asked, hist>>' # <<lastReview, asked, hist>>
        /\ UNCHANGED <<alerts, framed, jobs, worker, stopper>>

(* on_frame: a thumbnail in the ring. *)
OnFrame == /\ ~framed /\ running /\ framed' = TRUE
           /\ UNCHANGED <<alerts, lastReview, asked, hist, jobs, worker, stopper>>

Debounced(t) == lastReview[t] # Never /\ lastReview[t] < Debounce

(* Mutation: a track is noted when the model has answered. *)
NotedLater(t) == lastReview

(* The track is noted, and tracks not reviewed for long are forgotten. *)
Noted(t) == [u \in Tracks |-> IF u = t THEN 0
                              ELSE IF lastReview[u] > Prune THEN Never ELSE lastReview[u]]

(* handleEvent for an alert about track t, and the part of it that records where the *)
(* object is.  `active` is cleared before anything else in stop.                     *)
HandleEvent(t) ==
    /\ alerts < Events /\ running /\ alerts' = alerts + 1
    /\ hist' = [hist EXCEPT ![t].idle = 0]
    /\ IF framed /\ ~Debounced(t)
       THEN /\ lastReview' = Noted(t)
            /\ asked' = [asked EXCEPT ![t] = 0]
            /\ jobs' = Append(jobs, t)
            /\ worker' = [worker EXCEPT !.notified = worker.at = "waiting"]
       ELSE UNCHANGED <<lastReview, asked, jobs, worker>>
    /\ UNCHANGED <<framed, stopper>>

-----------------------------------------------------------------------------
At(pc) == worker.at = pc
Go(pc) == worker' = [worker EXCEPT !.at = pc, !.notified = FALSE]
WorkerOnly == UNCHANGED <<alerts, framed, lastReview, asked, stopper>>

WorkerTop == /\ At("top") /\ Go(IF running THEN "locked" ELSE "exited")
             /\ WorkerOnly /\ UNCHANGED <<hist, jobs>>

(* Behind the wait: a job, the narrator's turn, or the end. *)
Proceed == IF jobs # << >>
           THEN /\ worker' = [worker EXCEPT !.at = "review", !.job = <<Head(jobs)>>,
                                            !.notified = FALSE]
                /\ jobs' = Tail(jobs)
           ELSE Go(IF running THEN "scan" ELSE "exited") /\ UNCHANGED jobs

(* wait_for's predicate, and between it and the wait. *)
WorkerLocks == /\ At("locked")
               /\ IF ~running \/ jobs # << >> THEN Proceed ELSE Go("blocking") /\ UNCHANGED jobs
               /\ WorkerOnly /\ UNCHANGED hist
WorkerBlocks == At("blocking") /\ Go("waiting") /\ WorkerOnly /\ UNCHANGED <<hist, jobs>>

(* Mutation: it waits without a time limit. *)
WaitsForever == FALSE
TimesOut == TRUE

WorkerWakes == /\ At("waiting")
               /\ TimesOut \/ (worker.notified /\ (~running \/ jobs # << >>))
               /\ Proceed /\ WorkerOnly /\ UNCHANGED hist

(* processJob of a review: the model may give no answer. *)
ProcessReview ==
    /\ At("review")
    /\ \E answered \in BOOLEAN :
         LET t == worker.job[1]
         IN hist' = IF ~answered THEN hist
                    ELSE [hist EXCEPT ![t] = [captions |-> IF @.captions < MinCaptions
                                                           THEN @.captions + 1 ELSE @.captions,
                                              narrated |-> FALSE, idle |-> 0]]
    /\ worker' = [worker EXCEPT !.at = "top", !.job = << >>]
    /\ WorkerOnly /\ UNCHANGED jobs

Ready(t) == /\ ~hist[t].narrated /\ hist[t].captions >= MinCaptions /\ hist[t].idle >= Idle

(* Mutation: tracks that are dead are dropped first. *)
LivingStories == {t \in Tracks : Ready(t) /\ hist[t].idle < Dead}
Stories == {t \in Tracks : Ready(t)}

(* collectNarrateJobs *)
CollectNarrateJobs ==
    /\ At("scan")
    /\ worker' = [worker EXCEPT !.at = "narrate", !.stories = Stories]
    /\ hist' = [t \in Tracks |->
            IF hist[t].idle >= Dead THEN [captions |-> 0, narrated |-> FALSE, idle |-> Dead]
            ELSE [hist[t] EXCEPT !.narrated = @ \/ t \in Stories]]
    /\ WorkerOnly /\ UNCHANGED jobs

(* Its jobs one by one, unless the plugin stops meanwhile. *)
ProcessNarrate ==
    /\ At("narrate")
    /\ IF worker.stories = {} \/ ~running
       THEN worker' = [worker EXCEPT !.at = "top", !.stories = {}]
       ELSE \E t \in worker.stories : worker' = [worker EXCEPT !.stories = @ \ {t}]
    /\ WorkerOnly /\ UNCHANGED <<hist, jobs>>

Worker == \/ WorkerTop \/ WorkerLocks \/ WorkerBlocks \/ WorkerWakes \/ ProcessReview
          \/ CollectNarrateJobs \/ ProcessNarrate

(* stop: the flag is cleared and the worker notified without the queue's lock. *)
StopFlags == /\ stopper = "no" /\ stopper' = "flagged"
             /\ UNCHANGED <<alerts, framed, lastReview, asked, hist, jobs, worker>>
StopNotifies == /\ stopper = "flagged" /\ stopper' = "notified"
                /\ worker' = [worker EXCEPT !.notified = worker.at = "waiting"]
                /\ UNCHANGED <<alerts, framed, lastReview, asked, hist, jobs>>
StopJoins == /\ stopper = "notified" /\ At("exited") /\ stopper' = "joined"
             /\ UNCHANGED <<alerts, framed, lastReview, asked, hist, jobs, worker>>
Stop == StopNotifies \/ StopJoins

Next == Tick \/ OnFrame \/ (\E t \in Tracks : HandleEvent(t)) \/ Worker \/ StopFlags \/ Stop

-----------------------------------------------------------------------------
(* "Per-track debounce: don't re-review the same track within N seconds"               *)
(* (llm_event_review.cpp:865): no review of a track is queued so soon after another,    *)
(* whatever is forgotten of other tracks meanwhile.                                    *)
DebounceHolds == [][\A t \in Tracks : Len(jobs') > Len(jobs) /\ jobs'[Len(jobs')] = t
                        => asked[t] >= Debounce]_reviewVars

(* A track whose reviews suffice for a story is taken up by the narrator once it has    *)
(* been idle, however long the worker was busy with reviews; unless the plugin stops or *)
(* a new caption comes first.                                                           *)
EveryStoryTold == \A t \in Tracks :
    (hist[t].captions >= MinCaptions /\ ~hist[t].narrated) ~>
        (hist[t].narrated \/ t \in worker.stories \/ ~running)

(* stop returns, although its wake-up may be lost. *)
ReviewStops == (stopper = "flagged") ~> (stopper = "joined")
=============================================================================
