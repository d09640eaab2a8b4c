--------------------------- MODULE SceneDescriber ---------------------------
(***************************************************************************)
(* describe_vlm in its triggered mode: an event of a detector arms the      *)
(* worker, which asks the model about the latest frame, at most once in a   *)
(* cooldown, and publishes the answer together with the event.  on_frame    *)
(* runs on the decoder's thread, the trigger on the publisher's, worker_loop*)
(* on its own and stop on the main thread.                                  *)
(***************************************************************************)
EXTENDS Naturals, Sequences

CONSTANTS Streams,    \* stream ids the plugin accepts
          Triggers    \* triggers of a run

VARIABLES latest,     \* latestStreamId, 0 when haveFrame is not set
          triggers,   \* triggers so far
          trigger,    \* TriggerState: [fired, last]: the stream of lastTrigger
          describer,  \* worker_loop: [at, cur, cool]: cool once the cooldown has passed
          described,  \* the last description event: [frame, trigger], 0 for none
          halting     \* stop: "no", "flagged", "notified", "joined"
describeVars == <<latest, triggers, trigger, describer, described, halting>>

Rest == /\ latest = 0 /\ triggers = 0 /\ trigger = [fired |-> FALSE, last |-> 0]
        /\ described = [frame |-> 0, trigger |-> 0]
Init == Rest /\ halting = "no" /\ describer = [at |-> "top", cur |-> 0, cool |-> TRUE]
Off == Rest /\ halting = "joined" /\ describer = [at |-> "exited", cur |-> 0, cool |-> TRUE]

On(pc) == describer.at = pc
Go(pc) == describer' = [describer EXCEPT !.at = pc]

-----------------------------------------------------------------------------
OnFrame(s) == /\ halting = "no" /\ latest' = s
              /\ UNCHANGED <<triggers, trigger, describer, described, halting>>

(* describe_trigger_cb for an event of stream s. *)
TriggerCb(s) ==
    /\ halting = "no" /\ triggers < Triggers /\ triggers' = triggers + 1
    /\ trigger' = [fired |-> TRUE, last |-> s]
    /\ UNCHANGED <<latest, describer, described, halting>>

(* The cooldown since the last description passes. *)
Cools == /\ ~describer.cool /\ describer' = [describer EXCEPT !.cool = TRUE]
         /\ UNCHANGED <<latest, triggers, trigger, described, halting>>

(* The wait, which ends with a trigger, with stop or with its time limit. *)
Waits == /\ On("top") /\ Go(IF halting = "no" THEN "woken" ELSE "exited")
         /\ UNCHANGED <<latest, triggers, trigger, described, halting>>

(* After it: nothing without a trigger, and a trigger in the cooldown is dropped. *)
Decides ==
    /\ On("woken")
    /\ IF halting # "no" THEN Go("exited") /\ UNCHANGED trigger
       ELSE /\ trigger' = [trigger EXCEPT !.fired = FALSE]
            /\ describer' = IF trigger.fired /\ describer.cool
                            THEN [at |-> "armed", cur |-> 0, cool |-> FALSE]
                            ELSE [describer EXCEPT !.at = "top"]
    /\ UNCHANGED <<latest, triggers, described, halting>>

(* Mutation: only the first description takes its event along. *)
KeepsTrigger == IF described.frame = 0 THEN trigger.last ELSE 0
CurTrigger == trigger.last

Snapshots == /\ On("armed") /\ describer' = [describer EXCEPT !.at = "asks", !.cur = CurTrigger]
             /\ UNCHANGED <<latest, triggers, trigger, described, halting>>

(* run_inference_cycle: no frame yet, no answer, or a description event. *)
Describes == /\ On("asks") /\ Go("top")
             /\ described' \in {described} \union
                    (IF latest = 0 THEN {} ELSE {[frame |-> latest, trigger |-> describer.cur]})
             /\ UNCHANGED <<latest, triggers, trigger, halting>>

Worker == Waits \/ Decides \/ Snapshots \/ Describes

(* stop: the flag, and the notification under the worker's lock. *)
StopFlags == /\ halting = "no" /\ halting' = "flagged"
             /\ UNCHANGED <<latest, triggers, trigger, describer, described>>
StopJoins == /\ halting = "flagged" /\ On("exited") /\ halting' = "joined"
             /\ UNCHANGED <<latest, triggers, trigger, describer, described>>

Next == \/ \E s \in Streams : OnFrame(s) \/ TriggerCb(s)
        \/ Cools \/ Worker \/ StopFlags \/ StopJoins

-----------------------------------------------------------------------------
(* A description is an answer to an event: it carries the one that triggered it, or a   *)
(* later one, and none is published without.                                            *)
TriggerEmbedded == described.frame # 0 => described.trigger # 0

(* "Embed the detection that triggered this describe, so the published event (and thus  *)
(* the MQTT payload) is a single rich alert: VLM text + what was detected"              *)
(* (describe_vlm.cpp:255): text and detection are of the same camera.  Not so when the  *)
(* plugin accepts several: the frame is the last of any of them.                        *)
OneScene == described.frame = described.trigger

DescriberStops == (halting = "flagged") ~> (halting = "joined")
=============================================================================
