------------------------------ MODULE Pipeline ------------------------------
(***************************************************************************)
(* The life of a pipeline (src/zm-core.cpp, PipelineLoader, PluginManager, *)
(* CaptureThread): main loads the tree of plugins, starts plugins, stage   *)
(* threads and the capture thread, waits for a stop, and takes everything  *)
(* down again, while the stages' threads call on_frame and forward frames. *)
(* A stage's queue is StageRunner's, of depth 1 here.                      *)
(***************************************************************************)
EXTENDS Naturals, Sequences

CONSTANT Pipelines    \* see pipe

VARIABLES pipe,      \* the JSON file, chosen once: a sequence of plugins in document
                     \* order, each [parent (0: none), type, loads, starts, flushes]:
                     \* loads: the library opens, starts: start() returns 0, flushes:
                     \* stop() forwards what is left (encode_ffmpeg)
          main,      \* main's pc: [at, next: index of its loop]
          instance,  \* of each plugin: "none", "started", "failed" or "stopped"
          runner,    \* of each stage: "none", "made", "running", "stopping" or "joined"
          stage,     \* of each stage: [queued, busy]
          capture,   \* the capture thread: "none", "running", "stopping" or "ended"
          shutdown   \* g_shutdown
pipeVars == <<pipe, main, instance, runner, stage, capture, shutdown>>

Plugins == DOMAIN pipe
Inputs == {i \in Plugins : pipe[i].type = "input"}
IsInput(i) == i \in Inputs /\ \A j \in Inputs : i <= j    \* inputIdx

(* load: each node's children; if none has any, the plugins are a chain. *)
Children(i) == LET flat == \A j \in Plugins : pipe[j].parent = 0
               IN {j \in Plugins : IF flat THEN j = i + 1 ELSE pipe[j].parent = i}

Init == /\ pipe \in Pipelines
        /\ main = [at |-> "load", next |-> 1]
        /\ instance = [i \in Plugins |-> "none"]
        /\ runner = [i \in Plugins |-> "none"]
        /\ stage = [i \in Plugins |-> [queued |-> FALSE, busy |-> FALSE]]
        /\ capture = "none" /\ shutdown = FALSE

Off == /\ pipe = << >> /\ main = [at |-> "off", next |-> 1] /\ instance = << >>
       /\ runner = << >> /\ stage = << >> /\ capture = "none" /\ shutdown = FALSE

-----------------------------------------------------------------------------
Goto(at) == main' = [at |-> at, next |-> 1]

(* The loop at `at' goes on with the next plugin, or ends. *)
Step(then) == main' = IF main.next < Len(pipe)
                      THEN [main EXCEPT !.next = @ + 1] ELSE [at |-> then, next |-> 1]

(* loadPipeline: main returns 4 if a library does not open. *)
Load == /\ main.at = "load"
        /\ IF \A i \in Plugins : pipe[i].loads THEN Goto("startAll") ELSE Goto("exit")
        /\ UNCHANGED <<pipe, instance, runner, stage, capture, shutdown>>

(* startAll: runners for all but the (first) input, none without an input. *)
MakeRunners == /\ main.at = "startAll"
               /\ IF Inputs = {} THEN Goto("wait") /\ UNCHANGED runner
                  ELSE /\ Goto("startPlugins")
                       /\ runner' = [i \in Plugins |-> IF IsInput(i) THEN "none" ELSE "made"]
               /\ UNCHANGED <<pipe, instance, stage, capture, shutdown>>

(* Start of a plugin; the result is ignored, here and by the capture thread. *)
Started(i) == [instance EXCEPT ![i] = IF pipe[i].starts THEN "started" ELSE "failed"]

StartPlugin == /\ main.at = "startPlugins" /\ Step("startRunners")
               /\ instance' = IF IsInput(main.next) THEN instance ELSE Started(main.next)
               /\ UNCHANGED <<pipe, runner, stage, capture, shutdown>>

StartRunner == /\ main.at = "startRunners" /\ Step("startCapture")
               /\ runner' = [runner EXCEPT ![main.next] = IF @ = "made" THEN "running" ELSE @]
               /\ UNCHANGED <<pipe, instance, stage, capture, shutdown>>

StartCapture == /\ main.at = "startCapture" /\ Goto("wait")
                /\ capture' = "running"
                /\ UNCHANGED <<pipe, instance, runner, stage, shutdown>>

(* A signal, or the stop command of the link. *)
Shutdown == /\ ~shutdown /\ shutdown' = TRUE
            /\ UNCHANGED <<pipe, main, instance, runner, stage, capture>>

-----------------------------------------------------------------------------
(* stopAll: the capture thread ... *)
StopCapture == \/ /\ main.at = "wait" /\ shutdown
                  /\ Goto("joinCapture")
                  /\ capture' = IF capture = "running" THEN "stopping" ELSE capture
                  /\ UNCHANGED <<pipe, instance, runner, stage, shutdown>>
               \/ /\ main.at = "joinCapture" /\ capture \in {"none", "ended"}
                  /\ Goto("stopRunners")
                  /\ UNCHANGED <<pipe, instance, runner, stage, capture, shutdown>>

(* ... each stage's thread, which is joined (without runners: at once) ... *)
StopRunner == \/ /\ main.at = "stopRunners" /\ runner[main.next] = "running"
                 /\ runner' = [runner EXCEPT ![main.next] = "stopping"]
                 /\ UNCHANGED <<pipe, main, instance, stage, capture, shutdown>>
              \/ /\ main.at = "stopRunners" /\ runner[main.next] \in {"none", "joined"}
                 /\ Step("stopPlugins")
                 /\ UNCHANGED <<pipe, instance, runner, stage, capture, shutdown>>

(* deliver: to each of these stages' queues. *)
Deliver(to) == stage' = [i \in Plugins |-> IF i \in to THEN [stage[i] EXCEPT !.queued = TRUE]
                                           ELSE stage[i]]

(* ... every plugin but the inputs, whether or not it was started ... *)
StopPlugin ==
    /\ main.at = "stopPlugins" /\ Step("clear")
    /\ IF pipe[main.next].type = "input" THEN UNCHANGED <<instance, stage>>
       ELSE /\ instance' = [instance EXCEPT ![main.next] = IF @ = "started" THEN "stopped"
                                                           ELSE @]
            /\ IF pipe[main.next].flushes /\ instance[main.next] = "started"
               THEN Deliver(Children(main.next)) ELSE UNCHANGED stage
    /\ UNCHANGED <<pipe, runner, capture, shutdown>>

(* ... and runners_.clear(); main stops the link and returns. *)
ClearRunners == /\ main.at = "clear" /\ Goto("exit")
                /\ runner' = [i \in Plugins |-> "none"]
                /\ stage' = [i \in Plugins |-> [queued |-> FALSE, busy |-> FALSE]]
                /\ UNCHANGED <<pipe, instance, capture, shutdown>>

-----------------------------------------------------------------------------
(* The capture thread: it starts the input plugin, delivers what it captures  *)
(* until it is stopped, and stops the plugin, started or not.                *)
CaptureLoop ==
    LET in == CHOOSE i \in Plugins : IsInput(i)
    IN \/ /\ capture \in {"running", "stopping"} /\ instance[in] = "none"
          /\ instance' = Started(in)
          /\ UNCHANGED <<pipe, main, runner, stage, capture, shutdown>>
       \/ /\ capture = "running" /\ instance[in] = "started"
          /\ Deliver(Children(in))
          /\ UNCHANGED <<pipe, main, instance, runner, capture, shutdown>>
       \/ /\ capture = "stopping" /\ instance[in] # "none"
          /\ instance' = [instance EXCEPT ![in] = IF @ = "started" THEN "stopped" ELSE @]
          /\ capture' = "ended"
          /\ UNCHANGED <<pipe, main, runner, stage, shutdown>>

(* A stage's thread takes its frame and calls on_frame ... *)
CallOnFrame(i) == /\ runner[i] = "running" /\ stage[i].queued /\ ~stage[i].busy
                  /\ stage' = [stage EXCEPT ![i] = [queued |-> FALSE, busy |-> TRUE]]
                  /\ UNCHANGED <<pipe, main, instance, runner, capture, shutdown>>

(* ... in which a plugin with an instance may forward it, before it returns. *)
Forward(i) == /\ stage[i].busy /\ instance[i] = "started"
              /\ Deliver(Children(i))
              /\ UNCHANGED <<pipe, main, instance, runner, capture, shutdown>>

Return(i) == /\ stage[i].busy
             /\ stage' = [stage EXCEPT ![i].busy = FALSE]
             /\ UNCHANGED <<pipe, main, instance, runner, capture, shutdown>>

(* Mutation: stop() does not wait for the call in progress. *)
EndAtOnce(i) == /\ runner[i] = "stopping"
                /\ runner' = [runner EXCEPT ![i] = "joined"]
                /\ UNCHANGED <<pipe, main, instance, stage, capture, shutdown>>

(* Mutation: it ends only with an empty queue. *)
EndDrained(i) == /\ runner[i] = "stopping" /\ ~stage[i].busy /\ ~stage[i].queued
                 /\ runner' = [runner EXCEPT ![i] = "joined"]
                 /\ UNCHANGED <<pipe, main, instance, stage, capture, shutdown>>

(* The thread ends between two frames, whatever is queued. *)
EndStage(i) == /\ runner[i] = "stopping" /\ ~stage[i].busy
               /\ runner' = [runner EXCEPT ![i] = "joined"]
               /\ UNCHANGED <<pipe, main, instance, stage, capture, shutdown>>

Main == \/ Load \/ MakeRunners \/ StartPlugin \/ StartRunner \/ StartCapture
        \/ StopCapture \/ StopRunner \/ StopPlugin \/ ClearRunners
Stage(i) == Return(i) \/ EndStage(i)

Next == \/ Main \/ Shutdown \/ CaptureLoop
        \/ \E i \in Plugins : CallOnFrame(i) \/ Forward(i) \/ Stage(i)

(* on_frame calls return, and no thread is starved. *)
Fairness == WF_pipeVars(Main) /\ WF_pipeVars(CaptureLoop /\ capture # capture')
            /\ WF_pipeVars(CaptureLoop /\ instance # instance')
            /\ \A i \in 1..4 : WF_pipeVars(i \in Plugins /\ Stage(i))

Spec == Init /\ [][Next]_pipeVars /\ Fairness

-----------------------------------------------------------------------------
(* A plugin's on_frame runs only between its start and its stop: "Stop the stage     *)
(* threads (join) so no plugin on_frame is in flight, then stop the plugins"         *)
(* (PluginManager.cpp:176), which free their instance in stop.                       *)
CallsWithinLife == \A i \in Plugins : stage[i].busy => instance[i] \in {"started", "failed"}

(* What was started is stopped when main returns: "The input plugin was already      *)
(* stopped by the capture thread" (PluginManager.cpp:177).                           *)
NothingLeftRunning == main.at = "exit" => \A i \in Plugins : instance[i] # "started"

(* A stop ends the worker, whatever the stages are doing.                            *)
ShutdownExits == shutdown ~> main.at \in {"exit", "off"}
=============================================================================
