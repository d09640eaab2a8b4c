----------------------------- MODULE WorkerLocks -----------------------------
(***************************************************************************)
(* Who waits for whom in a running worker.  Four threads meet at the link: *)
(* the capture thread (CaptureThread::run -> WorkerLink::sendMedia), a     *)
(* recorder stage (store's handle_frame, which publishes events on the bus *)
(* while it holds its own mutex, and the bus bridge of zm-core calls       *)
(* WorkerLink::publishEventJson), the link's poll loop (which dispatches   *)
(* commands with the link's mutex held) and main (which stops them all).   *)
(*                                                                         *)
(* Two locks matter: WorkerLink::mutex_ ("link") and StoreState::mtx       *)
(* ("mtx").  EventBus::mutex_ and StoreState::assign_mtx are leaves, held  *)
(* over a copy only, and belong to the step that takes them.  Accepted     *)
(* sockets are blocking (no O_NONBLOCK, MSG_DONTWAIT or SO_SNDTIMEO        *)
(* anywhere in core/), so a write waits, with the link's mutex held, until *)
(* the consumer has room for it.                                           *)
(***************************************************************************)
EXTENDS Naturals

CONSTANTS Consumers,    \* connected consumers
          Stalling,     \* those that may stop reading, for ever
          SockCap,      \* messages a socket buffers
          Commands,     \* kinds of request: "status", "assign", "assign_by_name"
          MaxFrames,    \* bound: frames captured
          MaxRecords,   \* bound: events the recorder publishes
          MaxRequests   \* bound: commands sent

ASSUME WorkerLocksAssumption ==
    /\ Stalling \subseteq Consumers /\ SockCap \in Nat \ {0}
    /\ Commands \subseteq {"status", "assign", "assign_by_name"}

Threads == {"capture", "recorder", "loop", "main"}
Free == "free"

VARIABLES link, mtx,    \* owner of each mutex, or Free
          pc,           \* where each thread is
          todo,         \* consumers the owner of link has still to write to
          sock,         \* messages in each consumer's socket
          request,      \* the command the loop is to read, or "none"
          frames, records, requests,   \* bounded counters
          shutdown,     \* g_shutdown
          capturing,    \* CaptureThread::running_
          staging,      \* the recorder stage's StageRunner::running_
          linkRunning   \* WorkerLink::running_

bounds == <<frames, records, requests>>
flags == <<shutdown, capturing, staging, linkRunning>>
vars == <<link, mtx, pc, todo, sock, request, bounds, flags>>

Init == /\ link = Free /\ mtx = Free
        /\ pc = [t \in Threads |-> IF t = "main" THEN "run"
                                   ELSE IF t = "loop" THEN "top" ELSE "idle"]
        /\ todo = {}
        /\ sock = [c \in Consumers |-> 0]
        /\ request = "none"
        /\ frames = 0 /\ records = 0 /\ requests = 0
        /\ shutdown = FALSE
        /\ capturing = TRUE /\ staging = TRUE /\ linkRunning = TRUE

Goto(t, from, to) == pc[t] = from /\ pc' = [pc EXCEPT ![t] = to]

(* Mutation: the mutex is not waited for. *)
LockLinkUnchecked(t, targets) == link' = t /\ todo' = targets

(* Take the link's mutex to write one message to every consumer in targets. *)
LockLink(t, targets) == link = Free /\ link' = t /\ todo' = targets

(* writev or write of a message to one consumer, blocking while its socket is full. *)
Write(t, c) == /\ pc[t] = "write" /\ c \in todo /\ sock[c] < SockCap
               /\ sock' = [sock EXCEPT ![c] = @ + 1]
               /\ todo' = todo \ {c}
               /\ UNCHANGED <<link, mtx, pc, request, bounds, flags>>

(* All written: the mutex is released and the call returns to the thread's next step. *)
Written(t, next) == /\ Goto(t, "write", next) /\ todo = {}
                    /\ link' = Free
                    /\ UNCHANGED <<mtx, todo, sock, request, bounds, flags>>

-----------------------------------------------------------------------------
(* Capture thread *)

Capture == /\ Goto("capture", "idle", "sendMedia")
           /\ capturing /\ frames < MaxFrames
           /\ frames' = frames + 1
           /\ UNCHANGED <<link, mtx, todo, sock, request, records, requests, flags>>

SendMedia == /\ Goto("capture", "sendMedia", "write")
             /\ LockLink("capture", Consumers)
             /\ UNCHANGED <<mtx, sock, request, bounds, flags>>

CaptureWritten == Written("capture", "idle")

CaptureExit == /\ Goto("capture", "idle", "exited") /\ ~capturing
               /\ UNCHANGED <<link, mtx, todo, sock, request, bounds, flags>>

-----------------------------------------------------------------------------
(* Recorder stage: handle_frame opens, rotates or closes a clip under mtx, and       *)
(* announces it from there.                                                          *)

Record == /\ Goto("recorder", "idle", "publish")
          /\ staging /\ records < MaxRecords /\ mtx = Free
          /\ mtx' = "recorder" /\ records' = records + 1
          /\ UNCHANGED <<link, todo, sock, request, frames, requests, flags>>

(* publish_evt -> EventBus::publish -> bridge -> publishEventJson. *)
Publish == /\ Goto("recorder", "publish", "write")
           /\ LockLink("recorder", Consumers)
           /\ UNCHANGED <<mtx, sock, request, bounds, flags>>

Recorded == /\ Goto("recorder", "write", "idle") /\ todo = {}
            /\ link' = Free /\ mtx' = Free
            /\ UNCHANGED <<todo, sock, request, bounds, flags>>

RecorderExit == /\ Goto("recorder", "idle", "exited") /\ ~staging
                /\ UNCHANGED <<link, mtx, todo, sock, request, bounds, flags>>

-----------------------------------------------------------------------------
(* The link's loop *)

LoopTop == /\ pc["loop"] = "top"
           /\ pc' = [pc EXCEPT !["loop"] = IF linkRunning THEN "poll" ELSE "exited"]
           /\ UNCHANGED <<link, mtx, todo, sock, request, bounds, flags>>

(* poll() returned; with mutex_ taken, a consumer's command is read if there is one. *)
Serve == /\ pc["loop"] = "poll" /\ link = Free
         /\ pc' = [pc EXCEPT !["loop"] = IF request = "none" THEN "write" ELSE "dispatch"]
         /\ link' = "loop" /\ todo' = {}
         /\ UNCHANGED <<mtx, sock, request, bounds, flags>>

(* Mutation: event_cb takes the recorder's mutex. *)
EventCbTakesMtx == mtx = Free

(* store's event_cb on an assignment takes the leaf lock assign_mtx, never mtx. *)
EventCbCanRun == TRUE

(* onClientReadable's Command case: the handler runs under mutex_, then the Response  *)
(* is written.  "assign" is republished on the bus and reaches the recorder.  Under    *)
(* its other spelling, {"name": "assign_recording"}, the bridge sees no "cmd" in it    *)
(* and calls publishEventJson, which locks mutex_ again: a std::mutex is not           *)
(* recursive, so the loop waits for itself, and "relock" has no next step.             *)
Dispatch == /\ pc["loop"] = "dispatch"
            /\ request = "assign" => EventCbCanRun
            /\ IF request = "assign_by_name"
                 THEN /\ pc' = [pc EXCEPT !["loop"] = "relock"]
                      /\ UNCHANGED <<todo, request>>
                 ELSE /\ pc' = [pc EXCEPT !["loop"] = "write"]
                      /\ \E c \in Consumers : todo' = {c}
                      /\ request' = "none"
            /\ UNCHANGED <<link, mtx, sock, bounds, flags>>

LoopWritten == Written("loop", "top")

-----------------------------------------------------------------------------
(* main: stopAll joins the capture thread and the stages and stops the plugins, then *)
(* the link is stopped.                                                              *)

Shutdown == /\ pc["main"] = "run" /\ ~shutdown
            /\ shutdown' = TRUE
            /\ UNCHANGED <<link, mtx, pc, todo, sock, request, bounds, capturing,
                           staging, linkRunning>>

StopCapture == /\ Goto("main", "run", "joinCapture") /\ shutdown
               /\ capturing' = FALSE
               /\ UNCHANGED <<link, mtx, todo, sock, request, bounds, shutdown, staging,
                              linkRunning>>

StopStage == /\ Goto("main", "joinCapture", "joinStage") /\ pc["capture"] = "exited"
             /\ staging' = FALSE
             /\ UNCHANGED <<link, mtx, todo, sock, request, bounds, shutdown, capturing,
                            linkRunning>>

(* store's handle_stop closes an open clip under mtx, which publishes EventClip. *)
StopStore == /\ Goto("main", "joinStage", "publish") /\ pc["recorder"] = "exited"
             /\ mtx = Free /\ mtx' = "main"
             /\ UNCHANGED <<link, todo, sock, request, bounds, flags>>

PublishClip == /\ Goto("main", "publish", "write") /\ LockLink("main", Consumers)
               /\ UNCHANGED <<mtx, sock, request, bounds, flags>>

(* WorkerLink::stop: running_ is cleared, ... *)
StopLink == /\ Goto("main", "write", "bye") /\ mtx = "main" /\ todo = {}
            /\ link' = Free /\ mtx' = Free
            /\ linkRunning' = FALSE
            /\ UNCHANGED <<todo, sock, request, bounds, shutdown, capturing, staging>>

(* ... Bye is written to every consumer under mutex_, ... *)
WriteBye == /\ Goto("main", "bye", "write") /\ LockLink("main", Consumers)
            /\ UNCHANGED <<mtx, sock, request, bounds, flags>>

ByeWritten == /\ Goto("main", "write", "joinLoop") /\ mtx # "main" /\ todo = {}
              /\ link' = Free
              /\ UNCHANGED <<mtx, todo, sock, request, bounds, flags>>

(* ... and the loop is joined. *)
JoinLoop == /\ Goto("main", "joinLoop", "done") /\ pc["loop"] = "exited"
            /\ UNCHANGED <<link, mtx, todo, sock, request, bounds, flags>>

-----------------------------------------------------------------------------
(* Consumers (external) *)

Read(c) == /\ sock[c] > 0
           /\ sock' = [sock EXCEPT ![c] = @ - 1]
           /\ UNCHANGED <<link, mtx, pc, todo, request, bounds, flags>>

Ask == /\ request = "none" /\ requests < MaxRequests
       /\ request' \in Commands /\ requests' = requests + 1
       /\ UNCHANGED <<link, mtx, pc, todo, sock, frames, records, flags>>

Writing == \E t \in Threads, c \in Consumers : Write(t, c)

Next == \/ Writing
        \/ Capture \/ SendMedia \/ CaptureWritten \/ CaptureExit
        \/ Record \/ Publish \/ Recorded \/ RecorderExit
        \/ LoopTop \/ Serve \/ Dispatch \/ LoopWritten
        \/ Shutdown \/ StopCapture \/ StopStage \/ StopStore \/ PublishClip \/ StopLink
        \/ WriteBye \/ ByeWritten \/ JoinLoop
        \/ Ask \/ \E c \in Consumers : Read(c)

Spec == Init /\ [][Next]_vars

(* Threads run.  A mutex that is free again and again is eventually got by a thread   *)
(* that waits for it: the loop sleeps in poll() between two uses of it.  A consumer   *)
(* that does not stall reads what it is sent.                                         *)
Fairness ==
    /\ \A t \in Threads, c \in Consumers : WF_vars(Write(t, c))
    /\ WF_vars(CaptureWritten) /\ WF_vars(CaptureExit)
    /\ WF_vars(Recorded) /\ WF_vars(RecorderExit)
    /\ WF_vars(LoopTop) /\ WF_vars(Dispatch)
    /\ WF_vars(LoopWritten)
    /\ WF_vars(StopCapture) /\ WF_vars(StopStage) /\ WF_vars(StopLink)
    /\ WF_vars(ByeWritten) /\ WF_vars(JoinLoop)
    /\ SF_vars(SendMedia) /\ SF_vars(Publish) /\ SF_vars(Serve)
    /\ SF_vars(StopStore) /\ SF_vars(PublishClip) /\ SF_vars(WriteBye)
    /\ \A c \in Consumers \ Stalling : WF_vars(Read(c))

FairSpec == Spec /\ Fairness

-----------------------------------------------------------------------------
(* A thread that owns a mutex is where it may own it, and nobody else writes: one     *)
(* write at a time reaches the sockets (WorkerLink.cpp:178, 293, 542, 577, 618).      *)
TypeOK ==
    /\ link \in Threads \cup {Free} /\ mtx \in {"recorder", "main", Free}
    /\ todo \subseteq Consumers /\ sock \in [Consumers -> 0..SockCap]
    /\ request \in Commands \cup {"none"}
    /\ \A t \in Threads : pc[t] \in {"write", "dispatch", "relock"} => link = t

(* "Queue one access unit to every subscribed consumer ... Never blocks"              *)
(* (WorkerLink.hpp:95-96): the capture thread always gets out of sendMedia.           *)
SendMediaReturns == (pc["capture"] \in {"sendMedia", "write"}) ~> (pc["capture"] = "idle")

(* A shutdown runs to its end: no cycle of stage, link and joins holds it up          *)
(* (zm-core.cpp:163-170, PluginManager.cpp:169-187).                                  *)
ShutdownCompletes == shutdown ~> (pc["main"] = "done")

(* A command the link has begun to handle is answered, both spellings of it: "Accept  *)
(* either {"cmd":...} ... or {"name":...,"args":...}" (WorkerLink.cpp:401-403).       *)
CommandsAnswered == (pc["loop"] = "dispatch") ~> (pc["loop"] = "top")

(* While the consumers read, no wait of any thread is for ever, whatever the order in  *)
(* which capture, recorder, link and main take the mutexes and the sockets.            *)
NobodyWaitsForEver == SendMediaReturns /\ ShutdownCompletes /\ CommandsAnswered
=============================================================================
