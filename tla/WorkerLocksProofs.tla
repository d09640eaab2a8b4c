-------------------------- MODULE WorkerLocksProofs --------------------------
(***************************************************************************)
(* The threads of a worker never wait for each other in a circle, and a    *)
(* shutdown leaves no thread and no lock behind, for any number of         *)
(* consumers, whether they read or not, and any size of their sockets.     *)
(*                                                                         *)
(* Why it is inductive: a mutex is owned at certain places of the program  *)
(* and at no others (Owned), which needs to be known of both mutexes at    *)
(* once, since the recorder publishes with both; and main is past a join   *)
(* only when the joined thread is gone (Joined), so handle_stop takes      *)
(* StoreState::mtx from nobody.  Nowhere is StoreState::mtx waited for     *)
(* with the link's mutex held.                                             *)
(***************************************************************************)
EXTENDS WorkerLocks, TLAPS

(* Where each thread can be, and where it owns the link's mutex. *)
Places == {"idle", "sendMedia", "publish", "write", "exited", "top", "poll", "dispatch", "relock",
           "run", "joinCapture", "joinStage", "bye", "joinLoop", "done"}
AtLink == {"write", "dispatch", "relock"}

Located == /\ pc \in [Threads -> Places]
           /\ pc["capture"] \in {"idle", "sendMedia", "write", "exited"}
           /\ pc["recorder"] \in {"idle", "publish", "write", "exited"}
           /\ pc["loop"] \in {"top", "poll", "dispatch", "write", "relock", "exited"}
           /\ pc["main"] \in {"run", "joinCapture", "joinStage", "publish", "write", "bye",
                              "joinLoop", "done"}

Valued == /\ linkRunning \in BOOLEAN /\ todo \subseteq Consumers
          /\ sock \in [Consumers -> 0..SockCap]
          /\ request \in Commands \cup {"none"}
          /\ link \in Threads \cup {Free} /\ mtx \in {"recorder", "main", Free}

Owned == /\ link = "capture" <=> pc["capture"] \in AtLink
         /\ link = "recorder" <=> pc["recorder"] \in AtLink
         /\ link = "loop" <=> pc["loop"] \in AtLink
         /\ link = "main" <=> pc["main"] \in AtLink
         /\ mtx = "recorder" <=> pc["recorder"] \in {"publish", "write"}
         /\ mtx = "main" <=> (pc["main"] = "publish" \/ (pc["main"] = "write" /\ linkRunning))

(* main is past a join only when the thread is gone. *)
Joined == /\ pc["main"] \notin {"run", "joinCapture"} => pc["capture"] = "exited"
          /\ pc["main"] \notin {"run", "joinCapture", "joinStage"} => pc["recorder"] = "exited"
          /\ pc["main"] = "done" => pc["loop"] = "exited"
          /\ pc["main"] \in {"run", "joinCapture", "joinStage", "publish"} => linkRunning
          /\ pc["main"] \in {"bye", "joinLoop", "done"} => ~linkRunning

(* The loop relocks its own mutex only for the command that is spelt with a name. *)
Relocks == pc["loop"] = "relock" => request = "assign_by_name"

Inv == Located /\ Valued /\ Owned /\ Joined /\ Relocks

(* Thread t cannot go on before thread u has: it waits for a mutex that u owns, or to   *)
(* join u.                                                                              *)
NeedsLink(t) == \/ t = "capture" /\ pc[t] = "sendMedia"
                \/ t = "recorder" /\ pc[t] = "publish"
                \/ t = "loop" /\ pc[t] \in {"poll", "relock"}
                \/ t = "main" /\ pc[t] \in {"publish", "bye"}
NeedsMtx(t) == \/ t = "recorder" /\ pc[t] = "idle"
               \/ t = "main" /\ pc[t] = "joinStage"
Joining(t) == t = "main" /\ pc[t] \in {"joinCapture", "joinStage", "joinLoop"}
Waits(t, u) == \/ NeedsLink(t) /\ link = u
               \/ NeedsMtx(t) /\ mtx = u
               \/ /\ Joining(t) /\ pc[u] # "exited"
                  /\ u = CASE pc[t] = "joinCapture" -> "capture"
                           [] pc[t] = "joinStage" -> "recorder"
                           [] pc[t] = "joinLoop" -> "loop"

(* No circle: the threads can be ranked so that each waits for lower ones only. *)
NoCircularWait ==
    \E rank \in [Threads -> 0..3] : \A t, u \in Threads : Waits(t, u) => rank[u] < rank[t]

(* When main is done, every thread is gone and every lock is free. *)
StoppedClean == pc["main"] = "done" =>
    /\ \A t \in Threads \ {"main"} : pc[t] = "exited"
    /\ link = Free /\ mtx = Free

-----------------------------------------------------------------------------
(* The threads start apart, with both mutexes free. *)
LEMMA InitInv == Init => Inv
  BY WorkerLocksAssumption
  DEF Init, Inv, Located, Valued, Owned, Joined, Relocks, Places, AtLink, Threads, Free

(* One thread goes on and the others stay where they are. *)
Moves(t, to) == /\ pc' \in [Threads -> Places] /\ pc'[t] = to
                /\ \A u \in Threads \ {t} : pc'[u] = pc[u]

(* What a thread's going on does to pc. *)
LEMMA Moving ==
  ASSUME Located, NEW t \in Threads, NEW to \in Places, pc' = [pc EXCEPT ![t] = to]
  PROVE  Moves(t, to)
  BY DEF Located, Moves

(* Every step keeps the invariant. *)
LEMMA StepInv == Inv /\ [Next]_vars => Inv'
  <1> SUFFICES ASSUME Inv, [Next]_vars PROVE Inv'
    OBVIOUS
  <1> USE DEF Inv, Valued, Owned, Joined, Relocks, Threads, Free, Goto, bounds, flags
  <1>1. ASSUME NEW t \in Threads, NEW c \in Consumers, Write(t, c) PROVE Inv'
    BY <1>1, WorkerLocksAssumption DEF Write, Located
  <1>2. CASE Shutdown
    BY <1>2 DEF Shutdown, Located
  <1>3. CASE Ask
    BY <1>3 DEF Ask, Located
  <1>4. ASSUME NEW c \in Consumers, Read(c) PROVE Inv'
    BY <1>4, WorkerLocksAssumption DEF Read, Located
  <1>5. CASE UNCHANGED vars
    BY <1>5 DEF vars, Located
  <1>6. CASE Capture
    <2>1. Moves("capture", "sendMedia")
      BY <1>6, Moving DEF Capture, Places
    <2> QED BY <1>6, <2>1 DEF Capture, Moves, Located, AtLink
  <1>7. CASE SendMedia
    <2>1. Moves("capture", "write")
      BY <1>7, Moving DEF SendMedia, LockLink, Places
    <2> QED BY <1>7, <2>1 DEF SendMedia, LockLink, Moves, Located, AtLink
  <1>8. CASE CaptureWritten
    <2>1. Moves("capture", "idle")
      BY <1>8, Moving DEF CaptureWritten, Written, Places
    <2> QED BY <1>8, <2>1 DEF CaptureWritten, Written, Moves, Located, AtLink
  <1>9. CASE CaptureExit
    <2>1. Moves("capture", "exited")
      BY <1>9, Moving DEF CaptureExit, Places
    <2> QED BY <1>9, <2>1 DEF CaptureExit, Moves, Located, AtLink
  <1>10. CASE Record
    <2>1. Moves("recorder", "publish")
      BY <1>10, Moving DEF Record, Places
    <2> QED BY <1>10, <2>1 DEF Record, Moves, Located, AtLink
  <1>11. CASE Publish
    <2>1. Moves("recorder", "write")
      BY <1>11, Moving DEF Publish, LockLink, Places
    <2> QED BY <1>11, <2>1 DEF Publish, LockLink, Moves, Located, AtLink
  <1>12. CASE Recorded
    <2>1. Moves("recorder", "idle")
      BY <1>12, Moving DEF Recorded, Places
    <2> QED BY <1>12, <2>1 DEF Recorded, Moves, Located, AtLink
  <1>13. CASE RecorderExit
    <2>1. Moves("recorder", "exited")
      BY <1>13, Moving DEF RecorderExit, Places
    <2> QED BY <1>13, <2>1 DEF RecorderExit, Moves, Located, AtLink
  <1>14. CASE LoopTop
    <2>1. Moves("loop", "poll") \/ Moves("loop", "exited")
      BY <1>14, Moving DEF LoopTop, Places
    <2> QED BY <1>14, <2>1 DEF LoopTop, Moves, Located, AtLink
  <1>15. CASE Serve
    <2>1. Moves("loop", "write") \/ Moves("loop", "dispatch")
      BY <1>15, Moving DEF Serve, Places
    <2> QED BY <1>15, <2>1 DEF Serve, Moves, Located, AtLink
  <1>16. CASE Dispatch
    <2>1. Moves("loop", "relock") \/ Moves("loop", "write")
      BY <1>16, Moving DEF Dispatch, Places
    <2> QED BY <1>16, <2>1 DEF Dispatch, Moves, Located, AtLink
  <1>17. CASE LoopWritten
    <2>1. Moves("loop", "top")
      BY <1>17, Moving DEF LoopWritten, Written, Places
    <2> QED BY <1>17, <2>1 DEF LoopWritten, Written, Moves, Located, AtLink
  <1>18. CASE StopCapture
    <2>1. Moves("main", "joinCapture")
      BY <1>18, Moving DEF StopCapture, Places
    <2> QED BY <1>18, <2>1 DEF StopCapture, Moves, Located, AtLink
  <1>19. CASE StopStage
    <2>1. Moves("main", "joinStage")
      BY <1>19, Moving DEF StopStage, Places
    <2> QED BY <1>19, <2>1 DEF StopStage, Moves, Located, AtLink
  <1>20. CASE StopStore
    <2>1. Moves("main", "publish")
      BY <1>20, Moving DEF StopStore, Places
    <2> QED BY <1>20, <2>1 DEF StopStore, Moves, Located, AtLink
  <1>21. CASE PublishClip
    <2>1. Moves("main", "write")
      BY <1>21, Moving DEF PublishClip, LockLink, Places
    <2> QED BY <1>21, <2>1 DEF PublishClip, LockLink, Moves, Located, AtLink
  <1>22. CASE StopLink
    <2>1. Moves("main", "bye")
      BY <1>22, Moving DEF StopLink, Places
    <2> QED BY <1>22, <2>1 DEF StopLink, Moves, Located, AtLink
  <1>23. CASE WriteBye
    <2>1. Moves("main", "write")
      BY <1>23, Moving DEF WriteBye, LockLink, Places
    <2> QED BY <1>23, <2>1 DEF WriteBye, LockLink, Moves, Located, AtLink
  <1>24. CASE ByeWritten
    <2>1. Moves("main", "joinLoop")
      BY <1>24, Moving DEF ByeWritten, Places
    <2> QED BY <1>24, <2>1 DEF ByeWritten, Moves, Located, AtLink
  <1>25. CASE JoinLoop
    <2>1. Moves("main", "done")
      BY <1>25, Moving DEF JoinLoop, Places
    <2> QED BY <1>25, <2>1 DEF JoinLoop, Moves, Located, AtLink
  <1> QED BY <1>1, <1>2, <1>3, <1>4, <1>5, <1>6, <1>7, <1>8, <1>9, <1>10, <1>11, <1>12, <1>13,
             <1>14, <1>15, <1>16, <1>17, <1>18, <1>19, <1>20, <1>21, <1>22, <1>23, <1>24, <1>25
          DEF Next, Writing

(* The invariant holds in every reachable state. *)
LEMMA InvAlways == Spec => []Inv
  BY InitInv, StepInv, PTL DEF Spec
-----------------------------------------------------------------------------
(* One thread at a time writes to the sockets, the owner of WorkerLink::mutex_           *)
(* (WorkerLink.cpp:178, 293, 542, 577, 618).                                             *)
THEOREM LocksOwned == Spec => []TypeOK
  <1>1. Inv => TypeOK
    BY DEF Inv, Located, Valued, Owned, AtLink, TypeOK, Threads
  <1> QED BY <1>1, InvAlways, PTL

(* stopAll and WorkerLink::stop leave nothing running (PluginManager.cpp:169-187,        *)
(* zm-core.cpp:163-170): each thread is joined, and no mutex is destroyed while owned.   *)
THEOREM ThreadsStopped == Spec => []StoppedClean
  <1>1. Inv => StoppedClean
    BY DEF Inv, Located, Valued, Owned, Joined, AtLink, Threads, Free, StoppedClean
  <1> QED BY <1>1, InvAlways, PTL

(* No circle of waits, at any moment: store publishes with its own mutex held, main joins *)
(* threads that publish, and a full socket may hold up the owner of the link's mutex for  *)
(* ever, but no thread waits for itself or for one that waits for it.  This needs that    *)
(* nobody sends a command spelt with a name, for which the loop locks its mutex again     *)
(* (WorkerLink.cpp:401-403 accepts that spelling): with it the circle is of one thread.   *)
THEOREM NoDeadlock ==
  ASSUME "assign_by_name" \notin Commands
  PROVE  Spec => []NoCircularWait
  <1>1. Inv => NoCircularWait
    <2> SUFFICES ASSUME Inv PROVE NoCircularWait
      OBVIOUS
    <2> DEFINE rank == [t \in Threads |-> IF NeedsLink(t) THEN 1
                                          ELSE IF Joining(t) THEN 3
                                          ELSE IF NeedsMtx(t) THEN 2 ELSE 0]
    <2>1. rank \in [Threads -> 0..3]
      OBVIOUS
    <2>2. ASSUME NEW t \in Threads, NEW u \in Threads, NeedsLink(t), link = u
          PROVE  rank[u] < rank[t]
      <3>1. pc[u] \in AtLink
        BY <2>2 DEF Inv, Owned, Threads
      <3>2. pc["loop"] # "relock"
        BY DEF Inv, Valued, Relocks
      <3>3. u # "loop" => pc[u] # "relock"
        BY DEF Inv, Located, Threads
      <3>4. ~NeedsLink(u) /\ ~Joining(u) /\ ~NeedsMtx(u)
        BY <3>1, <3>2, <3>3 DEF NeedsLink, Joining, NeedsMtx, AtLink
      <3> QED BY <2>2, <3>4
    <2>3. ASSUME NEW t \in Threads, NEW u \in Threads, NeedsMtx(t), mtx = u
          PROVE  rank[u] < rank[t]
      <3>1. pc[u] \in {"publish", "write"} /\ ~NeedsLink(t)
        BY <2>3 DEF Inv, Owned, NeedsMtx, NeedsLink, Threads, Valued, Free
      <3>2. ~Joining(u) /\ ~NeedsMtx(u)
        BY <3>1 DEF NeedsLink, Joining, NeedsMtx
      <3> QED BY <2>3, <3>1, <3>2
    <2>4. ASSUME NEW t \in Threads, NEW u \in Threads, Joining(t), u # "main"
          PROVE  rank[u] < rank[t]
      <3>1. ~NeedsLink(t) /\ ~Joining(u)
        BY <2>4 DEF Joining, NeedsLink
      <3> QED BY <2>4, <3>1
    <2>5. ASSUME NEW t \in Threads, NEW u \in Threads, Waits(t, u)
          PROVE  rank[u] < rank[t]
      <3> HIDE DEF rank
      <3> QED BY <2>2, <2>3, <2>4, <2>5 DEF Waits, Joining
    <2> HIDE DEF rank
    <2> QED BY <2>1, <2>5 DEF NoCircularWait
  <1> QED BY <1>1, InvAlways, PTL
=============================================================================
