-------------------------- MODULE InferenceEngine --------------------------
(***************************************************************************)
(* The inference engine that detect_onnx instances may share: one session   *)
(* per model, one thread that gathers the pictures of several callers into  *)
(* a batch, runs it and gives each caller its row.  A caller is a stage's   *)
(* thread and waits for its answer.  A picture is its caller and its number,*)
(* prepared for the caller's input size.                                    *)
(***************************************************************************)
EXTENDS Naturals, Sequences, FiniteSets, SequencesExt

CONSTANTS Callers, Pictures,   \* pictures of each caller
          Nets,                \* input sizes a caller may be configured with
          MaxBatch             \* maxBatch_

VARIABLES nets,      \* the callers' input sizes
          engine,    \* loop: [at, net, batch, done]; net is 0 until the engine is made
          requests,  \* q_
          caller,    \* each caller: [at, picture, answer]
          device     \* d_batch_: the rows of the batch, each a picture and its size
engineVars == <<nets, engine, requests, caller, device>>

None == [of |-> 0, picture |-> 0, net |-> 0]

Init == /\ nets \in [Callers -> Nets]
        /\ engine = [at |-> "waiting", net |-> 0, batch |-> << >>, done |-> 0]
        /\ requests = << >> /\ device = << >>
        /\ caller = [c \in Callers |-> [at |-> "idle", picture |-> 0, answer |-> None]]

-----------------------------------------------------------------------------
Row(c) == [of |-> c, picture |-> caller[c].picture, net |-> nets[c]]

(* get, with the first caller's size, and infer: the caller's picture is queued. *)
Infer(c) ==
    /\ caller[c].at = "idle" /\ caller[c].picture < Pictures
    /\ engine' = [engine EXCEPT !.net = IF @ = 0 THEN nets[c] ELSE @]
    /\ caller' = [caller EXCEPT ![c] = [at |-> "waiting", picture |-> @.picture + 1,
                                        answer |-> None]]
    /\ requests' = Append(requests, c)
    /\ UNCHANGED <<nets, device>>

Full == Len(requests) >= MaxBatch
Take == IF Full THEN MaxBatch ELSE Len(requests)

(* Mutation: the engine waits for a batch that is full. *)
WaitsForAll == Full
MayGo == TRUE     \* the time a batch is given to fill is over

(* loop: woken by a request, it takes a batch when that is full or its time is over. *)
TakeBatch == /\ engine.at = "waiting" /\ requests # << >>
             /\ MayGo
             /\ engine' = [engine EXCEPT !.at = "copying", !.done = 0,
                                        !.batch = SubSeq(requests, 1, Take)]
             /\ requests' = SubSeq(requests, Take + 1, Len(requests))
             /\ UNCHANGED <<nets, caller, device>>

(* Mutation: rows of an earlier batch are not written over. *)
RowsAdded == device \o [i \in DOMAIN engine.batch |-> Row(engine.batch[i])]
Rows == [i \in DOMAIN engine.batch |-> Row(engine.batch[i])]

CopyRows == /\ engine.at = "copying" /\ device' = Rows
            /\ engine' = [engine EXCEPT !.at = "answering"]
            /\ UNCHANGED <<nets, requests, caller>>

(* After the run: the callers of the batch get their rows, one after the other. *)
Answer ==
    LET i == engine.done + 1
    IN /\ engine.at = "answering"
       /\ IF engine.done = Len(engine.batch)
          THEN engine' = [engine EXCEPT !.at = "waiting"] /\ UNCHANGED caller
          ELSE /\ caller' = [caller EXCEPT ![engine.batch[i]].at = "idle",
                                           ![engine.batch[i]].answer = device[i]]
               /\ engine' = [engine EXCEPT !.done = i]
       /\ UNCHANGED <<nets, requests, device>>

Loop == TakeBatch \/ CopyRows \/ Answer
Next == Loop \/ \E c \in Callers : Infer(c)
Spec == Init /\ [][Next]_engineVars /\ WF_engineVars(Loop)

-----------------------------------------------------------------------------
(* A caller that is answered has the boxes of its own picture, however the callers'   *)
(* pictures were put together.                                                        *)
Answered(c) == caller[c].at = "idle" /\ caller[c].picture > 0
OwnAnswer == \A c \in Callers : Answered(c) => caller[c].answer = Row(c)

(* "Returns the decoded boxes for that tensor" (detect_engine.hpp:36): the engine read *)
(* the picture with the size it was prepared for.  Not so: there is one engine for a   *)
(* model, of its first caller's size.                                                  *)
RightSize == \A c \in Callers : Answered(c) => caller[c].answer.net = engine.net

(* Every call of infer returns, however few cameras share the engine. *)
InferReturns == \A c \in Callers : (caller[c].at = "waiting") ~> (caller[c].at = "idle")
=============================================================================
