------------------------- MODULE RequestServingProofs -------------------------
(***************************************************************************)
(* Proofs about RequestServing, for any finite set of requests, any limit, *)
(* body length and queue size.                                             *)
(***************************************************************************)
EXTENDS RequestServing, FiniteSetTheorems, TLAPS

\* What the limiter's counter rests on.
SlotInv == LimiterAccounting /\ LimitBound

-----------------------------------------------------------------------------
(* The limiter.                                                            *)

\* A set of requests has a natural number of elements: Requests is finite.
LEMMA HeldFinite ==
    /\ IsFiniteSet(Held) /\ Cardinality(Held) \in Nat
    /\ Cardinality(Held') \in Nat
<1>1. \A S \in SUBSET Requests : IsFiniteSet(S)
  BY FS_Subset, ServingAssumption
<1>2. Held \subseteq Requests /\ Held' \subseteq Requests
  BY DEF Held
<1> QED
  BY <1>1, <1>2, FS_CardinalityType

\* ActiveHandlersLimit(): a slot is taken and counted, or neither.
LEMMA LimiterKeepsCount ==
    ASSUME TypeOK, SlotInv, NEW r \in Requests, ~acquired[r], Limiter(r)
    PROVE  /\ count' = Cardinality(Held')
           /\ count' <= MaxActiveHandlers + 1
           /\ \A q \in Requests : q # r => acquired'[q] = acquired[q]
<1>1. CASE count > MaxActiveHandlers
  BY <1>1 DEF SlotInv, LimiterAccounting, LimitBound, Limiter, slotVars, Held
<1>2. CASE ~(count > MaxActiveHandlers)
  <2>1. count' = count + 1 /\ acquired' = [acquired EXCEPT ![r] = TRUE]
    BY <1>2 DEF Limiter
  <2>2. Held' = Held \cup {r} /\ r \notin Held
    BY <2>1 DEF Held, TypeOK, TypeTask
  <2>3. Cardinality(Held') = Cardinality(Held) + 1
    BY <2>2, HeldFinite, FS_AddElement
  <2> QED
    BY <1>2, <2>1, <2>3, ServingAssumption
    DEF SlotInv, LimiterAccounting, LimitBound, TypeOK, TypeTask
<1> QED
  BY <1>1, <1>2

\* request_limiter's finally: a slot is given back exactly if it was taken.
LEMMA ReleaseKeepsCount ==
    ASSUME TypeOK, SlotInv, NEW r \in Requests, Release(r)
    PROVE  /\ count' = Cardinality(Held')
           /\ count' <= MaxActiveHandlers + 1
           /\ ~acquired'[r]
           /\ \A q \in Requests : q # r => acquired'[q] = acquired[q]
<1>1. acquired' = [acquired EXCEPT ![r] = FALSE]
  BY DEF Release
<1>2. Held' = Held \ {r}
  BY <1>1 DEF Held, TypeOK, TypeTask
<1>3. CASE acquired[r]
  <2>1. r \in Held /\ count' = count - 1
    BY <1>3 DEF Held, Release
  <2>2. Cardinality(Held') = Cardinality(Held) - 1
    BY <1>2, <2>1, HeldFinite, FS_RemoveElement
  <2> QED
    BY <1>1, <2>1, <2>2, ServingAssumption
    DEF SlotInv, LimiterAccounting, LimitBound, TypeOK, TypeTask
<1>4. CASE ~acquired[r]
  <2>1. Held' = Held /\ count' = count
    BY <1>2, <1>4 DEF Held, Release
  <2> QED
    BY <1>1, <2>1 DEF SlotInv, LimiterAccounting, LimitBound, TypeOK, TypeTask
<1> QED
  BY <1>3, <1>4

\* Every step keeps the counter equal to the number of holders.
LEMMA SlotStep ==
    ASSUME TypeOK, SlotInv, NEW r \in Requests, RequestStep(r)
    PROVE  SlotInv'
<1> USE DEF SlotInv, LimiterAccounting, LimitBound
<1>1. CASE ServeStart(r)
  <2>1. ~acquired[r] /\ Limiter(r)
    BY <1>1 DEF ServeStart
  <2>2. serve' = [serve EXCEPT ![r] = "awaiting"]
    BY <1>1 DEF ServeStart
  <2> QED
    BY <2>1, <2>2, LimiterKeepsCount DEF TypeOK, TypeTask
<1>2. CASE Release(r) /\ \E s \in {"done"} : serve' = [serve EXCEPT ![r] = s]
  BY <1>2, ReleaseKeepsCount DEF TypeOK, TypeTask
<1>3. CASE /\ UNCHANGED slotVars
           /\ \/ UNCHANGED serve
              \/ serve[r] = "none" /\ serve' = [serve EXCEPT ![r] = "created"]
              \/ serve' = [serve EXCEPT ![r] = "writing"]
  <2>1. Held' = Held /\ count' = count /\ acquired' = acquired
    BY <1>3 DEF slotVars, Held
  <2> QED
    BY <1>3, <2>1 DEF TypeOK, TypeTask
<1>4. CASE Tornado(r)
  BY <1>3, <1>4
  DEF Tornado, HeadersReceived, DataReceived, Finish, AbortBody
<1>5. CASE ClientClose(r) \/ CloseNoticed(r)
  BY <1>3, <1>5 DEF ClientClose, CloseNoticed
<1>6. CASE Process(r)
  BY <1>3, <1>6
  DEF Process, ProcessRefuse, ProcessRaise, ProcessStart, Receive,
      ReceiveChunk, SendStart, SendBody, StartLineWritten, SendLast,
      SendChunk, ChunkWritten, AppReturn, CancelDelivered
<1>7. CASE ServeInterrupted(r) \/ ServeCanceled(r) \/ ServeStreamed(r)
           \/ ServeWritten(r)
  BY <1>2, <1>7
  DEF ServeInterrupted, ServeCanceled, ServeStreamed, ServeWritten, Conclude
<1>8. CASE ServeAnswer(r)
  BY <1>2, <1>3, <1>8 DEF ServeAnswer, Conclude
<1> QED
  BY <1>1, <1>4, <1>5, <1>6, <1>7, <1>8 DEF RequestStep, Serve

-----------------------------------------------------------------------------
(* Types.                                                                  *)

\* The status codes the code answers with.
LEMMA StatusCodes ==
    {OK, Unauthorized, ClientClosedRequest, ServerError, ServiceUnavailable}
    \subseteq Statuses
BY DEF Statuses

\* A step keeps the types of the tasks' states.
LEMMA TypeTaskStep ==
    ASSUME TypeTask, NEW r \in Requests, RequestStep(r)
    PROVE  TypeTask'
<1> USE DEF TypeTask, ServeStates, TaskStates, TaskDone, slotVars
<1>1. CASE Tornado(r) \/ ClientClose(r)
  BY <1>1 DEF Tornado, ClientClose, HeadersReceived, DataReceived, Finish,
              AbortBody
<1>2. CASE CloseNoticed(r)
  BY <1>2 DEF CloseNoticed, OnConnectionClose
<1>3. CASE Process(r)
  BY <1>3
  DEF Process, ProcessRefuse, ProcessRaise, ProcessStart, Receive,
      ReceiveChunk, SendStart, SendBody, StartLineWritten, SendLast,
      SendChunk, ChunkWritten, AppReturn, CancelDelivered
<1>4. CASE Serve(r)
  BY <1>4
  DEF Serve, ServeStart, ServeInterrupted, ServeCanceled, ServeAnswer,
      ServeStreamed, ServeWritten, Limiter, Conclude, Release
<1> QED
  BY <1>1, <1>2, <1>3, <1>4 DEF RequestStep

\* A step keeps the types of the response.
LEMMA TypeRespStep ==
    ASSUME TypeResp, NEW r \in Requests, RequestStep(r)
    PROVE  TypeResp'
<1> USE StatusCodes DEF TypeResp
<1>1. CASE UNCHANGED respVars
  BY <1>1 DEF respVars
<1>2. CASE ProcessRefuse(r) \/ ProcessStart(r)
  BY <1>2 DEF ProcessRefuse, ProcessStart
<1>3. CASE SendStart(r) \/ SendBody(r) \/ StartLineWritten(r) \/ SendLast(r)
           \/ AppReturn(r)
  <2>1. CASE SendStart(r)
    BY <2>1 DEF SendStart
  <2>2. CASE SendBody(r)
    BY <2>2 DEF SendBody, WriteStartLine
  <2>3. CASE StartLineWritten(r) \/ SendLast(r)
    BY <2>3 DEF StartLineWritten, SendLast
  <2>4. CASE AppReturn(r)
    BY <2>4 DEF AppReturn
  <2> QED
    BY <1>3, <2>1, <2>2, <2>3, <2>4
<1>4. CASE ServeAnswer(r)
  BY <1>4 DEF ServeAnswer, WriteStartLine
<1> QED
  BY <1>1, <1>2, <1>3, <1>4
  DEF RequestStep, Tornado, Process, Serve, HeadersReceived, DataReceived,
      Finish, AbortBody, ClientClose, CloseNoticed, ProcessRaise, Receive,
      ReceiveChunk, SendChunk, ChunkWritten, CancelDelivered, ServeStart,
      ServeInterrupted, ServeCanceled, ServeStreamed, ServeWritten

\* A step keeps the types of the body and its queue.
LEMMA TypeBodyStep ==
    ASSUME TypeBody, NEW r \in Requests, RequestStep(r)
    PROVE  TypeBody'
<1>a. EOF \in Nat
  BY DEF EOF
<1> USE <1>a DEF TypeBody
<1>1. CASE UNCHANGED bodyVars
  BY <1>1 DEF bodyVars
<1>2. CASE DataReceived(r)
  <2>1. arrived[r] + 1 \in Nat /\ arrived[r] + 1 <= NChunks[r]
    <3>1. arrived[r] \in Nat /\ NChunks[r] \in Nat /\ arrived[r] < NChunks[r]
      BY <1>2, ServingAssumption DEF DataReceived
    <3> QED
      BY <3>1
  <2> QED
    BY <1>2, <2>1 DEF DataReceived
<1>3. CASE Finish(r)
  <2>1. Append(queue[r], EOF) \in Seq(Nat)
    BY <1>a
  <2>2. queue' \in [Requests -> Seq(Nat)]
    BY <1>3, <2>1 DEF Finish
  <2>3. finished' \in [Requests -> BOOLEAN]
    BY <1>3 DEF Finish
  <2>4. phase' \in [Requests -> {"reading", "read", "aborted", "broken"}]
    BY <1>3 DEF Finish
  <2>5. UNCHANGED <<canceled, arrived, seen, bodyEnd>>
    BY <1>3 DEF Finish
  <2> QED
    BY <2>2, <2>3, <2>4, <2>5
<1>4. CASE AbortBody(r)
  BY <1>4 DEF AbortBody
<1>5. CASE CloseNoticed(r)
  BY <1>5 DEF CloseNoticed, OnConnectionClose
<1>6. CASE ReceiveChunk(r)
  <2>1. Head(queue[r]) \in Nat /\ Tail(queue[r]) \in Seq(Nat)
    BY <1>6 DEF ReceiveChunk
  <2>2. Message(r, Head(queue[r])) \in {"no", "complete", "disconnect"}
    BY DEF Message
  <2> QED
    BY <1>6, <2>1, <2>2 DEF ReceiveChunk
<1> QED
  BY <1>1, <1>2, <1>3, <1>4, <1>5, <1>6
  DEF RequestStep, Tornado, Process, Serve, HeadersReceived, ClientClose,
      ProcessRefuse, ProcessRaise, ProcessStart, Receive, SendStart, SendBody,
      StartLineWritten, SendLast, SendChunk, ChunkWritten, AppReturn,
      CancelDelivered, ServeStart, ServeInterrupted, ServeCanceled,
      ServeAnswer, ServeStreamed, ServeWritten

\* write_start_line writes at most one more header block.
LEMMA WireType ==
    ASSUME TypeObs, NEW r \in Requests, WriteStartLine(r)
    PROVE  wire' \in [Requests -> Nat]
BY DEF TypeObs, WriteStartLine

\* connection.finish() and the access-log record keep their types.
LEMMA ConcludeTypes ==
    ASSUME TypeConn, TypeObs, NEW r \in Requests, NEW code \in Statuses,
           Conclude(r, code)
    PROVE  /\ dto' \in [Requests -> {"none", "response", "closed"}]
           /\ logged' \in [Requests -> Seq(Statuses)]
           /\ open' \in [Requests -> BOOLEAN]
           /\ wired' \in [Requests -> BOOLEAN]
           /\ write_finished' \in [Requests -> BOOLEAN]
<1>1. Append(logged[r], code) \in Seq(Statuses)
  BY DEF TypeObs
<1>2. logged' \in [Requests -> Seq(Statuses)]
  BY <1>1 DEF TypeObs, Conclude
<1>3. dto' \in [Requests -> {"none", "response", "closed"}]
  BY DEF TypeObs, Conclude
<1>4. open' \in [Requests -> BOOLEAN]
  BY DEF TypeConn, Conclude
<1>5. wired' \in [Requests -> BOOLEAN]
  BY DEF TypeConn, Conclude
<1>6. write_finished' \in [Requests -> BOOLEAN]
  BY DEF TypeConn, Conclude
<1> QED
  BY <1>2, <1>3, <1>4, <1>5, <1>6

\* A step keeps the types of the connection and of what is observed.
LEMMA TypeConnObsStep ==
    ASSUME TypeConn, TypeObs, TypeResp, NEW r \in Requests, RequestStep(r)
    PROVE  TypeConn' /\ TypeObs'
<1> USE StatusCodes DEF TypeConn, TypeObs
<1>1. CASE UNCHANGED <<connVars, obsVars>>
  BY <1>1 DEF connVars, obsVars
<1>2. CASE Finish(r) \/ AbortBody(r) \/ ClientClose(r)
  BY <1>2 DEF Finish, AbortBody, ClientClose, obsVars
<1>3. CASE CloseNoticed(r)
  <2>1. TypeConn'
    BY <1>3 DEF CloseNoticed
  <2>2. CASE OnConnectionClose(r)
    <3>1. Append(logged[r], ClientClosedRequest) \in Seq(Statuses)
      OBVIOUS
    <3> QED
      BY <1>3, <2>1, <2>2, <3>1 DEF CloseNoticed, OnConnectionClose
  <2>3. CASE UNCHANGED <<logged, dto>>
    BY <1>3, <2>1, <2>3 DEF CloseNoticed
  <2> QED
    BY <1>3, <2>2, <2>3 DEF CloseNoticed
<1>4. CASE SendBody(r)
  <2>1. dto' \in [Requests -> {"none", "response", "closed"}]
    BY <1>4 DEF SendBody
  <2>2. wire' \in [Requests -> Nat]
    BY <1>4, WireType DEF SendBody
  <2>3. UNCHANGED <<connVars, logged>>
    BY <1>4 DEF SendBody
  <2> QED
    BY <2>1, <2>2, <2>3 DEF connVars
<1>5. CASE ServeStart(r) \/ ServeCanceled(r)
  BY <1>5 DEF ServeStart, ServeCanceled, obsVars
<1>6. CASE ServeAnswer(r)
  <2>1. closeCb' \in [Requests -> BOOLEAN]
    BY <1>6 DEF ServeAnswer
  <2>2. wire' \in [Requests -> Nat]
    BY <1>6, WireType DEF ServeAnswer
  <2>3. CASE Conclude(r, ClientClosedRequest)
    BY <2>1, <2>2, <2>3, ConcludeTypes
  <2>4. CASE UNCHANGED <<open, wired, write_finished, dto, logged>>
    BY <2>1, <2>2, <2>4
  <2> QED
    BY <1>6, <2>3, <2>4 DEF ServeAnswer
<1>7. CASE ServeStreamed(r) \/ ServeWritten(r)
  <2>1. Conclude(r, status[r]) /\ status[r] \in Statuses
    BY <1>7 DEF ServeStreamed, ServeWritten, TypeResp
  <2>2. closeCb' \in [Requests -> BOOLEAN] /\ wire' = wire
    BY <1>7 DEF ServeStreamed, ServeWritten
  <2> QED
    BY <2>1, <2>2, ConcludeTypes
<1> QED
  BY <1>1, <1>2, <1>3, <1>4, <1>5, <1>6, <1>7
  DEF RequestStep, Tornado, Process, Serve, HeadersReceived, DataReceived,
      ProcessRefuse, ProcessRaise, ProcessStart, Receive, ReceiveChunk,
      SendStart, StartLineWritten, SendLast, SendChunk, ChunkWritten,
      AppReturn, CancelDelivered, ServeInterrupted

\* Every step keeps the types; that count stays a natural number is known
\* from SlotStep.
LEMMA TypeStep ==
    ASSUME TypeOK, SlotInv, NEW r \in Requests, RequestStep(r)
    PROVE  TypeOK'
<1>1. count' \in Nat
  BY SlotStep, HeldFinite DEF SlotInv, LimiterAccounting
<1> QED
  BY <1>1, TypeTaskStep, TypeRespStep, TypeBodyStep, TypeConnObsStep
  DEF TypeOK

\* The initial state.
LEMMA InitOK == Init => TypeOK /\ SlotInv
<1> SUFFICES ASSUME Init PROVE TypeOK /\ SlotInv
  OBVIOUS
<1>1. TypeOK
  BY ServingAssumption
  DEF Init, TypeOK, TypeTask, TypeResp, TypeBody, TypeConn, TypeObs, ServeStates, TaskStates, TaskDone, Statuses, NoStatus
<1>2. Held = {}
  BY DEF Init, Held
<1>3. SlotInv
  BY <1>2, FS_EmptySet, ServingAssumption
  DEF Init, SlotInv, LimiterAccounting, LimitBound
<1> QED
  BY <1>1, <1>3

LEMMA StutterOK ==
    ASSUME UNCHANGED vars PROVE /\ TypeOK => TypeOK'
                                /\ SlotInv => SlotInv'
BY DEF vars, TypeOK, TypeTask, TypeResp, TypeBody, TypeConn, TypeObs, SlotInv, LimiterAccounting, LimitBound, Held

\* No way out of serve_tornado_request leaks a slot or gives one back twice,
\* and the limiter admits at most max_active_handlers + 1 requests.
THEOREM SlotsAreSafe == Spec => [](TypeOK /\ LimiterAccounting /\ LimitBound)
<1>1. TypeOK /\ SlotInv /\ [Next]_vars => TypeOK' /\ SlotInv'
  BY SlotStep, TypeStep, StutterOK DEF Next
<1> QED
  BY <1>1, InitOK, PTL DEF Spec, SlotInv

-----------------------------------------------------------------------------
(* The limiter as a number of slots.                                       *)

\* The cardinality HandlerSlots counts with is the one used here.
LEMMA SameCardinality == \A S : Slots!Cardinality(S) = Cardinality(S)
BY DEF Slots!Cardinality, Cardinality

\* The refinement mapping turns the holders of the model into the holders of
\* the abstract specification.
LEMMA SameHolders ==
    ASSUME TypeOK, LimiterAccounting PROVE Slots!Holders = Held
BY DEF Slots!Holders, slotOf, Held, LimiterAccounting, TypeOK, TypeTask,
       ServeStates

\* Every step of the serving is a step of HandlerSlots or changes no slot.
LEMMA SlotRefinementStep ==
    ASSUME TypeOK, SlotInv, NEW r \in Requests, RequestStep(r)
    PROVE  Slots!Next \/ UNCHANGED slotOf
<1> USE DEF SlotInv, TypeOK, TypeTask
<1>1. CASE ServeStart(r)
  <2>1. /\ slotOf[r] = "waiting" /\ serve' = [serve EXCEPT ![r] = "awaiting"]
        /\ ~acquired[r] /\ Limiter(r)
    BY <1>1 DEF ServeStart, slotOf, LimiterAccounting
  <2>2. Slots!Cardinality(Slots!Holders) = count
    BY SameHolders, SameCardinality DEF LimiterAccounting
  <2>3. CASE count > MaxActiveHandlers
    <3>1. slotOf' = [slotOf EXCEPT ![r] = "refused"]
      BY <2>1, <2>3 DEF slotOf, Limiter, slotVars
    <3>2. Slots!Cardinality(Slots!Holders) >= MaxActiveHandlers + 1
      BY <2>2, <2>3, ServingAssumption
    <3>3. Slots!Refuse(r)
      BY <2>1, <3>1, <3>2 DEF Slots!Refuse
    <3> QED
      BY <3>3 DEF Slots!Next
  <2>4. CASE ~(count > MaxActiveHandlers)
    <3>1. slotOf' = [slotOf EXCEPT ![r] = "held"]
      BY <2>1, <2>4 DEF slotOf, Limiter
    <3>2. Slots!Cardinality(Slots!Holders) < MaxActiveHandlers + 1
      BY <2>2, <2>4, ServingAssumption
    <3>3. Slots!Admit(r)
      BY <2>1, <3>1, <3>2 DEF Slots!Admit
    <3> QED
      BY <3>3 DEF Slots!Next
  <2> QED
    BY <2>3, <2>4
<1>2. CASE /\ Release(r) /\ serve[r] \in {"awaiting", "writing"}
           /\ serve' = [serve EXCEPT ![r] = "done"]
  <2>1. slotOf[r] \in {"held", "refused"}
    BY <1>2 DEF slotOf
  <2>2. slotOf' = [slotOf EXCEPT ![r] = "left"]
    BY <1>2 DEF slotOf, Release
  <2> QED
    BY <2>1, <2>2 DEF Slots!Next, Slots!Leave
<1>3. CASE /\ UNCHANGED slotVars
           /\ \/ UNCHANGED serve
              \/ serve[r] = "none" /\ serve' = [serve EXCEPT ![r] = "created"]
              \/ /\ serve[r] = "awaiting"
                 /\ serve' = [serve EXCEPT ![r] = "writing"]
  BY <1>3 DEF slotOf, slotVars
<1>4. CASE Tornado(r)
  BY <1>3, <1>4
  DEF Tornado, HeadersReceived, DataReceived, Finish, AbortBody
<1>5. CASE ClientClose(r) \/ CloseNoticed(r)
  BY <1>3, <1>5 DEF ClientClose, CloseNoticed
<1>6. CASE Process(r)
  BY <1>3, <1>6
  DEF Process, ProcessRefuse, ProcessRaise, ProcessStart, Receive,
      ReceiveChunk, SendStart, SendBody, StartLineWritten, SendLast,
      SendChunk, ChunkWritten, AppReturn, CancelDelivered
<1>7. CASE ServeInterrupted(r) \/ ServeCanceled(r) \/ ServeStreamed(r)
           \/ ServeWritten(r)
  BY <1>2, <1>7
  DEF ServeInterrupted, ServeCanceled, ServeStreamed, ServeWritten, Conclude,
      Responded
<1>8. CASE ServeAnswer(r)
  BY <1>2, <1>3, <1>8 DEF ServeAnswer, Conclude, Responded
<1> QED
  BY <1>1, <1>4, <1>5, <1>6, <1>7, <1>8 DEF RequestStep, Serve

\* The worker's serving of requests, with its tasks, cancellations and close
\* callbacks, implements HandlerSlots with max_active_handlers + 1 slots, the
\* number the comparison in request_limiter.py:31 leaves.
THEOREM ServingImplementsSlots == Spec => ImplementsSlots
<1>1. Init => Slots!Init
  BY DEF Init, Slots!Init, slotOf
<1>2. TypeOK /\ SlotInv /\ [Next]_vars => [Slots!Next]_slotOf
  <2>1. ASSUME TypeOK, SlotInv, Next PROVE Slots!Next \/ UNCHANGED slotOf
    BY <2>1, SlotRefinementStep DEF Next
  <2>2. ASSUME UNCHANGED vars PROVE UNCHANGED slotOf
    BY <2>2 DEF vars, slotOf
  <2> QED
    BY <2>1, <2>2
<1> QED
  BY <1>1, <1>2, SlotsAreSafe, PTL DEF Spec, ImplementsSlots, Slots!Spec, SlotInv

-----------------------------------------------------------------------------
(* One answer and one access-log record.                                   *)

\* A step of a request leaves the state of the others alone.
LEMMA Frame ==
    ASSUME TypeOK, NEW r \in Requests, RequestStep(r), NEW q \in Requests, q # r
    PROVE  /\ serve'[q] = serve[q] /\ task'[q] = task[q] /\ cancelling'[q] = cancelling[q]
           /\ open'[q] = open[q] /\ closeCb'[q] = closeCb[q] /\ wired'[q] = wired[q]
           /\ canceled'[q] = canceled[q] /\ finished'[q] = finished[q]
           /\ phase'[q] = phase[q] /\ arrived'[q] = arrived[q]
           /\ queue'[q] = queue[q] /\ seen'[q] = seen[q] /\ bodyEnd'[q] = bodyEnd[q]
           /\ logged'[q] = logged[q] /\ wire'[q] = wire[q] /\ dto'[q] = dto[q]
           /\ headers_written'[q] = headers_written[q] /\ status'[q] = status[q]
<1>1. serve'[q] = serve[q] /\ task'[q] = task[q] /\ cancelling'[q] = cancelling[q]
  BY DEF TypeOK, TypeTask, Conclude, RequestStep, Tornado, ClientClose, CloseNoticed, OnConnectionClose,
         HeadersReceived, DataReceived, Finish, AbortBody, Process,
         ProcessRefuse, ProcessRaise, ProcessStart, Receive, ReceiveChunk,
         SendStart, SendBody, StartLineWritten, SendLast, SendChunk,
         ChunkWritten, AppReturn, CancelDelivered, Serve, ServeStart,
         ServeInterrupted, ServeCanceled, ServeAnswer, ServeStreamed,
         ServeWritten
<1>2. open'[q] = open[q] /\ closeCb'[q] = closeCb[q] /\ wired'[q] = wired[q]
  BY DEF TypeOK, TypeConn, connVars, Conclude, RequestStep, Tornado, ClientClose, CloseNoticed, OnConnectionClose,
         HeadersReceived, DataReceived, Finish, AbortBody, Process,
         ProcessRefuse, ProcessRaise, ProcessStart, Receive, ReceiveChunk,
         SendStart, SendBody, StartLineWritten, SendLast, SendChunk,
         ChunkWritten, AppReturn, CancelDelivered, Serve, ServeStart,
         ServeInterrupted, ServeCanceled, ServeAnswer, ServeStreamed,
         ServeWritten
<1>3. canceled'[q] = canceled[q] /\ finished'[q] = finished[q] /\ phase'[q] = phase[q]
  BY DEF TypeOK, TypeBody, bodyVars, RequestStep, Tornado, ClientClose, CloseNoticed, OnConnectionClose,
         HeadersReceived, DataReceived, Finish, AbortBody, Process,
         ProcessRefuse, ProcessRaise, ProcessStart, Receive, ReceiveChunk,
         SendStart, SendBody, StartLineWritten, SendLast, SendChunk,
         ChunkWritten, AppReturn, CancelDelivered, Serve, ServeStart,
         ServeInterrupted, ServeCanceled, ServeAnswer, ServeStreamed,
         ServeWritten
<1>4. /\ queue'[q] = queue[q] /\ seen'[q] = seen[q] /\ bodyEnd'[q] = bodyEnd[q]
      /\ arrived'[q] = arrived[q]
  BY DEF TypeOK, TypeBody, bodyVars, RequestStep, Tornado, ClientClose, CloseNoticed, OnConnectionClose,
         HeadersReceived, DataReceived, Finish, AbortBody, Process,
         ProcessRefuse, ProcessRaise, ProcessStart, Receive, ReceiveChunk,
         SendStart, SendBody, StartLineWritten, SendLast, SendChunk,
         ChunkWritten, AppReturn, CancelDelivered, Serve, ServeStart,
         ServeInterrupted, ServeCanceled, ServeAnswer, ServeStreamed,
         ServeWritten
<1>5. logged'[q] = logged[q] /\ wire'[q] = wire[q] /\ dto'[q] = dto[q]
  BY DEF TypeOK, TypeObs, obsVars, WriteStartLine, Conclude, RequestStep, Tornado, ClientClose, CloseNoticed, OnConnectionClose,
         HeadersReceived, DataReceived, Finish, AbortBody, Process,
         ProcessRefuse, ProcessRaise, ProcessStart, Receive, ReceiveChunk,
         SendStart, SendBody, StartLineWritten, SendLast, SendChunk,
         ChunkWritten, AppReturn, CancelDelivered, Serve, ServeStart,
         ServeInterrupted, ServeCanceled, ServeAnswer, ServeStreamed,
         ServeWritten
<1>6. headers_written'[q] = headers_written[q] /\ status'[q] = status[q]
  BY DEF TypeOK, TypeResp, respVars, WriteStartLine, RequestStep, Tornado, ClientClose, CloseNoticed, OnConnectionClose,
         HeadersReceived, DataReceived, Finish, AbortBody, Process,
         ProcessRefuse, ProcessRaise, ProcessStart, Receive, ReceiveChunk,
         SendStart, SendBody, StartLineWritten, SendLast, SendChunk,
         ChunkWritten, AppReturn, CancelDelivered, Serve, ServeStart,
         ServeInterrupted, ServeCanceled, ServeAnswer, ServeStreamed,
         ServeWritten
<1> QED
  BY <1>1, <1>2, <1>3, <1>4, <1>5, <1>6

\* So the invariants of the others hold on.
LEMMA OthersUnchanged ==
    ASSUME TypeOK, NEW r \in Requests, RequestStep(r),
           NEW q \in Requests, q # r, TaskInv(q), LogInv(q), AnswerInv(q)
    PROVE  TaskInv(q)' /\ LogInv(q)' /\ AnswerInv(q)'
BY Frame DEF TaskInv, LogInv, AnswerInv

\* Appending to an empty log leaves one record.
LEMMA FirstRecord ==
    ASSUME NEW code PROVE Len(Append(<<>>, code)) = 1 /\ Append(<<>>, code) # <<>>
OBVIOUS

\* The invariant of the stepping request itself, action by action.
LEMMA OnceStep ==
    ASSUME TypeOK, NEW r \in Requests, RequestStep(r),
           TaskInv(r), LogInv(r), AnswerInv(r)
    PROVE  TaskInv(r)' /\ LogInv(r)' /\ AnswerInv(r)'
<1> USE DEF TypeOK, TypeTask, TypeConn, TypeObs, TaskInv, LogInv, AnswerInv,
            TaskDone, respVars, bodyVars, connVars, obsVars
<1>1. CASE HeadersReceived(r)
  BY <1>1 DEF HeadersReceived
<1>2. CASE DataReceived(r) \/ ClientClose(r)
  BY <1>2 DEF DataReceived, ClientClose
<1>3. CASE Finish(r) \/ AbortBody(r)
  <2>1. closeCb'[r] => closeCb[r]
    BY <1>3 DEF Finish, AbortBody
  <2>2. canceled[r] => canceled'[r]
    BY <1>3 DEF Finish, AbortBody, TypeBody
  <2> QED
    BY <1>3, <2>1, <2>2 DEF Finish, AbortBody
<1>4. CASE CloseNoticed(r)
  <2>1. ~closeCb'[r] /\ UNCHANGED <<serve, task, wire, headers_written>>
    BY <1>4 DEF CloseNoticed
  <2>2. CASE closeCb[r] /\ OnConnectionClose(r)
    <3>1. serve[r] \in {"awaiting", "done"} /\ logged[r] = <<>>
      BY <2>2 DEF ServeStates
    <3>2. logged'[r] = Append(<<>>, ClientClosedRequest) /\ canceled'[r]
      BY <2>2, <3>1 DEF OnConnectionClose, TypeBody
    <3>3. cancelling'[r] => task[r] \notin TaskDone
      BY <2>2 DEF OnConnectionClose
    <3>4. task[r] # "none"
      BY <3>1
    <3> QED
      BY <2>1, <3>1, <3>2, <3>3, <3>4, FirstRecord
  <2>3. CASE UNCHANGED <<logged, canceled, dto, cancelling>>
    BY <2>1, <2>3
  <2> QED
    BY <1>4, <2>2, <2>3 DEF CloseNoticed
<1>5. CASE ProcessRefuse(r) \/ ProcessRaise(r) \/ ProcessStart(r)
  BY <1>5 DEF ProcessRefuse, ProcessRaise, ProcessStart, Active
<1>6. CASE Receive(r) \/ ReceiveChunk(r) \/ SendStart(r)
  BY <1>6 DEF Receive, ReceiveChunk, SendStart, Active
<1>7. CASE SendBody(r)
  <2>1. wire[r] = 0 /\ serve[r] = "awaiting"
    BY <1>7 DEF SendBody, Active, ServeStates
  <2>2. CASE open[r]
    BY <1>7, <2>1, <2>2 DEF SendBody, WriteStartLine, Active
  <2>3. CASE ~open[r]
    BY <1>7, <2>1, <2>3 DEF SendBody, WriteStartLine, Active
  <2> QED
    BY <2>2, <2>3
<1>8. CASE StartLineWritten(r)
  BY <1>8 DEF StartLineWritten, Active, TypeResp
<1>9. CASE SendLast(r) \/ SendChunk(r) \/ ChunkWritten(r)
  BY <1>9 DEF SendLast, SendChunk, ChunkWritten, Active
<1>10. CASE AppReturn(r)
  BY <1>10 DEF AppReturn, Active
<1>11. CASE CancelDelivered(r)
  BY <1>11 DEF CancelDelivered
<1>12. CASE ServeStart(r)
  BY <1>12 DEF ServeStart
<1>13. CASE ServeInterrupted(r) \/ ServeCanceled(r)
  BY <1>13 DEF ServeInterrupted, ServeCanceled, Responded
<1>14. CASE ServeAnswer(r)
  <2>1. /\ serve[r] = "awaiting" /\ task[r] = "finished" /\ wire[r] = 0
        /\ logged[r] = <<>> /\ ~closeCb'[r] /\ UNCHANGED <<task, cancelling>>
    BY <1>14 DEF ServeAnswer, Responded
  <2>2. wire'[r] <= 1
    BY <1>14, <2>1 DEF ServeAnswer, WriteStartLine
  <2>3. CASE serve' = [serve EXCEPT ![r] = "writing"] /\ UNCHANGED logged
    BY <2>1, <2>2, <2>3
  <2>4. CASE Conclude(r, ClientClosedRequest)
    <3>1. logged'[r] = Append(<<>>, ClientClosedRequest) /\ serve'[r] = "done"
      BY <2>1, <2>4 DEF Conclude
    <3> QED
      BY <2>1, <2>2, <3>1, FirstRecord
  <2> QED
    BY <1>14, <2>3, <2>4 DEF ServeAnswer
<1>15. CASE ServeStreamed(r) \/ ServeWritten(r)
  <2>1. /\ task[r] \in TaskDone /\ logged[r] = <<>> /\ ~closeCb'[r]
        /\ UNCHANGED <<task, cancelling, wire>> /\ Conclude(r, status[r])
    BY <1>15 DEF ServeStreamed, ServeWritten, Responded
  <2>2. logged'[r] = Append(<<>>, status[r]) /\ serve'[r] = "done"
    BY <2>1 DEF Conclude
  <2> QED
    BY <2>1, <2>2, FirstRecord
<1> QED
  BY <1>1, <1>2, <1>3, <1>4, <1>5, <1>6, <1>7, <1>8, <1>9, <1>10, <1>11,
     <1>12, <1>13, <1>14, <1>15
  DEF RequestStep, Tornado, Process, Serve

\* The tasks' invariant is inductive.
LEMMA OnceIsInvariant == Spec => []OnceInv
<1>1. Init => OnceInv
  BY DEF Init, OnceInv, TaskInv, LogInv, AnswerInv, TaskDone
<1>2. TypeOK /\ OnceInv /\ [Next]_vars => OnceInv'
  <2>1. ASSUME TypeOK, OnceInv, Next PROVE OnceInv'
    <3>1. PICK r \in Requests : RequestStep(r)
      BY <2>1 DEF Next
    <3>2. ASSUME NEW q \in Requests
          PROVE  TaskInv(q)' /\ LogInv(q)' /\ AnswerInv(q)'
      BY <2>1, <3>1, <3>2, OnceStep, OthersUnchanged DEF OnceInv
    <3> QED
      BY <3>2 DEF OnceInv
  <2>2. ASSUME OnceInv, UNCHANGED vars PROVE OnceInv'
    BY <2>2 DEF OnceInv, TaskInv, LogInv, AnswerInv, vars
  <2> QED
    BY <2>1, <2>2
<1> QED
  BY <1>1, <1>2, SlotsAreSafe, PTL DEF Spec

\* For any number of concurrent requests, a client never gets two response
\* header blocks and the access log never holds two records of one request,
\* however the close callback, the cancellation and the answer interleave.
THEOREM AnsweredAndLoggedOnce == Spec => [](AtMostOneAnswer /\ AtMostOneLog)
<1>1. OnceInv => AtMostOneAnswer /\ AtMostOneLog
  BY DEF OnceInv, LogInv, AnswerInv, AtMostOneAnswer, AtMostOneLog
<1> QED
  BY <1>1, OnceIsInvariant, PTL

\* A client never gets two response header blocks (headers_written).
COROLLARY AnsweredOnce == Spec => []AtMostOneAnswer
BY AnsweredAndLoggedOnce, PTL

-----------------------------------------------------------------------------
(* What becomes of a request that was closed, answered or cut off.         *)

\* The close callback reports a request once, when nobody else can any more.
ClosedInv(r) ==
    dto[r] = "closed" =>
        /\ serve[r] \in {"awaiting", "done"}
        /\ canceled[r] /\ ~closeCb[r] /\ logged[r] # <<>>
        /\ task[r] \in TaskDone \/ cancelling[r]

\* A record is that of the close callback or was written at the very end,
\* with the status the response still has.
RecordInv(r) ==
    logged[r] # <<>> =>
        \/ dto[r] = "closed" /\ logged[r][1] = ClientClosedRequest
        \/ dto[r] = "response" /\ serve[r] = "done" /\ logged[r][1] = status[r]

\* Whoever gives up a request has left a record or found the body cut off, and
\* a client that is still connected has its header block once it is due.
ServedInv(r) ==
    /\ canceled[r] => ~open[r] /\ (phase[r] = "aborted" \/ logged[r] # <<>>)
    /\ cancelling[r] \/ task[r] = "cancelled" => ~open[r] /\ logged[r] # <<>>
    /\ task[r] = "starting" \/ serve[r] = "writing" => wire[r] = 1
    /\ headers_written[r] => wire[r] = 1 \/ ~open[r]
    /\ serve[r] = "done" =>
        \/ task[r] = "raised" \/ phase[r] = "aborted"
        \/ logged[r] # <<>> /\ (open[r] => wire[r] = 1)

\* What the application has seen and what waits in the queue are together the
\* chunks that arrived, in order, with the end marker once the body is read.
InOrder(s, q, n, end) ==
    /\ Len(s) <= n
    /\ Len(s) + Len(q) = n + end
    /\ \A i \in 1..Len(s) : s[i] = i
    /\ \A i \in 1..Len(q) : /\ Len(s) + i <= n => q[i] = Len(s) + i
                            /\ Len(s) + i > n => q[i] = EOF

Whole(r) == InOrder(seen[r], queue[r], arrived[r], IF phase[r] = "read" THEN 1 ELSE 0)

BodyInv(r) ==
    /\ phase[r] = "reading" => ~finished[r] /\ ~canceled[r] /\ bodyEnd[r] = "no"
    /\ phase[r] = "aborted" => canceled[r]
    /\ phase[r] = "read" => finished[r]
    /\ wired[r] => phase[r] = "read"
    /\ task[r] = "receiving" => bodyEnd[r] = "no"
    /\ bodyEnd[r] = "no" /\ phase[r] # "aborted" => Whole(r)
    /\ bodyEnd[r] = "complete" =>
        /\ phase[r] = "read"
        /\ Len(seen[r]) = arrived[r]
        /\ \A i \in 1..arrived[r] : seen[r][i] = i

EndInv == \A r \in Requests : ClosedInv(r) /\ RecordInv(r) /\ ServedInv(r) /\ BodyInv(r)

\* A step of a request leaves all this true of the others.
LEMMA OthersEnd ==
    ASSUME TypeOK, NEW r \in Requests, RequestStep(r), NEW q \in Requests, q # r,
           ClosedInv(q), RecordInv(q), ServedInv(q), BodyInv(q)
    PROVE  ClosedInv(q)' /\ RecordInv(q)' /\ ServedInv(q)' /\ BodyInv(q)'
<1>1. ClosedInv(q)' /\ RecordInv(q)' /\ ServedInv(q)'
  BY Frame DEF ClosedInv, RecordInv, ServedInv
<1>2. Whole(q)' = Whole(q)
  <2>1. /\ phase'[q] = phase[q] /\ arrived'[q] = arrived[q]
        /\ queue'[q] = queue[q] /\ seen'[q] = seen[q]
    BY Frame
  <2> QED
    BY <2>1 DEF Whole
<1>3. BodyInv(q)'
  <2>1. /\ phase'[q] = phase[q] /\ arrived'[q] = arrived[q] /\ seen'[q] = seen[q]
        /\ finished'[q] = finished[q] /\ canceled'[q] = canceled[q]
        /\ bodyEnd'[q] = bodyEnd[q] /\ wired'[q] = wired[q] /\ task'[q] = task[q]
    BY Frame
  <2> QED
    BY <1>2, <2>1 DEF BodyInv
<1> QED
  BY <1>1, <1>3

\* Once the request is reported as closed, nothing more is reported: every
\* step that could, finds canceled set, the task cancelled or the callback
\* spent.
LEMMA ClosedStep ==
    ASSUME TypeOK, NEW r \in Requests, RequestStep(r),
           TaskInv(r), LogInv(r), ClosedInv(r)
    PROVE  /\ ClosedInv(r)'
           /\ dto[r] = "closed" => /\ wire'[r] = wire[r] /\ dto'[r] = "closed"
                                   /\ logged'[r] = logged[r]
<1> USE DEF TypeOK, TypeTask, TypeConn, TypeObs, TypeBody, TaskInv, LogInv, ClosedInv,
            TaskDone, respVars, bodyVars, connVars, obsVars
<1>1. CASE Tornado(r) \/ ClientClose(r)
  <2>1. UNCHANGED <<task, cancelling, dto, logged, wire>>
    BY <1>1 DEF Tornado, ClientClose, HeadersReceived, DataReceived, Finish, AbortBody
  <2>2. (canceled[r] => canceled'[r]) /\ (closeCb'[r] => closeCb[r])
    BY <1>1 DEF Tornado, ClientClose, HeadersReceived, DataReceived, Finish, AbortBody
  <2>3. serve'[r] = serve[r] \/ serve[r] = "none"
    BY <1>1 DEF Tornado, ClientClose, HeadersReceived, DataReceived, Finish, AbortBody
  <2> QED
    BY <2>1, <2>2, <2>3
<1>2. CASE CloseNoticed(r)
  <2>1. ~closeCb'[r] /\ UNCHANGED <<serve, task, wire>>
    BY <1>2 DEF CloseNoticed
  <2>2. CASE closeCb[r] /\ OnConnectionClose(r)
    <3>1. dto[r] # "closed" /\ serve[r] \in {"awaiting", "done"} /\ logged[r] = <<>>
      BY <2>2 DEF ServeStates
    <3>2. logged'[r] = Append(<<>>, ClientClosedRequest) /\ canceled'[r]
      BY <2>2, <3>1 DEF OnConnectionClose
    <3>3. cancelling'[r] = (task[r] \notin TaskDone)
      BY <2>2 DEF OnConnectionClose
    <3> QED
      BY <2>1, <3>1, <3>2, <3>3, FirstRecord
  <2>3. CASE UNCHANGED <<logged, canceled, dto, cancelling>>
    BY <2>1, <2>3
  <2> QED
    BY <1>2, <2>2, <2>3 DEF CloseNoticed
<1>3. CASE CancelDelivered(r)
  BY <1>3 DEF CancelDelivered
<1>4. CASE Process(r) /\ ~CancelDelivered(r)
  <2>1. ~cancelling[r] /\ task[r] \notin TaskDone
    BY <1>4 DEF Process, Active, ProcessRefuse, ProcessRaise, ProcessStart, Receive,
        ReceiveChunk, SendStart, SendBody, StartLineWritten, SendLast, SendChunk,
        ChunkWritten, AppReturn
  <2>2. dto'[r] \in {dto[r], "response"}
    BY <1>4 DEF Process, ProcessRefuse, ProcessRaise, ProcessStart, Receive,
        ReceiveChunk, SendStart, SendBody, StartLineWritten, SendLast, SendChunk,
        ChunkWritten, AppReturn
  <2> QED
    BY <2>1, <2>2
<1>5. CASE ServeStart(r)
  BY <1>5 DEF ServeStart
<1>6. CASE ServeInterrupted(r) \/ ServeCanceled(r)
  BY <1>6 DEF ServeInterrupted, ServeCanceled, Responded
<1>7. CASE ServeAnswer(r) \/ ServeStreamed(r) \/ ServeWritten(r)
  <2>1. dto[r] # "closed"
    BY <1>7 DEF ServeAnswer, ServeStreamed, ServeWritten
  <2>2. dto'[r] \in {dto[r], "response"}
    <3>1. dto' = dto \/ dto' = [dto EXCEPT ![r] = "response"]
      BY <1>7 DEF ServeAnswer, ServeStreamed, ServeWritten, Conclude
    <3>2. r \in DOMAIN dto
      BY DEF TypeOK, TypeObs
    <3> QED
      BY ONLY <3>1, <3>2
  <2> QED
    BY <2>1, <2>2
<1> QED
  BY <1>1, <1>2, <1>3, <1>4, <1>5, <1>6, <1>7 DEF RequestStep, Serve

\* A record keeps telling what the response holds: after it is written the
\* request is closed, or over.
LEMMA RecordStep ==
    ASSUME TypeOK, NEW r \in Requests, RequestStep(r),
           TaskInv(r), LogInv(r), ClosedInv(r), RecordInv(r)
    PROVE  RecordInv(r)'
<1> USE DEF TypeOK, TypeTask, TypeConn, TypeObs, TypeResp, TaskInv, LogInv, RecordInv,
            respVars, bodyVars, connVars, obsVars
<1>1. CASE Tornado(r) \/ ClientClose(r)
  <2>1. UNCHANGED <<status, dto, logged>>
    BY <1>1 DEF Tornado, ClientClose, HeadersReceived, DataReceived, Finish, AbortBody
  <2>2. serve'[r] = serve[r] \/ serve[r] = "none"
    BY <1>1 DEF Tornado, ClientClose, HeadersReceived, DataReceived, Finish, AbortBody
  <2> QED
    BY <2>1, <2>2
<1>2. CASE CloseNoticed(r)
  <2>1. UNCHANGED <<serve, status>>
    BY <1>2 DEF CloseNoticed
  <2>2. CASE closeCb[r] /\ OnConnectionClose(r)
    <3>1. logged[r] = <<>>
      BY <2>2
    <3>2. logged'[r] = <<ClientClosedRequest>> /\ dto'[r] = "closed"
      BY <2>2, <3>1 DEF OnConnectionClose
    <3> QED
      BY <3>2
  <2>3. CASE UNCHANGED <<logged, dto>>
    BY <2>1, <2>3
  <2> QED
    BY <1>2, <2>2, <2>3 DEF CloseNoticed
<1>3. CASE Process(r)
  <2>1. task[r] \notin TaskDone \/ CancelDelivered(r)
    BY <1>3 DEF Process, Active, ProcessRefuse, ProcessRaise, ProcessStart, Receive,
        ReceiveChunk, SendStart, SendBody, StartLineWritten, SendLast, SendChunk,
        ChunkWritten, AppReturn, TaskDone
  <2>2. serve[r] # "done"
    BY <2>1 DEF CancelDelivered
  <2>3. UNCHANGED <<serve, logged>>
    BY <1>3 DEF Process, ProcessRefuse, ProcessRaise, ProcessStart, Receive,
        ReceiveChunk, SendStart, SendBody, StartLineWritten, SendLast, SendChunk,
        ChunkWritten, AppReturn, CancelDelivered
  <2>4. dto[r] = "closed" => dto'[r] = "closed"
    BY ClosedStep
  <2> QED
    BY <2>2, <2>3, <2>4
<1>4. CASE ServeStart(r) \/ ServeInterrupted(r) \/ ServeCanceled(r)
  <2>1. UNCHANGED <<dto, logged, status>> /\ (serve[r] # "done")
    BY <1>4 DEF ServeStart, ServeInterrupted, ServeCanceled, Responded
  <2> QED
    BY <2>1
<1>5. CASE ServeAnswer(r)
  <2>1. logged[r] = <<>>
    BY <1>5 DEF ServeAnswer, Responded
  <2>2. CASE Conclude(r, ClientClosedRequest) /\ ~open[r]
    <3>1. logged'[r] = <<ClientClosedRequest>> /\ dto'[r] = "response" /\ serve'[r] = "done"
      BY <2>1, <2>2 DEF Conclude
    <3>2. status'[r] = ClientClosedRequest
      BY <1>5, <2>2 DEF ServeAnswer, WriteStartLine
    <3> QED
      BY <3>1, <3>2
  <2>3. CASE UNCHANGED logged
    BY <2>1, <2>3
  <2> QED
    BY <1>5, <2>2, <2>3 DEF ServeAnswer
<1>6. CASE ServeStreamed(r) \/ ServeWritten(r)
  <2>1. logged[r] = <<>> /\ Conclude(r, status[r]) /\ status' = status
    BY <1>6 DEF ServeStreamed, ServeWritten, Responded
  <2>2. logged'[r] = <<status[r]>> /\ dto'[r] = "response" /\ serve'[r] = "done"
    BY <2>1 DEF Conclude
  <2> QED
    BY <2>1, <2>2
<1> QED
  BY <1>1, <1>2, <1>3, <1>4, <1>5, <1>6 DEF RequestStep, Serve

\* Every way out of serve_tornado_request leaves a record, but for a body that
\* was cut off and a failed process_request.
LEMMA ServedStep ==
    ASSUME TypeOK, NEW r \in Requests, RequestStep(r),
           TaskInv(r), LogInv(r), AnswerInv(r), ServedInv(r)
    PROVE  ServedInv(r)'
<1> USE DEF TypeOK, TypeTask, TypeConn, TypeObs, TypeBody, TypeResp, TaskInv, LogInv,
            AnswerInv, ServedInv, TaskDone, respVars, bodyVars, connVars, obsVars
<1>1. CASE HeadersReceived(r) \/ DataReceived(r) \/ ClientClose(r)
  BY <1>1 DEF HeadersReceived, DataReceived, ClientClose
<1>2. CASE Finish(r)
  <2>1. UNCHANGED <<serve, task, cancelling, canceled, logged, wire, headers_written>>
    BY <1>2 DEF Finish
  <2>2. phase[r] = "reading"
    BY <1>2 DEF Finish
  <2>3. open'[r] => open[r]
    <3>1. open' = open \/ open' = [open EXCEPT ![r] = FALSE]
      BY <1>2 DEF Finish
    <3>2. r \in DOMAIN open
      BY DEF TypeOK, TypeConn
    <3> QED
      BY ONLY <3>1, <3>2
  <2> QED
    BY <2>1, <2>2, <2>3
<1>3. CASE AbortBody(r)
  BY <1>3 DEF AbortBody
<1>4. CASE CloseNoticed(r)
  <2>1. UNCHANGED <<serve, task, wire, headers_written, open, phase>> /\ ~open[r]
    BY <1>4 DEF CloseNoticed
  <2>2. CASE closeCb[r] /\ OnConnectionClose(r)
    <3>1. logged[r] = <<>>
      BY <2>2
    <3>2. logged'[r] = Append(<<>>, ClientClosedRequest)
      BY <2>2, <3>1 DEF OnConnectionClose
    <3> QED
      BY <2>1, <3>2, FirstRecord
  <2>3. CASE UNCHANGED <<logged, canceled, dto, cancelling>>
    BY <2>1, <2>3
  <2> QED
    BY <1>4, <2>2, <2>3 DEF CloseNoticed
<1>5. CASE ProcessRefuse(r) \/ ProcessRaise(r) \/ ProcessStart(r)
  BY <1>5 DEF ProcessRefuse, ProcessRaise, ProcessStart, Active
<1>6. CASE Receive(r) \/ ReceiveChunk(r) \/ SendStart(r)
  BY <1>6 DEF Receive, ReceiveChunk, SendStart, Active
<1>7. CASE SendBody(r)
  <2>1. wire[r] = 0 /\ serve[r] = "awaiting"
    BY <1>7 DEF SendBody, Active, ServeStates
  <2>2. CASE open[r]
    BY <1>7, <2>1, <2>2 DEF SendBody, WriteStartLine, Active
  <2>3. CASE ~open[r]
    BY <1>7, <2>1, <2>3 DEF SendBody, WriteStartLine, Active
  <2> QED
    BY <2>2, <2>3
<1>8. CASE StartLineWritten(r)
  BY <1>8 DEF StartLineWritten, Active
<1>9. CASE SendLast(r) \/ SendChunk(r) \/ ChunkWritten(r)
  BY <1>9 DEF SendLast, SendChunk, ChunkWritten, Active
<1>10. CASE AppReturn(r)
  BY <1>10 DEF AppReturn, Active
<1>11. CASE CancelDelivered(r)
  BY <1>11 DEF CancelDelivered
<1>12. CASE ServeStart(r)
  BY <1>12 DEF ServeStart
<1>13. CASE ServeInterrupted(r) \/ ServeCanceled(r)
  BY <1>13 DEF ServeInterrupted, ServeCanceled, Responded
<1>14. CASE ServeAnswer(r)
  <2>1. /\ serve[r] = "awaiting" /\ task[r] = "finished" /\ wire[r] = 0
        /\ logged[r] = <<>> /\ ~canceled[r] /\ ~headers_written[r]
        /\ UNCHANGED <<task, cancelling, canceled, phase, headers_written>>
    BY <1>14 DEF ServeAnswer, Responded
  <2>2. CASE open[r]
    <3>1. wire'[r] = 1 /\ serve'[r] = "writing" /\ UNCHANGED <<logged, open>>
      BY <1>14, <2>1, <2>2 DEF ServeAnswer, WriteStartLine
    <3> QED
      BY <2>1, <3>1
  <2>3. CASE ~open[r]
    <3>1. Conclude(r, ClientClosedRequest)
      BY <1>14, <2>3 DEF ServeAnswer
    <3>2. logged'[r] = Append(<<>>, ClientClosedRequest) /\ serve'[r] = "done"
      BY <2>1, <3>1 DEF Conclude
    <3>3. ~open'[r]
      BY <2>3, <3>1 DEF Conclude
    <3> QED
      BY <2>1, <3>2, <3>3, FirstRecord
  <2> QED
    BY <2>2, <2>3
<1>15. CASE ServeStreamed(r) \/ ServeWritten(r)
  <2>1. /\ task[r] \in TaskDone /\ logged[r] = <<>> /\ Conclude(r, status[r])
        /\ UNCHANGED <<task, cancelling, canceled, phase, headers_written, wire>>
    BY <1>15 DEF ServeStreamed, ServeWritten, Responded
  <2>2. wire[r] = 1 \/ ~open[r]
    BY <1>15 DEF ServeStreamed, ServeWritten
  <2>3. logged'[r] = Append(<<>>, status[r]) /\ serve'[r] = "done" /\ (open'[r] => open[r])
    BY <2>1 DEF Conclude
  <2> QED
    BY <2>1, <2>2, <2>3, FirstRecord
<1> QED
  BY <1>1, <1>2, <1>3, <1>4, <1>5, <1>6, <1>7, <1>8, <1>9, <1>10, <1>11,
     <1>12, <1>13, <1>14, <1>15
  DEF RequestStep, Tornado, Process, Serve

\* The first item of the queue: a chunk moves to the end of what was seen, the
\* end marker shows that nothing is missing.
LEMMA TakeInOrder ==
    ASSUME NEW s \in Seq(Nat), NEW q \in Seq(Nat), NEW n \in Nat, NEW end \in 0..1,
           q # <<>>, InOrder(s, q, n, end)
    PROVE  /\ Head(q) = EOF => end = 1 /\ Len(s) = n
           /\ Head(q) # EOF => InOrder(Append(s, Head(q)), Tail(q), n, end)
<1>1. /\ Len(s) \in Nat /\ Len(q) \in Nat /\ Len(q) >= 1 /\ Head(q) = q[1]
      /\ Len(Tail(q)) = Len(q) - 1
  OBVIOUS
<1>2. /\ Len(s) <= n /\ Len(s) + Len(q) = n + end
      /\ \A i \in 1..Len(s) : s[i] = i
      /\ \A i \in 1..Len(q) : /\ Len(s) + i <= n => q[i] = Len(s) + i
                              /\ Len(s) + i > n => q[i] = EOF
  BY DEF InOrder
<1>3. /\ Len(s) + 1 <= n => Head(q) = Len(s) + 1
      /\ Len(s) + 1 > n => Head(q) = EOF
  BY <1>1, <1>2
<1>4. ASSUME Head(q) = EOF PROVE end = 1 /\ Len(s) = n
  <2>1. ~(Len(s) + 1 <= n)
    BY <1>1, <1>3, <1>4 DEF EOF
  <2> QED
    BY <1>1, <1>2, <2>1
<1>5. ASSUME Head(q) # EOF PROVE InOrder(Append(s, Head(q)), Tail(q), n, end)
  <2> DEFINE t == Append(s, Head(q))
             u == Tail(q)
  <2>1. Len(s) + 1 <= n /\ Head(q) = Len(s) + 1
    BY <1>1, <1>3, <1>5
  <2>2. Len(t) = Len(s) + 1 /\ Len(u) = Len(q) - 1
    BY <1>1
  <2>3. \A i \in 1..Len(s) : t[i] = s[i]
    BY <1>1
  <2>4. t[Len(s) + 1] = Len(s) + 1
    BY <1>1, <2>1
  <2>5. \A i \in 1..Len(u) : u[i] = q[i + 1]
    BY <1>1
  <2> HIDE DEF t, u
  <2>6. ASSUME NEW i \in 1..Len(t) PROVE t[i] = i
    <3>1. i \in 1..Len(s) \/ i = Len(s) + 1
      BY ONLY <1>1, <2>2, i \in 1..Len(t)
    <3> QED
      BY ONLY <1>2, <2>3, <2>4, <3>1
  <2>7. ASSUME NEW i \in 1..Len(u)
        PROVE  /\ Len(t) + i <= n => u[i] = Len(t) + i
               /\ Len(t) + i > n => u[i] = EOF
    <3>1. i + 1 \in 1..Len(q) /\ Len(s) + (i + 1) = Len(t) + i
      BY <1>1, <2>2
    <3>2. /\ Len(s) + (i + 1) <= n => q[i + 1] = Len(s) + (i + 1)
          /\ Len(s) + (i + 1) > n => q[i + 1] = EOF
      BY <1>2, <3>1
    <3> QED
      BY <2>5, <3>1, <3>2
  <2>8. Len(t) <= n /\ Len(t) + Len(u) = n + end
    <3>1. Len(s) + Len(q) = n + end /\ Len(s) \in Nat /\ Len(q) \in Nat
      BY <1>1, <1>2
    <3> QED
      BY <2>1, <2>2, <3>1
  <2>9. InOrder(t, u, n, end)
    BY <2>6, <2>7, <2>8 DEF InOrder
  <2> QED
    BY <2>9 DEF t, u
<1> QED
  BY <1>4, <1>5

\* The connection appends the next chunk, or the end marker.
LEMMA PutInOrder ==
    ASSUME NEW s \in Seq(Nat), NEW q \in Seq(Nat), NEW n \in Nat, InOrder(s, q, n, 0)
    PROVE  /\ InOrder(s, Append(q, n + 1), n + 1, 0)
           /\ InOrder(s, Append(q, EOF), n, 1)
<1>1. Len(s) \in Nat /\ Len(q) \in Nat
  OBVIOUS
<1>2. /\ Len(s) <= n /\ Len(s) + Len(q) = n
      /\ \A i \in 1..Len(s) : s[i] = i
      /\ \A i \in 1..Len(q) : q[i] = Len(s) + i
  BY <1>1 DEF InOrder
<1>0. Len(s) + Len(q) = n
  BY <1>2
<1>3. ASSUME NEW c \in Nat
      PROVE  /\ Len(Append(q, c)) = Len(q) + 1
             /\ Append(q, c)[Len(q) + 1] = c
             /\ \A i \in 1..Len(q) : Append(q, c)[i] = q[i]
  BY <1>1
<1>4. InOrder(s, Append(q, n + 1), n + 1, 0)
  <2> DEFINE u == Append(q, n + 1)
  <2>1. /\ Len(u) = Len(q) + 1 /\ u[Len(q) + 1] = n + 1
        /\ \A i \in 1..Len(q) : u[i] = q[i]
    BY <1>3
  <2> HIDE DEF u
  <2>2. ASSUME NEW i \in 1..Len(u) PROVE u[i] = Len(s) + i
    <3>1. CASE i = Len(q) + 1
      <4>1. u[i] = n + 1
        BY <2>1, <3>1
      <4>2. n + 1 = Len(s) + (Len(q) + 1)
        BY <1>0, <1>1
      <4> QED
        BY <3>1, <4>1, <4>2
    <3>2. CASE i # Len(q) + 1
      <4>1. i \in 1..Len(q)
        BY <1>1, <2>1, <3>2
      <4> QED
        BY <1>2, <2>1, <4>1
    <3> QED
      BY <3>1, <3>2
  <2>a. Len(u) = Len(q) + 1
    BY <2>1
  <2>3. \A i \in 1..Len(u) : ~(Len(s) + i > n + 1)
    BY <1>0, <1>1, <2>a
  <2>b. \A x, y, z, m \in Nat :
            x + y = m /\ z = y + 1 => x <= m + 1 /\ x + z = (m + 1) + 0
    OBVIOUS
  <2>c. Len(s) \in Nat /\ Len(q) \in Nat /\ Len(u) \in Nat /\ n \in Nat
    BY <1>1, <2>a
  <2>4. Len(s) <= n + 1 /\ Len(s) + Len(u) = (n + 1) + 0
    BY ONLY <1>0, <2>a, <2>b, <2>c
  <2>5. InOrder(s, u, n + 1, 0)
    BY <1>2, <2>2, <2>3, <2>4 DEF InOrder
  <2> QED
    BY <2>5 DEF u
<1>5. InOrder(s, Append(q, EOF), n, 1)
  <2> DEFINE u == Append(q, EOF)
  <2>1. /\ Len(u) = Len(q) + 1 /\ u[Len(q) + 1] = EOF
        /\ \A i \in 1..Len(q) : u[i] = q[i]
    BY <1>3 DEF EOF
  <2> HIDE DEF u
  <2>2. ASSUME NEW i \in 1..Len(u)
        PROVE  /\ Len(s) + i <= n => u[i] = Len(s) + i
               /\ Len(s) + i > n => u[i] = EOF
    <3>1. CASE i = Len(q) + 1
      BY <1>0, <1>1, <2>1, <3>1
    <3>2. CASE i # Len(q) + 1
      <4>1. i \in 1..Len(q) /\ ~(Len(s) + i > n)
        BY <1>0, <1>1, <2>1, <3>2
      <4> QED
        BY <1>2, <2>1, <4>1
    <3> QED
      BY <3>1, <3>2
  <2>a. Len(u) = Len(q) + 1
    BY <2>1
  <2>b. \A x, y, z, m \in Nat : x + y = m /\ z = y + 1 => x + z = m + 1
    OBVIOUS
  <2>c. Len(s) \in Nat /\ Len(q) \in Nat /\ Len(u) \in Nat /\ n \in Nat
    BY <1>1, <2>a
  <2>3. Len(s) + Len(u) = n + 1
    BY ONLY <1>0, <2>a, <2>b, <2>c
  <2>4. InOrder(s, u, n, 1)
    BY <1>2, <2>2, <2>3 DEF InOrder
  <2> QED
    BY <2>4 DEF u
<1> QED
  BY <1>4, <1>5

\* What the body of a request is made of.
LEMMA BodyTypes ==
    ASSUME TypeOK, NEW r \in Requests
    PROVE  seen[r] \in Seq(Nat) /\ queue[r] \in Seq(Nat) /\ arrived[r] \in Nat
BY ServingAssumption DEF TypeOK, TypeBody

\* receive() keeps the order, and takes the body for complete only when it is.
LEMMA TakeChunk ==
    ASSUME TypeOK, NEW r \in Requests, ReceiveChunk(r), Whole(r),
           phase[r] = "read" => finished[r]
    PROVE  /\ bodyEnd'[r] = "no" => Whole(r)'
           /\ bodyEnd'[r] = "complete" =>
                phase[r] = "read" /\ Len(seen[r]) = arrived[r] /\ seen'[r] = seen[r]
<1> DEFINE c == Head(queue[r])
           end == IF phase[r] = "read" THEN 1 ELSE 0
<1>1. /\ queue'[r] = Tail(queue[r]) /\ queue[r] # <<>>
      /\ bodyEnd'[r] = Message(r, c)
      /\ seen'[r] = IF Message(r, c) = "no" THEN Append(seen[r], c) ELSE seen[r]
      /\ arrived' = arrived /\ phase' = phase
  BY DEF TypeOK, TypeBody, ReceiveChunk
<1>2. end \in 0..1 /\ (end = 1 <=> phase[r] = "read")
  OBVIOUS
<1>3. InOrder(seen[r], queue[r], arrived[r], end)
  BY DEF Whole
<1> HIDE DEF end
<1>4. /\ c = EOF => end = 1 /\ Len(seen[r]) = arrived[r]
      /\ c # EOF => InOrder(Append(seen[r], c), Tail(queue[r]), arrived[r], end)
  BY <1>1, <1>2, <1>3, BodyTypes, TakeInOrder
<1>5. ASSUME bodyEnd'[r] = "complete"
      PROVE  phase[r] = "read" /\ Len(seen[r]) = arrived[r] /\ seen'[r] = seen[r]
  <2>1. c = EOF
    BY <1>1, <1>5 DEF Message
  <2> QED
    BY <1>1, <1>2, <1>4, <1>5, <2>1
<1>6. ASSUME bodyEnd'[r] = "no" PROVE Whole(r)'
  <2>1. c # EOF
    BY <1>1, <1>2, <1>4, <1>6 DEF Message
  <2>2. InOrder(seen'[r], queue'[r], arrived'[r], end)
    BY <1>1, <1>4, <1>6, <2>1
  <2> QED
    BY <1>1, <2>2 DEF Whole, end
<1> QED
  BY <1>5, <1>6

\* What the connection puts into the queue keeps it whole.
LEMMA PutChunk ==
    ASSUME TypeOK, NEW r \in Requests, Whole(r), phase[r] = "reading",
           DataReceived(r) \/ Finish(r)
    PROVE  Whole(r)'
<1>1. InOrder(seen[r], queue[r], arrived[r], 0)
  BY DEF Whole
<1>2. /\ InOrder(seen[r], Append(queue[r], arrived[r] + 1), arrived[r] + 1, 0)
      /\ InOrder(seen[r], Append(queue[r], EOF), arrived[r], 1)
  BY <1>1, BodyTypes, PutInOrder
<1>3. seen' = seen
  BY DEF DataReceived, Finish
<1>4. CASE DataReceived(r)
  <2>1. /\ queue'[r] = Append(queue[r], arrived[r] + 1) /\ arrived'[r] = arrived[r] + 1
        /\ phase' = phase
    BY <1>4 DEF DataReceived, TypeOK, TypeBody
  <2> QED
    BY <1>2, <1>3, <2>1 DEF Whole
<1>5. CASE Finish(r)
  <2>1. arrived' = arrived
    BY <1>5 DEF Finish
  <2>2. \/ queue'[r] = Append(queue[r], EOF) /\ phase'[r] = "read"
        \/ queue'[r] = queue[r] /\ phase'[r] = "broken"
    BY <1>5 DEF Finish, TypeOK, TypeBody
  <2> QED
    BY <1>1, <1>2, <1>3, <2>1, <2>2 DEF Whole
<1> QED
  BY <1>4, <1>5

\* The body of the stepping request.
LEMMA BodyStep ==
    ASSUME TypeOK, NEW r \in Requests, RequestStep(r), BodyInv(r)
    PROVE  BodyInv(r)'
<1> USE DEF TypeOK, TypeTask, TypeConn, TypeBody
<1>1. CASE DataReceived(r)
  <2>1. phase[r] = "reading" /\ Whole(r)
    BY <1>1 DEF DataReceived, BodyInv
  <2>2. Whole(r)'
    BY <1>1, <2>1, PutChunk
  <2>3. UNCHANGED <<phase, finished, canceled, bodyEnd, wired, task>>
    BY <1>1 DEF DataReceived, connVars
  <2> QED
    BY <2>1, <2>2, <2>3 DEF BodyInv
<1>2. CASE Finish(r)
  <2>1. phase[r] = "reading" /\ Whole(r) /\ bodyEnd[r] = "no" /\ ~canceled[r]
    BY <1>2 DEF Finish, BodyInv
  <2>2. phase'[r] \in {"read", "broken"} /\ UNCHANGED <<canceled, bodyEnd, task>>
    BY <1>2 DEF Finish
  <2>3. Whole(r)'
    BY <1>2, <2>1, <2>2, PutChunk
  <2>4. finished'[r]
    BY <1>2 DEF Finish
  <2>5. wired'[r] => phase'[r] = "read"
    BY <1>2, <2>1 DEF Finish, BodyInv
  <2> QED
    BY <2>1, <2>2, <2>3, <2>4, <2>5 DEF BodyInv
<1>3. CASE AbortBody(r)
  <2>1. phase[r] = "reading" /\ bodyEnd[r] = "no" /\ ~wired[r]
    BY <1>3 DEF AbortBody, BodyInv
  <2>2. phase'[r] = "aborted" /\ canceled'[r] /\ UNCHANGED <<bodyEnd, wired, task>>
    BY <1>3 DEF AbortBody
  <2> QED
    BY <2>1, <2>2 DEF BodyInv
<1>4. CASE CloseNoticed(r)
  <2>1. wired[r] /\ ~wired'[r] /\ UNCHANGED <<phase, finished, bodyEnd, task, queue, seen, arrived>>
    BY <1>4 DEF CloseNoticed
  <2>2. phase[r] = "read"
    BY <2>1 DEF BodyInv
  <2>3. Whole(r)' = Whole(r)
    BY <2>1 DEF Whole
  <2> QED
    BY <2>1, <2>2, <2>3 DEF BodyInv
<1>5. CASE ReceiveChunk(r)
  <2>1. /\ bodyEnd[r] = "no" /\ task'[r] = "running" /\ task[r] = "receiving"
        /\ UNCHANGED <<phase, finished, canceled, wired, arrived>>
    BY <1>5 DEF ReceiveChunk, Active, BodyInv, connVars
  <2>2. CASE phase[r] = "aborted"
    <3>1. bodyEnd'[r] = "disconnect"
      BY <1>5, <2>2 DEF ReceiveChunk, Message, BodyInv
    <3> QED
      BY <2>1, <2>2, <3>1 DEF BodyInv
  <2>3. CASE phase[r] # "aborted"
    <3>1. Whole(r)
      BY <2>1, <2>3 DEF BodyInv
    <3>0. phase[r] = "read" => finished[r]
      BY DEF BodyInv
    <3>2. /\ bodyEnd'[r] = "no" => Whole(r)'
          /\ bodyEnd'[r] = "complete" =>
               phase[r] = "read" /\ Len(seen[r]) = arrived[r] /\ seen'[r] = seen[r]
      BY <1>5, <3>0, <3>1, TakeChunk
    <3>3. phase[r] = "reading" => bodyEnd'[r] = "no"
      BY <1>5 DEF ReceiveChunk, Message, BodyInv
    <3>4. \A i \in 1..Len(seen[r]) : seen[r][i] = i
      BY <3>1 DEF Whole, InOrder
    <3> QED
      BY <2>1, <2>3, <3>2, <3>3, <3>4 DEF BodyInv
  <2> QED
    BY <2>2, <2>3
<1>6. CASE /\ UNCHANGED <<phase, finished, canceled, bodyEnd, queue, seen, arrived>>
           /\ wired'[r] => wired[r]
           /\ task'[r] = "receiving" => task[r] = "receiving" \/ bodyEnd[r] = "no"
  <2>1. Whole(r)' = Whole(r)
    BY <1>6 DEF Whole
  <2> QED
    BY <1>6, <2>1 DEF BodyInv
<1>7. CASE HeadersReceived(r) \/ ClientClose(r)
  BY <1>6, <1>7 DEF HeadersReceived, ClientClose, bodyVars, connVars
<1>8. CASE Process(r) /\ ~ReceiveChunk(r)
  <2>1. UNCHANGED <<phase, finished, canceled, bodyEnd, queue, seen, arrived, wired>>
    BY <1>8 DEF Process, ProcessRefuse, ProcessRaise, ProcessStart, Receive, SendStart,
        SendBody, StartLineWritten, SendLast, SendChunk, ChunkWritten, AppReturn,
        CancelDelivered, bodyVars, connVars
  <2>2. task'[r] = "receiving" => task[r] = "receiving" \/ bodyEnd[r] = "no"
    BY <1>8 DEF Process, ProcessRefuse, ProcessRaise, ProcessStart, Receive, SendStart,
        SendBody, StartLineWritten, SendLast, SendChunk, ChunkWritten, AppReturn,
        CancelDelivered
  <2> QED
    BY <1>6, <2>1, <2>2
<1>9. CASE Serve(r)
  <2>1. UNCHANGED <<phase, finished, canceled, bodyEnd, queue, seen, arrived>>
    BY <1>9 DEF Serve, ServeStart, ServeInterrupted, ServeCanceled, ServeAnswer,
        ServeStreamed, ServeWritten, bodyVars
  <2>2. wired'[r] => wired[r]
    BY <1>9 DEF Serve, ServeStart, ServeInterrupted, ServeCanceled, ServeAnswer,
        ServeStreamed, ServeWritten, Conclude, connVars
  <2>3. task'[r] = "receiving" => task[r] = "receiving"
    BY <1>9 DEF Serve, ServeStart, ServeInterrupted, ServeCanceled, ServeAnswer,
        ServeStreamed, ServeWritten
  <2> QED
    BY <1>6, <2>1, <2>2, <2>3
<1> QED
  BY <1>1, <1>2, <1>3, <1>4, <1>5, <1>7, <1>8, <1>9 DEF RequestStep, Tornado

-----------------------------------------------------------------------------
\* All of it is inductive.
LEMMA EndIsInvariant == Spec => []EndInv
<1>1. Init => EndInv
  <2> SUFFICES ASSUME Init, NEW r \in Requests
               PROVE  ClosedInv(r) /\ RecordInv(r) /\ ServedInv(r) /\ BodyInv(r)
    BY DEF EndInv
  <2>1. ClosedInv(r) /\ RecordInv(r) /\ ServedInv(r)
    BY DEF Init, ClosedInv, RecordInv, ServedInv
  <2>2. Whole(r)
    BY DEF Init, Whole, InOrder
  <2>3. BodyInv(r)
    BY <2>2 DEF Init, BodyInv
  <2> QED
    BY <2>1, <2>3
<1>2. TypeOK /\ OnceInv /\ EndInv /\ [Next]_vars => EndInv'
  <2>1. ASSUME TypeOK, OnceInv, EndInv, Next PROVE EndInv'
    <3>1. PICK r \in Requests : RequestStep(r)
      BY <2>1 DEF Next
    <3>2. ASSUME NEW q \in Requests
          PROVE  ClosedInv(q)' /\ RecordInv(q)' /\ ServedInv(q)' /\ BodyInv(q)'
      <4>1. CASE q = r
        BY <2>1, <3>1, <4>1, ClosedStep, RecordStep, ServedStep, BodyStep
        DEF EndInv, OnceInv
      <4>2. CASE q # r
        BY <2>1, <3>1, <4>2, OthersEnd DEF EndInv
      <4> QED
        BY <4>1, <4>2
    <3> QED
      BY <3>2 DEF EndInv
  <2>2. ASSUME EndInv, UNCHANGED vars PROVE EndInv'
    <3>1. \A r \in Requests : Whole(r)' = Whole(r)
      BY <2>2 DEF vars, Whole
    <3> QED
      BY <2>2, <3>1 DEF vars, EndInv, ClosedInv, RecordInv, ServedInv, BodyInv
  <2> QED
    BY <2>1, <2>2
<1> QED
  BY <1>1, <1>2, SlotsAreSafe, OnceIsInvariant, PTL DEF Spec

\* Whichever way serve_tornado_request ends, the request is in the access log
\* and a client still connected has its answer; the two exceptions are a body
\* that was cut off and a process_request that raised.
THEOREM RequestsAreLogged == Spec => []ServedIsLogged
<1>1. TypeOK /\ OnceInv /\ EndInv => ServedIsLogged
  <2> SUFFICES ASSUME TypeOK, OnceInv, EndInv, NEW r \in Requests, serve[r] = "done",
                      task[r] # "raised", phase[r] # "aborted"
               PROVE  Len(logged[r]) = 1 /\ (open[r] => wire[r] = 1)
    BY DEF ServedIsLogged
  <2>1. logged[r] # <<>> /\ (open[r] => wire[r] = 1)
    BY DEF EndInv, ServedInv
  <2>2. logged[r] \in Seq(Statuses) /\ Len(logged[r]) <= 1
    BY DEF OnceInv, LogInv, TypeOK, TypeObs
  <2>3. Len(logged[r]) \in Nat /\ Len(logged[r]) # 0 /\ Len(logged[r]) <= 1
    BY <2>1, <2>2
  <2>4. \A n \in Nat : n # 0 /\ n <= 1 => n = 1
    OBVIOUS
  <2>5. Len(logged[r]) = 1
    BY <2>3, <2>4
  <2> QED
    BY <2>1, <2>5
<1> QED
  BY <1>1, SlotsAreSafe, OnceIsInvariant, EndIsInvariant, PTL

\* The status in the access log is the one the telemetry span reports, though
\* the response may change after the integrations were given it.
THEOREM LogAndTelemetryAgree == Spec => []LogMatchesTelemetry
<1>1. EndInv => LogMatchesTelemetry
  BY DEF EndInv, RecordInv, LogMatchesTelemetry
<1> QED
  BY <1>1, EndIsInvariant, PTL

\* For bodies and queues of any length, the application takes a body for
\* complete only if it has seen all of it, in order (receive, data_received,
\* finish).
THEOREM BodiesAreWhole == Spec => []BodyNotTruncated
<1>1. TypeOK /\ EndInv => BodyNotTruncated
  <2> SUFFICES ASSUME TypeOK, EndInv, NEW r \in Requests, bodyEnd[r] = "complete"
               PROVE  phase[r] = "read" /\ seen[r] = [i \in 1..arrived[r] |-> i]
    BY DEF BodyNotTruncated
  <2>1. /\ phase[r] = "read" /\ Len(seen[r]) = arrived[r]
        /\ \A i \in 1..arrived[r] : seen[r][i] = i
    BY DEF EndInv, BodyInv
  <2>2. seen[r] = [i \in 1..Len(seen[r]) |-> seen[r][i]]
    BY BodyTypes
  <2> QED
    BY <2>1, <2>2
<1> QED
  BY <1>1, SlotsAreSafe, EndIsInvariant, PTL

\* After the close callback has reported a request, no step of its task, of the
\* application or of serve_tornado_request reports anything else.
THEOREM ClosedStaysClosed == Spec => ClosedIsFinal
<1>1. TypeOK /\ OnceInv /\ EndInv /\ [Next]_vars =>
        [\A r \in Requests :
            dto[r] = "closed" => /\ wire'[r] = wire[r]
                                 /\ dto'[r] = "closed"
                                 /\ logged'[r] = logged[r]]_vars
  <2> SUFFICES ASSUME TypeOK, OnceInv, EndInv, Next, NEW r \in Requests, dto[r] = "closed"
               PROVE  wire'[r] = wire[r] /\ dto'[r] = "closed" /\ logged'[r] = logged[r]
    OBVIOUS
  <2>1. PICK q \in Requests : RequestStep(q)
    BY DEF Next
  <2>2. CASE q = r
    BY <2>1, <2>2, ClosedStep DEF OnceInv, EndInv
  <2>3. CASE q # r
    BY <2>1, <2>3, Frame
  <2> QED
    BY <2>2, <2>3
<1> QED
  BY <1>1, SlotsAreSafe, OnceIsInvariant, EndIsInvariant, PTL DEF Spec, ClosedIsFinal

=============================================================================
