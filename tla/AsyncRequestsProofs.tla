------------------------ MODULE AsyncRequestsProofs --------------------------
(***************************************************************************)
(* Proofs about asynchronous requests, for any number of clients, any      *)
(* limit and any number of requests.                                       *)
(***************************************************************************)
EXTENDS AsyncRequestsProps, TLAPS, FiniteSetTheorems

(* Who has been counted: a client between handlerStarted and the end of    *)
(* its call, and a handler from its start, for ever.                       *)
Callers == {c \in Client : call[c] \in {"create", "thread", "uncount"}}
Started == {id \in AsyncId : handler[id] # "none"}
Counting == active = Cardinality(Callers) + Cardinality(Started)

(* The identifiers up to the counter are the requests. *)
Numbered == \A id \in AsyncId : Fresh(id) <=> id > counter

(* A client that is to start a thread, or to answer, is alone with its new *)
(* request.                                                                *)
OneStarter == \A c \in Client : call[c] \in {"thread", "answer"} =>
    /\ asked[c] \in AsyncId \ told
    /\ call[c] = "thread" => state[asked[c]] = "InProcess"
    /\ handler[asked[c]] = "none" <=> call[c] = "thread"
    /\ \A d \in Client :
          call[d] \in {"thread", "answer"} /\ asked[d] = asked[c] => d = c

(* A handler works on a request in process and leaves a finished one; what *)
(* was told has one.                                                       *)
HandlersWork == \A id \in AsyncId :
    /\ handler[id] \in {"work", "complete", "set"} => state[id] = "InProcess"
    /\ handler[id] = "ended" => Final(id)
    /\ id \in told => handler[id] # "none"

(* A response is stored before its request is finished. *)
StoredFirst == service = "erase" /\ phase # "destroyed" =>
    \A id \in AsyncId :
        Final(id) \/ handler[id] \in {"complete", "set"} => id \in responses

AnswerStored == \A c \in Client : call[c] = "response" =>
    service = "erase" /\ asked[c] \in AsyncId /\ Final(asked[c])

(* The pool is empty before the destructor begins. *)
PoolJoined ==
    /\ phase \in {"destroying", "destroyed"} => \A c \in Client : call[c] = "none"
    /\ phase = "destroyed" => active = 0

IInv ==
    /\ AsyncTypeOK
    /\ Counting
    /\ Numbered
    /\ OneStarter
    /\ HandlersWork
    /\ StoredFirst
    /\ AnswerStored
    /\ PoolJoined

(* Identifiers are numbers, and the three kinds of status differ. *)
LEMMA Statuses ==
    /\ AsyncId = 1 .. MaxRequests
    /\ Table!RequestState = {"Absent", "InProcess"} \cup FinalStatus
    /\ "Absent" \notin FinalStatus
    /\ "InProcess" \notin FinalStatus
    /\ \A of : Completion(of) \subseteq FinalStatus
BY DEF AsyncId, Table!AsyncId, Table!RequestState, Table!Absent,
       Table!InProcess, FinalStatus, Completion

(* The two sets that are counted are finite. *)
LEMMA FiniteCounts ==
    /\ IsFiniteSet(Callers)
    /\ IsFiniteSet(Started)
    /\ Cardinality(Callers) \in Nat
    /\ Cardinality(Started) \in Nat
<1>1. IsFiniteSet(AsyncId)
    BY FS_Interval, AsyncAssumption, Statuses
<1>2. IsFiniteSet(Callers) /\ IsFiniteSet(Started)
    BY <1>1, FS_Subset, AsyncAssumption DEF Callers, Started
<1> QED
    BY <1>2, FS_CardinalityType

(* Nothing is counted at first. *)
LEMMA InitInv == Init => IInv
<1> SUFFICES ASSUME Init PROVE IInv
    OBVIOUS
<1>1. AsyncTypeOK
  <2>1. state \in [AsyncId -> Table!RequestState]
      BY Statuses DEF Init
  <2>2. counter \in 0 .. MaxRequests
      BY AsyncAssumption DEF Init
  <2>3. handler \in [AsyncId -> {"none", "work", "complete", "set", "ended"}]
      BY DEF Init
  <2> QED
      BY <2>1, <2>2, <2>3 DEF Init, AsyncTypeOK
<1>2. Counting
  <2>1. Callers = {} /\ Started = {}
      BY DEF Init, Callers, Started
  <2> QED
      BY <2>1, FS_EmptySet DEF Counting, Init
<1>3. Numbered /\ OneStarter /\ HandlersWork /\ StoredFirst /\ AnswerStored
      /\ PoolJoined
    BY Statuses
       DEF Init, Numbered, OneStarter, HandlersWork, StoredFirst, AnswerStored,
           PoolJoined, Fresh, Final
<1> QED
    BY <1>1, <1>2, <1>3 DEF IInv

-----------------------------------------------------------------------------
(* The count stays right: one lemma for the steps that touch it.           *)

(* A step that changes neither set nor the counter of handlers. *)
LEMMA CountUntouched ==
    ASSUME Counting, Callers' = Callers, Started' = Started, active' = active
    PROVE  Counting'
BY DEF Counting

(* A client is counted before it creates its request. *)
LEMMA CountUp ==
    ASSUME IInv, NEW c \in Client, handlerStarted(c)
    PROVE  Counting'
<1>1. Callers' = Callers \cup {c} /\ c \notin Callers /\ Started' = Started
    BY DEF IInv, AsyncTypeOK, handlerStarted, ClientGoes, Callers, Started
<1>2. Cardinality(Callers') = Cardinality(Callers) + 1
    BY <1>1, FS_AddElement, FiniteCounts
<1> QED
    BY <1>1, <1>2, FiniteCounts DEF Counting, IInv, handlerStarted

(* The handler takes over from its client. *)
LEMMA CountPassed ==
    ASSUME IInv, NEW c \in Client, StartThread(c)
    PROVE  Counting'
<1>1. asked[c] \in AsyncId /\ handler[asked[c]] = "none"
    BY DEF IInv, OneStarter, StartThread, ClientGoes
<1>2. Callers' = Callers \ {c} /\ c \in Callers
    BY DEF IInv, AsyncTypeOK, StartThread, ClientGoes, Callers
<1>3. Started' = Started \cup {asked[c]} /\ asked[c] \notin Started
    BY <1>1 DEF IInv, AsyncTypeOK, StartThread, HandlerGoes, Started
<1>4. Cardinality(Callers') = Cardinality(Callers) - 1
    BY <1>2, FS_RemoveElement, FiniteCounts
<1>5. Cardinality(Started') = Cardinality(Started) + 1
    BY <1>3, FS_AddElement, FiniteCounts
<1> QED
    BY <1>4, <1>5, FiniteCounts DEF Counting, IInv, StartThread

(* A client without a thread takes itself off the count. *)
LEMMA CountDown ==
    ASSUME IInv, NEW c \in Client, handlerCompleted(c)
    PROVE  Counting' /\ active' \in Nat
<1>1. Callers' = Callers \ {c} /\ c \in Callers /\ Started' = Started
    BY DEF IInv, AsyncTypeOK, handlerCompleted, ClientGoes, Callers, Started
<1>2. Cardinality(Callers') = Cardinality(Callers) - 1
    BY <1>1, FS_RemoveElement, FiniteCounts
<1>3. Cardinality(Callers) # 0
    BY <1>1, FS_EmptySet, FiniteCounts
<1> QED
    BY <1>1, <1>2, <1>3, FiniteCounts DEF Counting, IInv, handlerCompleted

(* Creating a request changes none of the counted. *)
LEMMA CountCreating ==
    ASSUME IInv, NEW c \in Client, createRequest(c)
    PROVE  Counting'
<1>1. Callers' = Callers /\ Started' = Started
    BY DEF IInv, AsyncTypeOK, createRequest, ClientGoes, Callers, Started
<1> QED
    BY <1>1 DEF IInv, Counting, createRequest

-----------------------------------------------------------------------------
(* The rest of the invariant, by action. *)

(* One identifier more is told. *)
LEMMA AnswerIsId ==
    ASSUME NEW ids, NEW toldBefore \in SUBSET ids, NEW id \in ids
    PROVE  toldBefore \cup {id} \subseteq ids
OBVIOUS

(* What a step must show besides the count. *)
Others ==
    /\ AsyncTypeOK
    /\ Numbered
    /\ OneStarter
    /\ HandlersWork
    /\ StoredFirst
    /\ AnswerStored
    /\ PoolJoined

(* Steps of a call. *)
LEMMA ClientInv ==
    ASSUME IInv, NEW c \in Client, Perform(c) \/ ClientStep(c)
    PROVE  IInv'
<1> USE Statuses, AsyncAssumption
<1> USE DEF IInv, AsyncTypeOK, Numbered, OneStarter, HandlersWork, StoredFirst,
            AnswerStored, PoolJoined, ClientGoes, HandlerGoes, Fresh, Final,
            Others, Callers, Started, NoId
<1>1. CASE Perform(c)
  <2>1. Others'
      BY <1>1 DEF Perform
  <2>2. Callers' = Callers /\ Started' = Started /\ active' = active
      BY <1>1 DEF Perform
  <2> QED
      BY <2>1, <2>2, CountUntouched
<1>2. CASE handlerStarted(c)
  <2>1. Others'
      BY <1>2 DEF handlerStarted
  <2> QED
      BY <1>2, <2>1, CountUp
<1>3. CASE createRequest(c)
  <2>1. AsyncTypeOK' /\ Numbered'
      BY <1>3 DEF createRequest
  <2>2. OneStarter'
      BY <1>3 DEF createRequest
  <2>3. HandlersWork' /\ StoredFirst' /\ AnswerStored' /\ PoolJoined'
      BY <1>3 DEF createRequest
  <2> QED
      BY <1>3, <2>1, <2>2, <2>3, CountCreating
<1>4. CASE StartThread(c)
  <2>1. AsyncTypeOK'
      BY <1>4 DEF StartThread
  <2>5. Numbered'
      BY <1>4 DEF StartThread
  <2>2. OneStarter'
      BY <1>4 DEF StartThread
  <2>3. HandlersWork'
      BY <1>4 DEF StartThread
  <2>4. StoredFirst' /\ AnswerStored' /\ PoolJoined'
      BY <1>4 DEF StartThread
  <2> QED
      BY <1>4, <2>1, <2>5, <2>2, <2>3, <2>4, CountPassed
<1>8. CASE Answer(c)
  <2>1. asked[c] \in AsyncId
      BY <1>8 DEF Answer
  <2>2. AsyncTypeOK' /\ Numbered'
    <3>1. call' \in [Client -> {"none", "start", "create", "thread", "answer",
                               "uncount", "response"}]
        BY <1>8 DEF Answer
    <3>5. asked' \in [Client -> AsyncId \cup {NoId}]
        BY <1>8 DEF Answer
    <3>6. told' \subseteq AsyncId
      <4>1. told' = told \cup {asked[c]}
          BY <1>8 DEF Answer
      <4>2. told \subseteq AsyncId
          OBVIOUS
      <4> QED
          BY <2>1, <4>1, <4>2, AnswerIsId
    <3>2. /\ service' = service /\ counter' = counter /\ state' = state
          /\ responses' = responses /\ active' = active /\ ignoring' = ignoring
          /\ handler' = handler /\ phase' = phase
        BY <1>8 DEF Answer
    <3>3. AsyncTypeOK'
        BY <3>1, <3>5, <3>6, <3>2
    <3>4. Numbered'
        BY <3>2
    <3> QED
        BY <3>3, <3>4
  <2>5. OneStarter'
    <3> SUFFICES ASSUME NEW d \in Client, call'[d] \in {"thread", "answer"}
                 PROVE  /\ d # c /\ call'[d] = call[d] /\ asked'[d] = asked[d]
                        /\ asked[d] \in AsyncId \ told /\ asked[d] # asked[c]
        BY <1>8 DEF Answer
    <3>1. d # c /\ call'[d] = call[d] /\ asked'[d] = asked[d]
        BY <1>8 DEF Answer
    <3>2. asked[d] # asked[c]
        BY <1>8, <3>1 DEF Answer
    <3> QED
        BY <3>1, <3>2
  <2>3. HandlersWork' /\ StoredFirst' /\ AnswerStored' /\ PoolJoined'
      BY <1>8 DEF Answer
  <2>4. Callers' = Callers /\ Started' = Started /\ active' = active
      BY <1>8 DEF Answer
  <2> QED
      BY <2>2, <2>5, <2>3, <2>4, CountUntouched
<1>5. CASE Throws(c)
  <2>1. Others'
      BY <1>5 DEF Throws
  <2>2. Callers' = Callers /\ Started' = Started /\ active' = active
      BY <1>5 DEF Throws
  <2> QED
      BY <2>1, <2>2, CountUntouched
<1>6. CASE handlerCompleted(c)
  <2>1. active' \in Nat
      BY <1>6, CountDown
  <2>2. Others'
      BY <1>6, <2>1 DEF handlerCompleted
  <2> QED
      BY <1>6, <2>2, CountDown
<1>7. CASE getResponse(c)
  <2>1. Others'
      BY <1>7 DEF getResponse
  <2>2. Callers' = Callers /\ Started' = Started /\ active' = active
      BY <1>7 DEF getResponse
  <2> QED
      BY <2>1, <2>2, CountUntouched
<1> QED
    BY <1>1, <1>2, <1>3, <1>4, <1>5, <1>6, <1>7, <1>8 DEF ClientStep

(* A client asks for the state of a request. *)
LEMMA AskInv ==
    ASSUME IInv, NEW c \in Client, NEW id \in AsyncId, AskState(c, id)
    PROVE  IInv'
<1> USE Statuses
<1>1. Others'
    BY DEF IInv, Others, AsyncTypeOK, Numbered, OneStarter, HandlersWork,
           StoredFirst, AnswerStored, PoolJoined, ClientGoes, Fresh, Final,
           AskState
<1>2. Callers' = Callers /\ Started' = Started /\ active' = active
    BY DEF IInv, AsyncTypeOK, AskState, ClientGoes, Callers, Started
<1> QED
    BY <1>1, <1>2, CountUntouched DEF IInv, Others

(* Steps of a handler. *)
LEMMA HandlerInv ==
    ASSUME IInv, NEW id \in AsyncId, HandlerStep(id)
    PROVE  IInv'
<1> USE Statuses
<1>1. Callers' = Callers /\ Started' = Started /\ active' = active
    BY DEF IInv, AsyncTypeOK, HandlerStep, WorkEncoded, StoreResponse,
           FindRequest, SetState, HandlerGoes, Callers, Started
<1>2. Others'
  <2> USE DEF IInv, AsyncTypeOK, Numbered, OneStarter, HandlersWork,
              StoredFirst, AnswerStored, PoolJoined, HandlerGoes, Fresh, Final,
              Others
  <2>1. CASE WorkEncoded(id)
      BY <2>1 DEF WorkEncoded
  <2>2. CASE StoreResponse(id)
      BY <2>2 DEF StoreResponse
  <2>3. CASE FindRequest(id)
      BY <2>3 DEF FindRequest
  <2>4. CASE SetState(id)
      BY <2>4 DEF SetState
  <2> QED
      BY <2>1, <2>2, <2>3, <2>4 DEF HandlerStep
<1> QED
    BY <1>1, <1>2, CountUntouched DEF IInv, Others

(* The end of the service. *)
LEMMA EndInv ==
    ASSUME IInv, Stop \/ ignoreNewRequests \/ Destroy
    PROVE  IInv'
<1> USE Statuses
<1>1. Others'
  <2> USE DEF IInv, Others, AsyncTypeOK, Numbered, OneStarter, HandlersWork,
              StoredFirst, AnswerStored, PoolJoined, Fresh, Final
  <2>1. CASE Stop
      BY <2>1 DEF Stop
  <2>2. CASE ignoreNewRequests
      BY <2>2 DEF ignoreNewRequests
  <2>3. CASE Destroy
      BY <2>3 DEF Destroy
  <2> QED
      BY <2>1, <2>2, <2>3
<1>2. Callers' = Callers /\ Started' = Started /\ active' = active
    BY DEF Callers, Started, Stop, ignoreNewRequests, Destroy
<1> QED
    BY <1>1, <1>2, CountUntouched DEF IInv, Others

(* Every step keeps the invariant. *)
LEMMA StepInv == IInv /\ [Next]_vars => IInv'
<1> SUFFICES ASSUME IInv, [Next]_vars PROVE IInv'
    OBVIOUS
<1>1. CASE UNCHANGED vars
    BY <1>1 DEF vars, IInv, AsyncTypeOK, Counting, Numbered, OneStarter,
                HandlersWork, StoredFirst, AnswerStored, PoolJoined, Fresh,
                Final, Callers, Started
<1>2. CASE Next
    BY <1>2, ClientInv, AskInv, HandlerInv, EndInv DEF Next
<1> QED
    BY <1>1, <1>2

(* The invariant holds always, whatever the fairness. *)
LEMMA AlwaysInv == Spec => []IInv
BY InitInv, StepInv, PTL DEF Spec

-----------------------------------------------------------------------------
(* Counter, table, handlers and calls keep their types; the counter of     *)
(* handlers never wraps below zero.                                        *)
THEOREM AsyncTypeCorrect == Spec => []AsyncTypeOK
BY AlwaysInv, PTL DEF IInv

(* Whoever read a final status finds the response. *)
THEOREM ResponseBeforeFinish == Spec => []FinishedHasResponse
<1>1. IInv => FinishedHasResponse
    BY DEF IInv, StoredFirst, AnswerStored, PoolJoined, FinishedHasResponse
<1> QED
    BY <1>1, AlwaysInv, PTL

(* No handler refers to a dispatcher that is gone. *)
THEOREM HandlersEndFirst == Spec => []NoHandlerOutlives
<1>1. IInv => NoHandlerOutlives
  <2> SUFFICES ASSUME IInv, phase = "destroyed" PROVE Started = {}
      BY DEF NoHandlerOutlives, Started
  <2>1. Cardinality(Started) = 0
      BY FiniteCounts DEF IInv, PoolJoined, Counting
  <2> QED
      BY <2>1, FS_EmptySet, FiniteCounts
<1> QED
    BY <1>1, AlwaysInv, PTL

(* The destructor returns only where no request was ever accepted. *)
THEOREM DestructorWaits == Spec => []EndsOnlyUnused
<1>1. IInv => EndsOnlyUnused
  <2> SUFFICES ASSUME IInv, phase = "destroyed" PROVE told = {}
      BY DEF EndsOnlyUnused
  <2>1. Cardinality(Started) = 0
      BY FiniteCounts DEF IInv, PoolJoined, Counting
  <2>2. Started = {}
      BY <2>1, FS_EmptySet, FiniteCounts
  <2> QED
      BY <2>2 DEF IInv, AsyncTypeOK, HandlersWork, Started
<1> QED
    BY <1>1, AlwaysInv, PTL

(* Locks, counter and threads implement the table of requests. *)
THEOREM RequestsAreATable == Spec => ImplementsRequestTable
<1> USE Statuses
<1>1. Init => Table!Init
    BY DEF Init, Table!Init, Table!Absent, AsyncId
<1>2. IInv /\ [Next]_vars => [Table!Next]_<<state, told>>
  <2> SUFFICES ASSUME IInv, Next PROVE [Table!Next]_<<state, told>>
      BY DEF vars
  <2> USE DEF Table!Absent, Table!InProcess, Table!Next, AsyncId
  <2>1. ASSUME NEW c \in Client, createRequest(c)
        PROVE  Table!Create(counter + 1) /\ counter + 1 \in AsyncId
      BY <2>1 DEF createRequest, Table!Create, IInv, AsyncTypeOK, Numbered, Fresh
  <2>2. ASSUME NEW c \in Client, Answer(c)
        PROVE  Table!Tell(asked[c]) /\ asked[c] \in AsyncId
    <3>1. asked[c] \in AsyncId \ told /\ handler[asked[c]] # "none"
        BY <2>2 DEF Answer, ClientGoes, IInv, OneStarter
    <3>2. state[asked[c]] # "Absent"
        BY <3>1 DEF IInv, AsyncTypeOK, HandlersWork, Final
    <3> QED
        BY <2>2, <3>1, <3>2 DEF Answer, Table!Tell
  <2>3. ASSUME NEW id \in AsyncId, SetState(id)
        PROVE  Table!Finish(id)
    <3>1. state[id] = "InProcess"
        BY <2>3 DEF SetState, HandlerGoes, IInv, HandlersWork
    <3> QED
        BY <2>3, <3>1 DEF SetState, Table!Finish, Fresh
  <2>4. ASSUME NEW c \in Client,
               \/ Perform(c) \/ handlerStarted(c) \/ StartThread(c) \/ Throws(c)
               \/ handlerCompleted(c) \/ getResponse(c)
               \/ \E id \in AsyncId : AskState(c, id)
        PROVE  UNCHANGED <<state, told>>
      BY <2>4 DEF Perform, handlerStarted, StartThread, Throws, handlerCompleted,
                  getResponse, AskState
  <2>5. ASSUME NEW id \in AsyncId,
               WorkEncoded(id) \/ StoreResponse(id) \/ FindRequest(id)
        PROVE  UNCHANGED <<state, told>>
      BY <2>5 DEF WorkEncoded, StoreResponse, FindRequest
  <2>6. ASSUME Stop \/ ignoreNewRequests \/ Destroy
        PROVE  UNCHANGED <<state, told>>
      BY <2>6 DEF Stop, ignoreNewRequests, Destroy
  <2> QED
      BY <2>1, <2>2, <2>3, <2>4, <2>5, <2>6
         DEF Next, ClientStep, HandlerStep
<1> QED
    BY <1>1, <1>2, AlwaysInv, PTL DEF Spec, ImplementsRequestTable, Table!Spec

-----------------------------------------------------------------------------
(* Who is refused, who waits.                                              *)

(* The refusal needs a count that is not above the limit and a destructor  *)
(* that began, but the pool has ended its calls before it begins.          *)
NeverRefused == phase = "serving" => ~(limitAchieved /\ ~canPerformNewRequest)

(* The lock of the responses is held by one handler at most. *)
HoldsResponses(id) == service = "erase" /\ handler[id] \in {"complete", "set"}
OneHolder == \A i, j \in AsyncId : HoldsResponses(i) /\ HoldsResponses(j) => i = j

(* What a told request waits for: its own handler, or the one that holds   *)
(* the lock of the responses, which waits for nobody.                      *)
ToldIsAtWork ==
    \A id \in told : ~Final(id) =>
        \/ handler[id] = "work" /\ ResponseLockFree
        \/ \E holder \in AsyncId : handler[holder] \in {"complete", "set"}

(* However many handlers run, no request is ever refused: the comparison   *)
(* of limitAchieved is the wrong way round, and what it is combined with   *)
(* is not so while calls are taken.  m_activeThreadLimit limits nothing.   *)
THEOREM NobodyIsRefused == Spec => []NeverRefused
<1> DEFINE Accepting == phase = "serving" => ~ignoring
<1>1. Init => Accepting
    BY DEF Init
<1>2. Accepting /\ [Next]_vars => Accepting'
  <2> SUFFICES ASSUME Accepting, [Next]_vars PROVE Accepting'
      OBVIOUS
  <2>1. ASSUME UNCHANGED <<phase, ignoring>> PROVE Accepting'
      BY <2>1
  <2>2. ASSUME NEW c \in Client,
               Perform(c) \/ ClientStep(c) \/ \E id \in AsyncId : AskState(c, id)
        PROVE  Accepting'
      BY <2>1, <2>2
         DEF Perform, ClientStep, AskState, handlerStarted, createRequest, StartThread,
             Answer, Throws, handlerCompleted, getResponse
  <2>3. ASSUME NEW id \in AsyncId, HandlerStep(id)
        PROVE  Accepting'
      BY <2>1, <2>3 DEF HandlerStep, WorkEncoded, StoreResponse, FindRequest, SetState
  <2>4. CASE Stop \/ ignoreNewRequests \/ Destroy
      BY <2>4 DEF Stop, ignoreNewRequests, Destroy
  <2> QED
      BY <2>1, <2>2, <2>3, <2>4 DEF Next, vars
<1>3. Accepting => NeverRefused
    BY DEF NeverRefused, canPerformNewRequest
<1> QED
    BY <1>1, <1>2, <1>3, PTL DEF Spec

(* Handlers exclude each other from the end of their work to their end. *)
THEOREM OneHandlerHoldsResponses == Spec => []OneHolder
<1>1. Init => OneHolder
    BY DEF Init, OneHolder, HoldsResponses
<1>2. IInv /\ OneHolder /\ [Next]_vars => OneHolder'
  <2> SUFFICES ASSUME IInv, OneHolder, [Next]_vars PROVE OneHolder'
      OBVIOUS
  <2>1. service' = service /\ handler \in [AsyncId ->
            {"none", "work", "complete", "set", "ended"}]
      BY DEF IInv, AsyncTypeOK, Next, vars, Perform, ClientStep, AskState,
             handlerStarted, createRequest, StartThread, Answer, Throws, handlerCompleted,
             getResponse, HandlerStep, WorkEncoded, StoreResponse, FindRequest,
             SetState, Stop, ignoreNewRequests, Destroy
  <2>2. ASSUME \A id \in AsyncId : HoldsResponses(id)' => HoldsResponses(id)
        PROVE  OneHolder'
      BY <2>2 DEF OneHolder
  <2>3. CASE handler' = handler
      BY <2>1, <2>2, <2>3 DEF HoldsResponses
  <2>4. ASSUME NEW c \in Client, StartThread(c)
        PROVE  OneHolder'
      BY <2>1, <2>2, <2>4 DEF StartThread, HandlerGoes, HoldsResponses
  <2>5. ASSUME NEW id \in AsyncId, HandlerStep(id)
        PROVE  OneHolder'
    <3>1. CASE WorkEncoded(id)
        BY <2>1, <3>1 DEF WorkEncoded, OneHolder, HoldsResponses
    <3>2. CASE StoreResponse(id)
      <4>1. \A j \in AsyncId : ~HoldsResponses(j)
          BY <3>2 DEF StoreResponse, ResponseLockFree, HoldsResponses
      <4>2. \A j \in AsyncId : HoldsResponses(j)' => j = id
          BY <2>1, <3>2, <4>1 DEF StoreResponse, HandlerGoes, HoldsResponses
      <4> QED
          BY <4>2 DEF OneHolder
    <3>3. CASE FindRequest(id) \/ SetState(id)
        BY <2>1, <2>2, <3>3 DEF FindRequest, SetState, HandlerGoes, HoldsResponses
    <3> QED
        BY <2>5, <3>1, <3>2, <3>3 DEF HandlerStep
  <2> QED
      BY <2>3, <2>4, <2>5
         DEF Next, vars, Perform, ClientStep, AskState, handlerStarted, createRequest,
             Answer, Throws, handlerCompleted, getResponse, Stop, ignoreNewRequests, Destroy
<1> QED
    BY <1>1, <1>2, AlwaysInv, PTL DEF Spec

(* A request whose identifier was told is finished, or a handler can go on *)
(* that it waits for: the part of ToldIsFinished that does not speak of    *)
(* time.                                                                   *)
THEOREM ToldIsNeverStuck == Spec => []ToldIsAtWork
<1>1. IInv => ToldIsAtWork
  <2> SUFFICES ASSUME IInv, NEW id \in told, ~Final(id)
               PROVE  \/ handler[id] = "work" /\ ResponseLockFree
                      \/ \E holder \in AsyncId : handler[holder] \in {"complete", "set"}
      BY DEF ToldIsAtWork
  <2>1. id \in AsyncId /\ handler[id] \in {"work", "complete", "set"}
      BY DEF IInv, AsyncTypeOK, HandlersWork
  <2> QED
      BY <2>1 DEF ResponseLockFree
<1> QED
    BY <1>1, AlwaysInv, PTL
=============================================================================
