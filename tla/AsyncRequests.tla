---------------------------- MODULE AsyncRequests ----------------------------
(***************************************************************************)
(* Requests the service answers in the background (AsyncDispatcher.cpp,    *)
(* AsyncRequestsKeeper.cpp) and their two users: erasing of files, which   *)
(* keeps a response for the client, and encryption, which keeps none.      *)
(*                                                                         *)
(* A client is a thread of the Thrift pool in a call; a request has a      *)
(* detached thread, its handler.  A step is what one lock or one atomic    *)
(* counter protects.  A call that is refused, or that reads a status which *)
(* is not final, changes nothing and is no step.                           *)
(***************************************************************************)
EXTENDS Naturals, FiniteSets

CONSTANTS
    Client,         \* threads of the Thrift pool
    Limit,          \* m_activeThreadLimit: 10 for erasing, 20 for encryption
    MaxRequests     \* bound: memory ends with this many requests

ASSUME AsyncAssumption ==
    /\ IsFiniteSet(Client)
    /\ Limit \in Nat
    /\ MaxRequests \in Nat

(* Erasing completes with the default status, whatever became of the       *)
(* files; encryption with what the work returned.                          *)
Completion(of) == IF of = "erase" THEN {"Completed"} ELSE {"Success", "Error"}
FinalStatus == {"Completed", "Success", "Error"}

VARIABLES
    service,    \* "erase" or "encrypt": whose dispatcher this is
    counter,    \* m_counter of the keeper
    state,      \* m_operationStates
    responses,  \* m_eraseResponses: which requests have one
    active,     \* m_activeHandlers
    ignoring,   \* m_ignoreNewRequest
    handler,    \* where the thread of each request is
    call,       \* where each client is in its call
    asked,      \* the identifier of each client's call
    told,       \* history: identifiers given to clients
    phase       \* the life of the server and its dispatcher

vars == <<service, counter, state, responses, active, ignoring, handler, call,
          asked, told, phase>>

Table == INSTANCE RequestTable
AsyncId == Table!AsyncId
NoId == 0

Fresh(id) == state[id] = "Absent"
Final(id) == state[id] \in FinalStatus

Init ==
    /\ service \in {"erase", "encrypt"}
    /\ counter = 0
    /\ state = [id \in AsyncId |-> "Absent"]
    /\ responses = {}
    /\ active = 0
    /\ ignoring = FALSE
    /\ handler = [id \in AsyncId |-> "none"]
    /\ call = [c \in Client |-> "none"]
    /\ asked = [c \in Client |-> NoId]
    /\ told = {}
    /\ phase = "serving"

ClientGoes(c, from, to) == call[c] = from /\ call' = [call EXCEPT ![c] = to]
HandlerGoes(id, from, to) ==
    handler[id] = from /\ handler' = [handler EXCEPT ![id] = to]

-----------------------------------------------------------------------------
(* perform_eraseFiles, perform_encryptFile and perform_decodeFile.         *)

(* The count is refused when it is NOT above the limit. *)
limitAchieved == active <= Limit
canPerformNewRequest == ~ignoring

Perform(c) ==
    /\ phase = "serving"
    /\ ~(limitAchieved /\ ~canPerformNewRequest)
    /\ ClientGoes(c, "none", "start")
    /\ UNCHANGED <<service, counter, state, responses, active, ignoring,
                   handler, asked, told, phase>>

(* Seeded defect: the caller leaves the counting to the thread. *)
HandlerStartedLate(c) ==
    /\ ClientGoes(c, "start", "create")
    /\ UNCHANGED <<service, counter, state, responses, active, ignoring,
                   handler, asked, told, phase>>

handlerStarted(c) ==
    /\ ClientGoes(c, "start", "create")
    /\ active' = active + 1
    /\ UNCHANGED <<service, counter, state, responses, ignoring, handler,
                   asked, told, phase>>

(* Seeded defect: the counter is read and written without its lock. *)
CreateUnlocked(c) ==
    /\ ClientGoes(c, "create", "thread")
    /\ \E id \in AsyncId \cap {counter, counter + 1} :
          /\ counter' = id
          /\ state' = [state EXCEPT ![id] = "InProcess"]
          /\ asked' = [asked EXCEPT ![c] = id]
    /\ UNCHANGED <<service, responses, active, ignoring, handler, told, phase>>

(* createNew: counter and table under the counter's lock. *)
createRequest(c) ==
    /\ ClientGoes(c, "create", "thread")
    /\ counter + 1 \in AsyncId
    /\ counter' = counter + 1
    /\ state' = [state EXCEPT ![counter + 1] = "InProcess"]
    /\ asked' = [asked EXCEPT ![c] = counter + 1]
    /\ UNCHANGED <<service, responses, active, ignoring, handler, told, phase>>

StartThread(c) ==
    /\ ClientGoes(c, "thread", "answer")
    /\ HandlerGoes(asked[c], "none", "work")
    /\ UNCHANGED <<service, counter, state, responses, active, ignoring, asked,
                   told, phase>>

(* The identifier is the answer; by now the handler may have ended. *)
Answer(c) ==
    /\ ClientGoes(c, "answer", "none")
    /\ told' = told \cup {asked[c]}
    /\ asked' = [asked EXCEPT ![c] = NoId]
    /\ UNCHANGED <<service, counter, state, responses, active, ignoring, handler,
                   phase>>

(* No memory for the request, or no thread: the created request stays.     *)
Throws(c) ==
    /\ ClientGoes(c, "create", "uncount") \/ ClientGoes(c, "thread", "uncount")
    /\ asked' = [asked EXCEPT ![c] = NoId]
    /\ UNCHANGED <<service, counter, state, responses, active, ignoring,
                   handler, told, phase>>

handlerCompleted(c) ==
    /\ ClientGoes(c, "uncount", "none")
    /\ active' = active - 1
    /\ UNCHANGED <<service, counter, state, responses, ignoring, handler,
                   asked, told, phase>>

-----------------------------------------------------------------------------
(* handler_eraseFiles, handler_encodeFile and handler_decodeFile.          *)

(* The handler of an erasing keeps the lock from its response to its end.  *)
ResponseLockFree == \A id \in AsyncId :
    service = "erase" => handler[id] \notin {"complete", "set"}

WorkEncoded(id) ==
    /\ service = "encrypt"
    /\ HandlerGoes(id, "work", "complete")
    /\ UNCHANGED <<service, counter, state, responses, active, ignoring, call,
                   asked, told, phase>>

(* Seeded defect: the response is left for later, after the completion. *)
StoreNothing(id) ==
    /\ service = "erase"
    /\ ResponseLockFree
    /\ HandlerGoes(id, "work", "complete")
    /\ UNCHANGED <<service, counter, state, responses, active, ignoring, call,
                   asked, told, phase>>

StoreResponse(id) ==
    /\ service = "erase"
    /\ ResponseLockFree
    /\ HandlerGoes(id, "work", "complete")
    /\ responses' = responses \cup {id}
    /\ UNCHANGED <<service, counter, state, active, ignoring, call, asked, told,
                   phase>>

(* completeRequest: isPresent ... *)
FindRequest(id) ==
    /\ HandlerGoes(id, "complete", IF Fresh(id) THEN "ended" ELSE "set")
    /\ UNCHANGED <<service, counter, state, responses, active, ignoring, call,
                   asked, told, phase>>

(* Seeded defects: the count goes down as the handler ends, as it was      *)
(* meant to; the thread dies of an exception before it sets the state.     *)
SetStateAndCount(id) ==
    /\ HandlerGoes(id, "set", "ended")
    /\ \E final \in Completion(service) : state' = [state EXCEPT ![id] = final]
    /\ active' = active - 1
    /\ UNCHANGED <<service, counter, responses, ignoring, call, asked, told,
                   phase>>

SetStateOrDie(id) ==
    /\ HandlerGoes(id, "set", "ended")
    /\ \/ \E final \in Completion(service) : state' = [state EXCEPT ![id] = final]
       \/ UNCHANGED state
    /\ UNCHANGED <<service, counter, responses, active, ignoring, call, asked,
                   told, phase>>

(* ... and setValueIfPresent.  No handler calls handlerCompleted.          *)
SetState(id) ==
    /\ HandlerGoes(id, "set", "ended")
    /\ \E final \in Completion(service) :
          state' = [state EXCEPT ![id] = IF Fresh(id) THEN @ ELSE final]
    /\ UNCHANGED <<service, counter, responses, active, ignoring, call, asked,
                   told, phase>>

-----------------------------------------------------------------------------
(* getEraseState: the status under the keeper's lock, then the response    *)
(* under its own.  getResponse_eraseFiles copies it and returns false, so  *)
(* the answer is HaveNoResponse and nothing is deleted.                    *)

AskState(c, id) ==
    /\ service = "erase" /\ phase = "serving"
    /\ Final(id)
    /\ ClientGoes(c, "none", "response")
    /\ asked' = [asked EXCEPT ![c] = id]
    /\ UNCHANGED <<service, counter, state, responses, active, ignoring,
                   handler, told, phase>>

getResponse(c) ==
    /\ ResponseLockFree
    /\ ClientGoes(c, "response", "none")
    /\ asked' = [asked EXCEPT ![c] = NoId]
    /\ UNCHANGED <<service, counter, state, responses, active, ignoring,
                   handler, told, phase>>

-----------------------------------------------------------------------------
(* stopInternalServices: no call is taken any more, the calls under way    *)
(* end, and the dispatcher is destroyed.                                   *)

Stop ==
    /\ phase = "serving"
    /\ phase' = "stopping"
    /\ UNCHANGED <<service, counter, state, responses, active, ignoring,
                   handler, call, asked, told>>

(* The pool has joined its threads, the destructor begins. *)
ignoreNewRequests ==
    /\ phase = "stopping"
    /\ \A c \in Client : call[c] = "none"
    /\ phase' = "destroying"
    /\ ignoring' = TRUE
    /\ UNCHANGED <<service, counter, state, responses, active, handler, call,
                   asked, told>>

(* "What until all threads completed.", every ten milliseconds. *)
Destroy ==
    /\ phase = "destroying"
    /\ active = 0
    /\ phase' = "destroyed"
    /\ responses' = {}
    /\ UNCHANGED <<service, counter, state, active, ignoring, handler, call,
                   asked, told>>

-----------------------------------------------------------------------------
ClientStep(c) ==
    \/ handlerStarted(c)
    \/ createRequest(c)
    \/ StartThread(c)
    \/ Answer(c)
    \/ Throws(c)
    \/ handlerCompleted(c)
    \/ getResponse(c)

HandlerStep(id) ==
    \/ WorkEncoded(id)
    \/ StoreResponse(id)
    \/ FindRequest(id)
    \/ SetState(id)

Next ==
    \/ \E c \in Client :
          \/ Perform(c)
          \/ ClientStep(c)
          \/ \E id \in AsyncId : AskState(c, id)
    \/ \E id \in AsyncId : HandlerStep(id)
    \/ Stop
    \/ ignoreNewRequests
    \/ Destroy

(* Windows runs every thread of a call and every handler. *)
Fairness ==
    /\ \A c \in Client : WF_vars(ClientStep(c))
    /\ \A id \in AsyncId : WF_vars(HandlerStep(id))

Spec == Init /\ [][Next]_vars /\ Fairness
=============================================================================
