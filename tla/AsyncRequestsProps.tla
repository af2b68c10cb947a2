------------------------- MODULE AsyncRequestsProps --------------------------
(***************************************************************************)
(* The properties of asynchronous requests.                                *)
(***************************************************************************)
EXTENDS AsyncRequests

AsyncTypeOK ==
    /\ service \in {"erase", "encrypt"}
    /\ counter \in 0 .. MaxRequests
    /\ state \in [AsyncId -> Table!RequestState]
    /\ responses \subseteq AsyncId
    /\ active \in Nat
    /\ ignoring \in BOOLEAN
    /\ handler \in [AsyncId -> {"none", "work", "complete", "set", "ended"}]
    /\ call \in [Client -> {"none", "start", "create", "thread", "answer",
                            "uncount", "response"}]
    /\ asked \in [Client -> AsyncId \cup {NoId}]
    /\ told \subseteq AsyncId
    /\ phase \in {"serving", "stopping", "destroying", "destroyed"}

(* "Request is handled but response is absent." never happens for want of  *)
(* a response: a client that read a final status under the keeper's lock   *)
(* finds the response under the other lock, later.                         *)
FinishedHasResponse ==
    \A c \in Client : call[c] = "response" => asked[c] \in responses

(* "What until all threads completed.": no handler outlives the dispatcher *)
(* it refers to, whenever it was started.                                  *)
NoHandlerOutlives ==
    phase = "destroyed" =>
        \A id \in AsyncId : handler[id] \in {"none", "ended"}

(* What becomes of that wait: the destructor ends only if no request was   *)
(* ever accepted.  The service stop that waits for it hangs after the      *)
(* first one, finished or not, since no handler takes itself off the count.*)
EndsOnlyUnused == phase = "destroyed" => told = {}

(* The two locked steps of completeRequest, the counter and the threads    *)
(* together behave like a table with one step per change.                  *)
ImplementsRequestTable == Table!Spec

(* A request whose identifier was told is finished one day; what stays in  *)
(* process for ever (no thread for it) is known to nobody.                 *)
ToldIsFinished == \A id \in AsyncId : id \in told ~> Final(id)
=============================================================================
