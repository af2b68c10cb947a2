---------------------------- MODULE RequestTable -----------------------------
(***************************************************************************)
(* What the service's asynchronous requests promise to a client: an        *)
(* identifier names one request and is told to one client; a request that  *)
(* was created is in process until it is finished, and a finished one      *)
(* keeps its final status.                                                 *)
(***************************************************************************)
EXTENDS Naturals

CONSTANTS
    MaxRequests,    \* bound: identifiers are 1..MaxRequests
    FinalStatus     \* the statuses a finished request can have

AsyncId == 1 .. MaxRequests
Absent == "Absent"
InProcess == "InProcess"
RequestState == {Absent, InProcess} \cup FinalStatus

VARIABLES
    state,  \* the status of each identifier
    told    \* the identifiers clients were given

Init ==
    /\ state = [id \in AsyncId |-> Absent]
    /\ told = {}

Create(id) ==
    /\ state[id] = Absent
    /\ state' = [state EXCEPT ![id] = InProcess]
    /\ UNCHANGED told

Tell(id) ==
    /\ state[id] # Absent
    /\ id \notin told
    /\ told' = told \cup {id}
    /\ UNCHANGED state

Finish(id) ==
    /\ state[id] = InProcess
    /\ \E final \in FinalStatus : state' = [state EXCEPT ![id] = final]
    /\ UNCHANGED told

Next == \E id \in AsyncId : Create(id) \/ Tell(id) \/ Finish(id)

Spec == Init /\ [][Next]_<<state, told>>
=============================================================================
