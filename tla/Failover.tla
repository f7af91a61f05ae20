------------------------------ MODULE Failover ------------------------------
(***************************************************************************)
(* The JSON-RPC client below the chain adapters: HTTPRPCClient.Call goes   *)
(* round the endpoints until one answers, and SimpleHealthTracker opens a  *)
(* circuit in front of an endpoint that fails.  One call is made at a      *)
(* time; what is asked and what the answer means is up to the caller.      *)
(***************************************************************************)
EXTENDS Integers

CONSTANTS
    N,                 \* endpoints
    FailureThreshold,
    SuccessThreshold,
    Bound,             \* the counters' difference is followed up to here
    None

ASSUME FailoverAssumption ==
    /\ N \in Nat \ {0}
    /\ FailureThreshold \in Nat \ {0}
    /\ SuccessThreshold \in Nat \ {0}
    /\ Bound \in Nat
    /\ Bound >= FailureThreshold
    /\ Bound >= SuccessThreshold

Endpoint == 0 .. N - 1

ASSUME NoneAssumption == None \notin Endpoint

VARIABLES
    currentIndex,  \* where the next round starts
    tried,         \* the endpoints this call has asked
    asked,         \* the endpoint that has the request
    lead,          \* per endpoint: failed calls minus successful ones
    circuit        \* per endpoint: closed, open, or open for over 30 seconds

client == <<currentIndex, tried, asked>>
health == <<lead, circuit>>

FailoverInit ==
    /\ currentIndex = 0
    /\ tried = {}
    /\ asked = None
    /\ lead = [e \in Endpoint |-> 0]
    /\ circuit = [e \in Endpoint |-> "closed"]

FailoverTypeOK ==
    /\ currentIndex \in Endpoint
    /\ tried \in SUBSET Endpoint
    /\ asked \in tried \cup {None}
    /\ lead \in [Endpoint -> -Bound .. Bound]
    /\ circuit \in [Endpoint -> {"closed", "open", "expired"}]

IsHealthy(e) == circuit[e] # "open"

Left == Endpoint \ tried

\* How many places after currentIndex an endpoint comes.
Turn(e) == (e + N - currentIndex) % N

NextHealthyEndpoint ==
    {e \in Left : IsHealthy(e) /\ \A f \in Left : IsHealthy(f) => Turn(e) <= Turn(f)}

\* Mutant: the round does not move on.
AskHealthySticky(e) ==
    /\ asked = None
    /\ e \in NextHealthyEndpoint
    /\ asked' = e
    /\ tried' = tried \cup {e}
    /\ currentIndex' = e
    /\ UNCHANGED health

AskHealthy(e) ==
    /\ asked = None
    /\ e \in NextHealthyEndpoint
    /\ asked' = e
    /\ tried' = tried \cup {e}
    /\ currentIndex' = (e + 1) % N
    /\ UNCHANGED health

\* With every circuit open that is left, the first one of the list.
AskUnhealthy(e) ==
    /\ asked = None
    /\ NextHealthyEndpoint = {}
    /\ e \in Left
    /\ \A f \in Left : e <= f
    /\ asked' = e
    /\ tried' = tried \cup {e}
    /\ UNCHANGED <<currentIndex, health>>

Ask == \E e \in Endpoint : AskHealthy(e) \/ AskUnhealthy(e)

\* The loop ends when every endpoint was attempted.
Exhausted == asked = None /\ Left = {}

-----------------------------------------------------------------------------
(***************************************************************************)
(* Health.  Both counters are totals, so a circuit opens when an endpoint  *)
(* failed FailureThreshold times more often than it answered in all its    *)
(* life, and closes when it answered SuccessThreshold times more often.    *)
(***************************************************************************)
AtLeast(a, b) == IF a < b THEN b ELSE a
AtMost(a, b) == IF a > b THEN b ELSE a

RecordSuccess(e) ==
    /\ lead' = [lead EXCEPT ![e] = AtLeast(@ - 1, -Bound)]
    /\ circuit' = [circuit EXCEPT ![e] =
          IF lead'[e] <= -SuccessThreshold THEN "closed" ELSE @]

RecordFailure(e) ==
    /\ lead' = [lead EXCEPT ![e] = AtMost(@ + 1, Bound)]
    /\ circuit' = [circuit EXCEPT ![e] =
          IF @ # "closed" \/ lead'[e] >= FailureThreshold THEN "open" ELSE @]

\* The endpoint answers: the call is over.
Succeed ==
    /\ asked # None
    /\ RecordSuccess(asked)
    /\ asked' = None
    /\ tried' = {}
    /\ UNCHANGED currentIndex

\* No answer, an HTTP error or a JSON-RPC error: the next endpoint is asked.
Fail ==
    /\ asked # None
    /\ RecordFailure(asked)
    /\ asked' = None
    /\ UNCHANGED <<currentIndex, tried>>

GiveUp ==
    /\ Exhausted
    /\ tried' = {}
    /\ UNCHANGED <<currentIndex, asked, health>>

\* Thirty seconds since the last failure.
WindowPasses(e) ==
    /\ circuit[e] = "open"
    /\ circuit' = [circuit EXCEPT ![e] = "expired"]
    /\ UNCHANGED <<client, lead>>

-----------------------------------------------------------------------------
\* The rotation is fair: an endpoint whose circuit stays closed is asked again
\* and again as long as calls are made, whatever the health of the others does
\* to the order.
FairRotation ==
    \A e \in Endpoint :
        <>[]IsHealthy(e) /\ []<>(asked # None) => []<>(asked = e)
=============================================================================
