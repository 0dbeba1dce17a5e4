--------------------------- MODULE RequestService ---------------------------
(***************************************************************************)
(* What the web service promises to the clients of its content requests,   *)
(* without threads, counters and locks: an accepted request is answered    *)
(* exactly once; a request that needs exclusive access may be parked, then *)
(* the service is closed until every parked request has been answered.     *)
(***************************************************************************)
CONSTANT Requests

VARIABLES
    status,     \* what has become of each request
    closed      \* maintenance mode: new requests are rejected

svars == <<status, closed>>

SInit ==
    /\ status = [r \in Requests |-> "unseen"]
    /\ closed = FALSE

Accept(r) ==
    /\ status[r] = "unseen"
    /\ status' = [status EXCEPT ![r] = "open"]
    /\ UNCHANGED closed

Park(r) ==
    /\ status[r] = "open"
    /\ status' = [status EXCEPT ![r] = "parked"]
    /\ closed' = TRUE

Answer(r) ==
    /\ status[r] \in {"open", "parked"}
    /\ status' = [status EXCEPT ![r] = "answered"]
    /\ UNCHANGED closed

Reopen ==
    /\ closed
    /\ \A r \in Requests : status[r] # "parked"
    /\ closed' = FALSE
    /\ UNCHANGED status

SNext ==
    \/ \E r \in Requests : Accept(r) \/ Park(r) \/ Answer(r)
    \/ Reopen

SSpec == SInit /\ [][SNext]_svars

\* An accepted request is answered, and the service opens again.
SFairness ==
    /\ \A r \in Requests : WF_svars(Answer(r))
    /\ WF_svars(Reopen)

SFairSpec == SSpec /\ SFairness
=============================================================================
