------------------------------- MODULE MCRestart -------------------------------
(* Restart with clients that send a bounded number of requests.            *)
EXTENDS Restart

CONSTANT MaxRequests   \* commands and SYNC commands that are sent

VARIABLE requests      \* how many have been

Starts(t) == pc[t] = "idle" /\ pc'[t] # "idle"

BoundedInit == RestartInit /\ requests = 0

BoundedSpec ==
  /\ BoundedInit
  /\ [][/\ RestartNext
        /\ requests' = requests + Cardinality({t \in Threads : Starts(t)})
        /\ requests' <= MaxRequests
       ]_<<rvars, requests>>
  /\ RestartFairness
=============================================================================
