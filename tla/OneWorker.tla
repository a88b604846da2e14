------------------------------ MODULE OneWorker ------------------------------
(***************************************************************************)
(* What ForeRunner promises a client: from accept on its connection is one *)
(* worker's, which nobody takes over and no other worker closes.  Only an  *)
(* exception out of the callback leaves a connection to nobody, open for   *)
(* good; its descriptor is not accepted again.                             *)
(***************************************************************************)
CONSTANTS Workers, Fds

VARIABLES
  connected,  \* the descriptors of connections that are open
  serves      \* pairs of a worker and the connection it has

Init == connected = {} /\ serves = {}

Accept(w, f) ==
  /\ f \notin connected /\ \A g \in Fds : <<w, g>> \notin serves
  /\ connected' = connected \cup {f}
  /\ serves' = serves \cup {<<w, f>>}

Close(w, f) ==
  /\ <<w, f>> \in serves
  /\ connected' = connected \ {f}
  /\ serves' = serves \ {<<w, f>>}

Abandon(w, f) ==
  /\ <<w, f>> \in serves
  /\ serves' = serves \ {<<w, f>>}
  /\ UNCHANGED connected

Next == \E w \in Workers, f \in Fds : Accept(w, f) \/ Close(w, f) \/ Abandon(w, f)

Spec == Init /\ [][Next]_<<connected, serves>>

=============================================================================
