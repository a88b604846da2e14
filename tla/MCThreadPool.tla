---------------------------- MODULE MCThreadPool ----------------------------
(* ThreadPool as long as no SIGHUP is received.                            *)
EXTENDS ThreadPool, TLC

Symmetry == Permutations(Workers) \cup Permutations(Fds)

RunNext ==
  \/ \E w \in Workers : Quit(w) \/ Serve(w)
  \/ Main
  \/ \E s \in Servers : Connect(s)

RunSpec == Init /\ [][RunNext]_vars

FairRunSpec == RunSpec /\ Fairness
=============================================================================
