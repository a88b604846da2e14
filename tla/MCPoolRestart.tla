----------------------------- MODULE MCPoolRestart -----------------------------
(* ThreadPool with a bounded number of clients.                            *)
EXTENDS ThreadPool, TLC

CONSTANT MaxClients   \* connections that are made

VARIABLE clients      \* how many have been

Symmetry == Permutations(Workers) \cup Permutations(Fds)

BoundedNext ==
  \/ (\E w \in Workers : Quit(w) \/ Serve(w)) /\ UNCHANGED clients
  \/ Main /\ UNCHANGED clients
  \/ HandleSIGHUP /\ UNCHANGED clients
  \/ /\ clients < MaxClients /\ clients' = clients + 1
     /\ \E s \in Servers : Connect(s)

BoundedSpec == Init /\ clients = 0 /\ [][BoundedNext]_<<vars, clients>>
=============================================================================
