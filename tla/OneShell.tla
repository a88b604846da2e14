------------------------------- MODULE OneShell -------------------------------
(***************************************************************************)
(* What ShellServerLock is for ("Shell client limit"): one client at a     *)
(* time uses the shell server, its commands run one after the other, and   *)
(* no program is left behind when the next client comes.                   *)
(***************************************************************************)
CONSTANTS Clients, NoClient   \* NoClient is none of Clients

VARIABLES
  owner,    \* the client served, or NoClient
  running   \* the clients a program runs for

Init == owner = NoClient /\ running = {}

Enter(c) == owner = NoClient /\ owner' = c /\ UNCHANGED running

Start(c) ==
  /\ owner = c /\ running = {}
  /\ running' = {c}
  /\ UNCHANGED owner

Finish(c) ==
  /\ owner = c /\ running = {c}
  /\ running' = {}
  /\ UNCHANGED owner

Leave(c) ==
  /\ owner = c /\ running = {}
  /\ owner' = NoClient
  /\ UNCHANGED running

Next == \E c \in Clients : Enter(c) \/ Start(c) \/ Finish(c) \/ Leave(c)

Spec == Init /\ [][Next]_<<owner, running>>

=============================================================================
