------------------------------ MODULE WriterRule ------------------------------
(***************************************************************************)
(* What the README's "File Access Protection" promises about writing: "No  *)
(* writing can occur when someone else is doing it."  A file has at most   *)
(* one writer, who stops before the next one starts.                       *)
(***************************************************************************)
CONSTANTS Threads, Names

VARIABLE writers   \* the threads writing to each file

Init == writers = [f \in Names |-> {}]

BeginWrite(t, f) ==
  /\ writers[f] = {}
  /\ writers' = [writers EXCEPT ![f] = {t}]

EndWrite(t, f) ==
  /\ writers[f] = {t}
  /\ writers' = [writers EXCEPT ![f] = {}]

Next == \E t \in Threads, f \in Names : BeginWrite(t, f) \/ EndWrite(t, f)

Spec == Init /\ [][Next]_writers

=============================================================================
