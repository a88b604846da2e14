------------------------------ MODULE MCFileClose ------------------------------
(* FileAccess with clients that close.  Two FCLOSEs of one identifier at    *)
(* once corrupt the registries for good; the history variable tells what    *)
(* holds before that from what always holds.                                *)
EXTENDS FileAccess, TLC

VARIABLE sole   \* no two FCLOSEs have been under way at once

SoleSpec ==
  /\ Init /\ sole = TRUE
  /\ [][Next /\ sole' = (sole /\ Cardinality({t \in Threads : op'[t] = "FCLOSE"}) <= 1)
       ]_<<vars, sole>>

\* Until two FCLOSEs overlap, no client is let through to a descriptor that
\* the kernel may hand out, whoever opens, reads or writes meanwhile.
SoleTableSound == sole => TableSound

\* Until two FCLOSEs overlap, an FCLOSE that gives up after its wait or loses
\* its block does not leave the file closed to all later commands.
SoleNoPoisonedFile == sole => NoPoisonedFile

Symmetry == Permutations(Closers) \cup Permutations(Blocks)
=============================================================================
