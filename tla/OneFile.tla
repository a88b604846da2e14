------------------------------- MODULE OneFile -------------------------------
(***************************************************************************)
(* What replica mode promises (option -p, "Sync With Peers"): the clients  *)
(* of all servers use what behaves like one file with one pointer, on      *)
(* which each command takes effect once, or not at all if it fails.        *)
(***************************************************************************)
EXTENDS Naturals, Sequences

CONSTANTS
  Commands,  \* the commands the clients may send
  Content,   \* what the file holds to begin with
  Hole       \* a cell that no command has written

VARIABLES
  data, pos, \* the cells of the file, and how many are before the pointer
  done       \* the commands that have taken effect

Init == data = Content /\ pos = 0 /\ done = {}

Once(x) == x \notin done /\ done' = done \cup {x}

\* FOPEN, and FREAD at the end of the file.
Look(x) == Once(x) /\ UNCHANGED <<data, pos>>

\* FSEEK, and FREAD of a cell.
Advance(x) == Once(x) /\ pos' = pos + 1 /\ UNCHANGED data

\* FWRITE: the cell at the pointer holds what the command wrote.
Write(x) ==
  /\ Once(x)
  /\ pos' = pos + 1
  /\ data' = [k \in 1 .. (IF pos < Len(data) THEN Len(data) ELSE pos + 1) |->
                CASE k = pos + 1                    -> x
                  [] k # pos + 1 /\ k \in DOMAIN data -> data[k]
                  [] OTHER                          -> Hole]

\* FCLOSE.
Rewind(x) == Once(x) /\ pos' = 0 /\ UNCHANGED data

Next == \E x \in Commands : Look(x) \/ Advance(x) \/ Write(x) \/ Rewind(x)

Spec == Init /\ [][Next]_<<data, pos, done>>

=============================================================================
