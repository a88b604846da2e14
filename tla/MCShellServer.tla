---------------------------- MODULE MCShellServer ----------------------------
\* ShellServer for TLC: programs that print up to MaxOut characters, and some
\* that print nothing or one line and do not end with status 0.
EXTENDS ShellServer

CONSTANT MaxOut

Outputs == UNION {[1 .. n -> Chars \union {NL}] : n \in 0 .. MaxOut}

MCPrograms ==
  [out : Outputs, status : {0}]
    \union [out : {<<>>, <<"x", NL, NL, "x", "x">>}, status : {1, 254, Killed}]

=============================================================================
