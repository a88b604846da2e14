----------------------------- MODULE ShellServer -----------------------------
(***************************************************************************)
(* The shell server: ShellCallback, run by the worker of each shell        *)
(* client, and ShellClient::RunShellCommand, which runs a program in a     *)
(* child process and copies what it prints through a pipe, a character at  *)
(* a time.  Child and server go on beside each other.  Workers and         *)
(* connections are the subject of ThreadPool.                              *)
(***************************************************************************)
EXTENDS Integers, Sequences, FiniteSetsExt, ServerResponse

CONSTANTS
  Clients,   \* shell clients, each with a worker of its own
  NoClient,
  Chars,     \* characters other than the newline
  Programs,  \* what a client may run: [out: characters printed, status]
  MaxLine,   \* sizeof(ReadBuffer)
  PipeSize,  \* what a pipe holds
  MaxOpen    \* descriptors left for pipes

NL     == "newline"
Mark   == <<"MARK-NO-COMMAND">>
Symbols == Chars \union {NL, "MARK-NO-COMMAND"}
Text    == Seq(Symbols)
Killed == -1     \* status of a program a signal ends

ASSUME ShellAssumption ==
  /\ NoClient \notin Clients
  /\ NL \notin Chars /\ "MARK-NO-COMMAND" \notin Chars
  /\ \A p \in Programs : p.out \in Seq(Chars \union {NL}) /\ p.status \in -1 .. 255
  /\ MaxLine \in Nat \ {0} /\ PipeSize \in Nat \ {0} /\ MaxOpen \in Nat

VARIABLES
  ShellServerLock,  \* the client whose session holds it
  pc,          \* where each session stands
  cmd,         \* the program asked for last
  sent, seen,  \* characters its child has written, the server has read
  count,       \* those of the current call of readline
  sOutput, sLastOutput,
  child,       \* the child process
  writers,     \* sessions whose pipe's write end the server holds
  heirs,       \* children that hold it, by the client they run for
  open,        \* descriptors of pipes the server has open
  background,  \* daemonize has run: SIGCHLD is ignored
  told,        \* the last response
  ran          \* history: all that the last program with a pipe wrote, or Mark

chars == <<sent, seen, count, sOutput, sLastOutput>>
ends  == <<writers, heirs, open>>
vars  == <<ShellServerLock, pc, cmd, chars, child, ends, background, told, ran>>

Set(var, c, x) == [var EXCEPT ![c] = x]

Step(c, from, to) == pc[c] = from /\ pc' = Set(pc, c, to)

Nothing   == Payload("", "", "")
NoProgram == [out |-> <<>>, status |-> 0]

-----------------------------------------------------------------------------

\* A worker has accepted the client and calls ShellCallback.
Connect(c) ==
  /\ Step(c, "off", "lock")
  /\ UNCHANGED <<ShellServerLock, cmd, chars, child, ends, background, told, ran>>

\* Faulty variant: without ShellServerGuard.
AcquireUnguarded(c) ==
  /\ Step(c, "lock", "request")
  /\ ShellServerLock' = c
  /\ sLastOutput' = Set(sLastOutput, c, Mark)
  /\ ran' = Set(ran, c, Mark)
  /\ UNCHANGED <<cmd, sent, seen, count, sOutput, child, ends, background, told>>

\* The guard is taken for the whole session, then the ShellClient is made.
Acquire(c) ==
  /\ Step(c, "lock", "request")
  /\ ShellServerLock = NoClient
  /\ ShellServerLock' = c
  /\ sLastOutput' = Set(sLastOutput, c, Mark)
  /\ ran' = Set(ran, c, Mark)
  /\ UNCHANGED <<cmd, sent, seen, count, sOutput, child, ends, background, told>>

Cprint(c) ==
  /\ Step(c, "request", "request")
  /\ told' = Set(told, c, shell(IF sLastOutput[c] = Mark THEN -3 ELSE 0, Default))
  /\ UNCHANGED <<ShellServerLock, cmd, chars, child, ends, background, ran>>

Request(c) ==
  /\ Step(c, "request", "pipe")
  /\ \E p \in Programs : cmd' = Set(cmd, c, p)
  /\ told' = Set(told, c, Nothing)
  /\ UNCHANGED <<ShellServerLock, chars, child, ends, background, ran>>

\* The connection ends or fails, or a request has no word in it, whereupon
\* at(0) throws out of ShellCallback.  Either way the guard is released.
Leave(c) ==
  /\ Step(c, "request", "off")
  /\ ShellServerLock' = NoClient
  /\ UNCHANGED <<cmd, chars, child, ends, background, told, ran>>

-----------------------------------------------------------------------------

\* Neither end is closed on exec, and only the write end is closed at all.
MakePipe(c) ==
  /\ Step(c, "pipe", "fork")
  /\ open + 2 <= MaxOpen
  /\ open' = open + 2
  /\ writers' = writers \union {c}
  /\ UNCHANGED <<ShellServerLock, cmd, chars, child, heirs, background, told, ran>>

PipeFails(c) ==
  /\ Step(c, "pipe", "request")
  /\ open + 2 > MaxOpen
  /\ told' = Set(told, c, fail("ERPIP"))
  /\ cmd' = Set(cmd, c, NoProgram)
  /\ UNCHANGED <<ShellServerLock, chars, child, ends, background, ran>>

\* A child has a copy of every descriptor the server has open.
Fork(c) ==
  /\ Step(c, "fork", "parent")
  /\ child' = Set(child, c, "running")
  /\ heirs' = [d \in Clients |-> heirs[d] \union (IF d \in writers THEN {c} ELSE {})]
  /\ UNCHANGED <<ShellServerLock, cmd, chars, writers, open, background, told, ran>>

\* The result -1 is not looked at: the server goes on as a parent.
ForkFails(c) ==
  /\ Step(c, "fork", "parent")
  /\ UNCHANGED <<ShellServerLock, cmd, chars, child, ends, background, told, ran>>

\* Faulty variant: the write end stays open in the server.
StartReadingHolding(c) ==
  /\ Step(c, "parent", "copy")
  /\ sLastOutput' = Set(sLastOutput, c, <<>>)
  /\ ran' = Set(ran, c, <<>>)
  /\ UNCHANGED <<ShellServerLock, cmd, sent, seen, count, sOutput, child, ends, background, told>>

StartReading(c) ==
  /\ Step(c, "parent", "copy")
  /\ sLastOutput' = Set(sLastOutput, c, <<>>)
  /\ ran' = Set(ran, c, <<>>)
  /\ writers' = writers \ {c}
  /\ open' = open - 1
  /\ UNCHANGED <<ShellServerLock, cmd, sent, seen, count, sOutput, child, heirs, background, told>>

\* The program, or the message of buoy if there is none, prints a character.
ChildWrite(c) ==
  /\ child[c] = "running"
  /\ sent[c] < Len(cmd[c].out) /\ sent[c] - seen[c] < PipeSize
  /\ sent' = Set(sent, c, sent[c] + 1)
  /\ UNCHANGED <<ShellServerLock, pc, cmd, seen, count, sOutput, sLastOutput, child,
                 ends, background, told, ran>>

ChildExit(c) ==
  /\ child[c] = "running"
  /\ sent[c] = Len(cmd[c].out) \/ cmd[c].status = Killed
  /\ child' = Set(child, c, "exited")
  /\ heirs' = [d \in Clients |-> heirs[d] \ {c}]
  /\ UNCHANGED <<ShellServerLock, pc, cmd, chars, writers, open, background, told, ran>>

-----------------------------------------------------------------------------

\* Lib::readline returns and RunShellCommand records the line.  sOutput is
\* not emptied: readline adds to it.
Record(c, output) ==
  /\ sOutput' = Set(sOutput, c, output)
  /\ sLastOutput' = Set(sLastOutput, c, sLastOutput[c] \o output \o <<NL>>)
  /\ count' = Set(count, c, 0)

Reading(c) == pc[c] = "copy" /\ seen[c] < sent[c]
Char(c)    == cmd[c].out[seen[c] + 1]

\* Faulty variant: a line that is full is not noticed.
ReadCharUnbounded(c) ==
  /\ Reading(c) /\ Char(c) # NL
  /\ seen' = Set(seen, c, seen[c] + 1)
  /\ sOutput' = Set(sOutput, c, Append(sOutput[c], Char(c)))
  /\ count' = Set(count, c, count[c] + 1)
  /\ UNCHANGED <<ShellServerLock, pc, cmd, sent, sLastOutput, child, ends,
                 background, told, ran>>

\* Any other character than a newline; MaxLine of them make a line.
ReadChar(c) ==
  /\ Reading(c) /\ Char(c) # NL
  /\ seen' = Set(seen, c, seen[c] + 1)
  /\ LET output == Append(sOutput[c], Char(c)) IN
       \/ /\ count[c] + 1 = MaxLine
          /\ Record(c, output)
       \/ /\ count[c] + 1 < MaxLine
          /\ sOutput' = Set(sOutput, c, output)
          /\ count' = Set(count, c, count[c] + 1)
          /\ UNCHANGED sLastOutput
  /\ UNCHANGED <<ShellServerLock, pc, cmd, sent, child, ends, background, told, ran>>

\* A newline ends the line; readline returns 0 for one without characters,
\* and that ends the loop.
ReadNewline(c) ==
  /\ Reading(c) /\ Char(c) = NL
  /\ seen' = Set(seen, c, seen[c] + 1)
  /\ \/ /\ count[c] > 0
        /\ Record(c, sOutput[c])
        /\ UNCHANGED pc
     \/ /\ count[c] = 0
        /\ Step(c, "copy", "wait")
        /\ UNCHANGED <<count, sOutput, sLastOutput>>
  /\ UNCHANGED <<ShellServerLock, cmd, sent, child, ends, background, told, ran>>

\* Faulty variant: an empty pipe is taken for the end of the output.
ReadEndEarly(c) ==
  /\ pc[c] = "copy" /\ seen[c] = sent[c] /\ count[c] = 0
  /\ Step(c, "copy", "wait")
  /\ UNCHANGED <<ShellServerLock, cmd, chars, child, ends, background, told, ran>>

\* Nobody holds the write end and the pipe is empty.  The characters of an
\* unfinished line are a line.
ReadEnd(c) ==
  /\ pc[c] = "copy" /\ seen[c] = sent[c]
  /\ c \notin writers /\ heirs[c] = {}
  /\ \/ /\ count[c] > 0
        /\ Record(c, sOutput[c])
        /\ UNCHANGED pc
     \/ /\ count[c] = 0
        /\ Step(c, "copy", "wait")
        /\ UNCHANGED <<count, sOutput, sLastOutput>>
  /\ UNCHANGED <<ShellServerLock, cmd, sent, seen, child, ends, background, told, ran>>

\* WEXITSTATUS(ExecStat), which stays 0 when waitpid finds no child, because
\* fork had failed or because SIGCHLD is ignored, and is 0 for a signal.
ExecStat(c) ==
  IF background \/ child[c] = "none" \/ cmd[c].status = Killed
  THEN 0 ELSE cmd[c].status

\* RunShellCommand returns, which ends its local variables, and the client
\* is told the result.
Answer(c) ==
  /\ told' = Set(told, c, IF ExecStat(c) = 254 THEN fail("ERSHL")
                                              ELSE shell(ExecStat(c), Default))
  /\ ran' = Set(ran, c, SubSeq(cmd[c].out, 1, sent[c]))
  /\ cmd' = Set(cmd, c, NoProgram)
  /\ sent' = Set(sent, c, 0) /\ seen' = Set(seen, c, 0)
  /\ sOutput' = Set(sOutput, c, <<>>)
  /\ UNCHANGED <<ShellServerLock, count, sLastOutput, ends, background>>

\* Faulty variant: waitpid is called with WNOHANG.
WaitChildNoHang(c) ==
  /\ Step(c, "wait", "request")
  /\ child' = Set(child, c, IF child[c] = "exited" THEN "none" ELSE child[c])
  /\ Answer(c)

\* Even if SIGCHLD is ignored, waitpid returns only when the child has ended.
WaitChild(c) ==
  /\ Step(c, "wait", "request")
  /\ child[c] # "running"
  /\ child' = Set(child, c, "none")
  /\ Answer(c)

-----------------------------------------------------------------------------

Init ==
  /\ ShellServerLock = NoClient
  /\ pc = [c \in Clients |-> "off"]
  /\ cmd = [c \in Clients |-> NoProgram]
  /\ sent = [c \in Clients |-> 0]
  /\ seen = [c \in Clients |-> 0]
  /\ count = [c \in Clients |-> 0]
  /\ sOutput = [c \in Clients |-> <<>>]
  /\ sLastOutput = [c \in Clients |-> Mark]
  /\ child = [c \in Clients |-> "none"]
  /\ writers = {}
  /\ heirs = [c \in Clients |-> {}]
  /\ open = 0
  /\ background \in BOOLEAN
  /\ told = [c \in Clients |-> Nothing]
  /\ ran = [c \in Clients |-> Mark]

\* What a session does by itself once it has a command.
Command(c) ==
  \/ MakePipe(c) \/ PipeFails(c) \/ Fork(c) \/ ForkFails(c) \/ StartReading(c)
  \/ ReadChar(c) \/ ReadNewline(c) \/ ReadEnd(c) \/ WaitChild(c)

Child(c) == ChildWrite(c) \/ ChildExit(c)

Next == \E c \in Clients :
  \/ Connect(c) \/ Acquire(c) \/ Cprint(c) \/ Request(c) \/ Leave(c)
  \/ Command(c) \/ Child(c)

Spec == Init /\ [][Next]_vars

\* Worker and child go on when they can; the lock does not starve a worker;
\* no client keeps its connection for ever.
FairSpec ==
  /\ Spec
  /\ \A c \in Clients :
       /\ WF_vars(Command(c)) /\ WF_vars(Child(c))
       /\ SF_vars(Acquire(c)) /\ SF_vars(Leave(c))

-----------------------------------------------------------------------------

InSession(c) == pc[c] \notin {"off", "lock"}
InCommand(c) == pc[c] \in {"fork", "parent", "copy", "wait"}

PipeFlow ==
  \A c \in Clients : /\ sent[c] <= Len(cmd[c].out)
                     /\ sent[c] - seen[c] \in 0 .. PipeSize

\* Every variable has a value of its type, the descriptors of pipes stay
\* within the limit, and the pipe holds at most PipeSize characters, the next
\* ones of what the program prints.
ShellTypeOK ==
  /\ ShellServerLock \in Clients \union {NoClient}
  /\ pc \in [Clients -> {"off", "lock", "request", "pipe", "fork", "parent", "copy",
                         "wait"}]
  /\ cmd \in [Clients -> Programs \union {NoProgram}]
  /\ sent \in [Clients -> Nat] /\ seen \in [Clients -> Nat]
  /\ PipeFlow
  /\ count \in [Clients -> 0 .. MaxLine - 1]
  /\ sOutput \in [Clients -> Text]
  /\ sLastOutput \in [Clients -> Text]
  /\ child \in [Clients -> {"none", "running", "exited"}]
  /\ writers \subseteq Clients
  /\ heirs \in [Clients -> SUBSET Clients]
  /\ open \in 0 .. MaxOpen
  /\ background \in BOOLEAN
  /\ DOMAIN told = Clients
  /\ ran \in [Clients -> Text]

\* What ShellServerLock protects RunShellCommand from: a session beside the
\* one that holds it, a program no command is waiting for, and a child that
\* has inherited the pipe of another command, whose output would not end
\* before that child does.
OneProgram ==
  \A c \in Clients :
    /\ InSession(c) <=> ShellServerLock = c
    /\ child[c] # "none" \/ c \in writers \/ heirs[c] # {} => InCommand(c)
    /\ \A d \in heirs[c] : d = c /\ child[d] = "running"

-----------------------------------------------------------------------------

\* The output of a program as lines: from position s, up to MaxLine
\* characters before the next newline.  A newline at s ends it all.
LineEnd(out, s) ==
  Max({e \in s .. Len(out) : e - s < MaxLine /\ \A i \in s .. e : out[i] # NL})

\* A newline is taken with its line, unless the line is full.
NextLine(out, s) ==
  LET e == LineEnd(out, s)
  IN  IF e - s + 1 < MaxLine /\ e < Len(out) THEN e + 2 ELSE e + 1

\* What comes before each position e and at e, without the newlines.
Plain(out) ==
  LET plain[e \in 0 .. Len(out)] ==
        IF e = 0 THEN <<>>
        ELSE IF out[e] = NL THEN plain[e - 1] ELSE Append(plain[e - 1], out[e])
  IN  plain

\* CPRINT shows for each line all lines so far, without the newlines: here
\* what the lines from position s on add.
EchoFrom(out) ==
  LET echo[s \in 1 .. Len(out) + 1] ==
        IF s > Len(out) \/ out[s] = NL THEN <<>>
        ELSE Plain(out)[LineEnd(out, s)] \o <<NL>> \o echo[NextLine(out, s)]
  IN  echo

Echo(out) == EchoFrom(out)[1]

\* How many characters of the output are not read.
Unread(out) ==
  LET unread[s \in 1 .. Len(out) + 1] ==
        IF s > Len(out) THEN 0
        ELSE IF out[s] = NL THEN Len(out) - s
        ELSE unread[NextLine(out, s)]
  IN  unread[1]

\* How child and server fall beside each other does not show in CPRINT's
\* answer, whether the program came to its end or not: it is Echo of what the
\* last program with a pipe wrote, so that nothing is lost when the pipe is
\* empty for a moment, and there is none only if no command got a pipe.  Echo
\* is what the code makes of the output, not "the command line printing of the
\* lastest command" (README.MD): a line comes with all those before it, a
\* blank line ends it all, and so does the newline of a line that is full.
PrintIgnoresTiming ==
  \A c \in Clients : pc[c] = "request" =>
    sLastOutput[c] = IF ran[c] = Mark THEN Mark ELSE Echo(ran[c])

\* A command is answered, also if its program blocks on a full pipe for a
\* time, provided that what it prints after a blank line fits the pipe.
CommandAnswered ==
  \A c \in Clients :
    pc[c] = "pipe" /\ Unread(cmd[c].out) <= PipeSize ~> pc[c] = "request"

\* A client waiting for the shell server is served, unless a program blocks
\* for ever whose output after a blank line does not fit the pipe.
ClientServed ==
  \A c \in Clients :
    pc[c] = "lock" ~> \/ pc[c] = "request"
                      \/ \E d \in Clients : pc[d] = "wait" /\ Unread(cmd[d].out) > PipeSize

\* The shell server does what OneShell promises.
One == INSTANCE OneShell
         WITH owner <- ShellServerLock, running <- {c \in Clients : child[c] # "none"}

ServesOne == One!Spec

=============================================================================
