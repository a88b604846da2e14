-------------------------- MODULE ShellServer_proofs --------------------------
(***************************************************************************)
(* For any clients, programs, line length, pipe and number of descriptors: *)
(* ShellServer is type correct, runs one program at a time, implements     *)
(* OneShell, and what CPRINT shows does not depend on timing.              *)
(***************************************************************************)
EXTENDS ShellServer, SequenceTheorems, WellFoundedInduction, TLAPS

\* Where the pipe and the child of a command are open: what the guards of
\* RunShellCommand's steps rest on.
Stages ==
  \A c \in Clients :
    /\ c \in writers <=> pc[c] \in {"fork", "parent"}
    /\ child[c] # "none" => pc[c] \in {"parent", "copy", "wait"}
    /\ c \in writers => open >= 2
    /\ sent[c] # 0 \/ seen[c] # 0 => pc[c] \in {"parent", "copy", "wait"}

IInv == ShellTypeOK /\ OneProgram /\ Stages

LEMMA Constants ==
  /\ <<>> \in Text /\ Mark \in Text /\ <<NL>> \in Text
  /\ NoProgram.out = <<>> /\ Len(NoProgram.out) = 0
<1>1. <<>> \in Text /\ Len(<<>>) = 0
  BY EmptySeq DEF Text
<1>2. Mark \in Text /\ <<NL>> \in Text
  BY DEF Mark, Symbols, Text
<1>3. NoProgram.out = <<>>
  BY DEF NoProgram
<1> QED BY <1>1, <1>2, <1>3

LEMMA Outputs == \A p \in Programs \union {NoProgram} :
                   p.out \in Text /\ Len(p.out) \in Nat
<1>1. \A p \in Programs : p.out \in Text
  BY ShellAssumption DEF Symbols, Text
<1>2. NoProgram.out \in Text
  BY Constants, Zenon
<1> QED BY <1>1, <1>2, LenProperties DEF Text

LEMMA CmdOutput ==
  ASSUME ShellTypeOK, NEW c \in Clients
  PROVE  cmd[c].out \in Text /\ Len(cmd[c].out) \in Nat
BY Outputs DEF ShellTypeOK

LEMMA Concatenation ==
  ASSUME NEW s \in Text, NEW t \in Text, NEW x \in Symbols
  PROVE  s \o t \in Text /\ Append(s, x) \in Text
BY ConcatProperties, AppendProperties DEF Text

LEMMA InitIInv == Init => IInv
<1> SUFFICES ASSUME Init PROVE IInv
  OBVIOUS
<1> USE ShellAssumption, Constants
<1>1. ShellTypeOK
  <2>1. /\ pc \in [Clients -> {"off", "lock", "request", "pipe", "fork", "parent",
                               "copy", "wait"}]
        /\ cmd \in [Clients -> Programs \union {NoProgram}]
        /\ sent \in [Clients -> Nat] /\ seen \in [Clients -> Nat]
        /\ count \in [Clients -> 0 .. MaxLine - 1] /\ open \in 0 .. MaxOpen
    BY DEF Init
  <2>2. /\ sOutput \in [Clients -> Text] /\ ran \in [Clients -> Text]
        /\ sLastOutput \in [Clients -> Text] /\ DOMAIN told = Clients
    BY Zenon DEF Init
  <2>3. /\ child \in [Clients -> {"none", "running", "exited"}]
        /\ writers \subseteq Clients /\ heirs \in [Clients -> SUBSET Clients]
        /\ ShellServerLock \in Clients \union {NoClient} /\ background \in BOOLEAN
    BY DEF Init
  <2>4. \A c \in Clients : sent[c] = 0 /\ seen[c] = 0 /\ Len(cmd[c].out) = 0
    BY DEF Init
  <2> HIDE Constants
  <2> QED
    BY <2>1, <2>2, <2>3, <2>4 DEF ShellTypeOK, PipeFlow
<1>2. OneProgram /\ Stages
  BY DEF Init, OneProgram, Stages, InSession, InCommand
<1> QED BY <1>1, <1>2 DEF IInv

-----------------------------------------------------------------------------

\* The steps that take or leave the lock or wait for requests, the steps on
\* the pipe's ends, and those on the characters.
Sessions(c) ==
  Connect(c) \/ Acquire(c) \/ Cprint(c) \/ Request(c) \/ Leave(c) \/ PipeFails(c)

Ends(c) ==
  MakePipe(c) \/ Fork(c) \/ ForkFails(c) \/ StartReading(c) \/ ChildExit(c)

Characters(c) ==
  ChildWrite(c) \/ ReadChar(c) \/ ReadNewline(c) \/ ReadEnd(c)

LEMMA Cases ==
  ASSUME Next
  PROVE  \E c \in Clients : Sessions(c) \/ Ends(c) \/ Characters(c) \/ WaitChild(c)
BY DEF Next, Command, Child, Sessions, Ends, Characters

\* What passes through the pipe.
LEMMA FlowStep ==
  ASSUME IInv, NEW c \in Clients, Sessions(c) \/ Ends(c) \/ Characters(c) \/ WaitChild(c)
  PROVE  PipeFlow'
<1> SUFFICES ASSUME NEW d \in Clients
             PROVE  /\ sent'[d] <= Len(cmd'[d].out)
                    /\ sent'[d] - seen'[d] \in 0 .. PipeSize
  BY DEF PipeFlow
<1> DEFINE Same == sent'[d] = sent[d] /\ seen'[d] = seen[d] /\ cmd'[d] = cmd[d]
<1>1. /\ sent[d] \in Nat /\ seen[d] \in Nat /\ Len(cmd[d].out) \in Nat
      /\ sent[d] <= Len(cmd[d].out) /\ sent[d] - seen[d] \in 0 .. PipeSize
      /\ pc[d] \notin {"parent", "copy", "wait"} => sent[d] = 0 /\ seen[d] = 0
      /\ sent \in [Clients -> Nat] /\ seen \in [Clients -> Nat]
      /\ DOMAIN cmd = Clients /\ PipeSize \in Nat \ {0}
  BY CmdOutput, ShellAssumption DEF IInv, ShellTypeOK, PipeFlow, Stages
<1>2. CASE Sessions(c)
  <2>1. sent'[d] = sent[d] /\ seen'[d] = seen[d]
    BY <1>2 DEF Sessions, Connect, Acquire, Cprint, Request, Leave, PipeFails, chars
  <2>2. CASE Request(c) \/ PipeFails(c)
    <3>1. PICK p \in Programs \union {NoProgram} : cmd' = Set(cmd, c, p)
      BY <2>2 DEF Request, PipeFails
    <3>2. CASE d # c
      BY <1>1, <2>1, <3>1, <3>2 DEF Set
    <3>3. CASE d = c
      <4>1. cmd'[d] = p /\ sent[d] = 0 /\ seen[d] = 0
        BY <1>1, <2>2, <3>1, <3>3 DEF Request, PipeFails, Step, Set
      <4>2. Len(p.out) \in Nat
        BY Outputs
      <4> QED BY <1>1, <2>1, <4>1, <4>2
    <3> QED BY <3>2, <3>3
  <2>3. CASE Connect(c) \/ Acquire(c) \/ Cprint(c) \/ Leave(c)
    BY <1>1, <2>1, <2>3 DEF Connect, Acquire, Cprint, Leave
  <2> QED BY <1>2, <2>2, <2>3 DEF Sessions
<1>3. CASE Ends(c)
  <2>1. Same
    BY <1>3 DEF Ends, MakePipe, Fork, ForkFails, StartReading, ChildExit, chars
  <2> QED BY <1>1, <2>1
<1>4. CASE ChildWrite(c)
  BY <1>1, <1>4 DEF ChildWrite, Set
<1>5. CASE ReadChar(c) \/ ReadNewline(c)
  <2>1. /\ seen[c] < sent[c] /\ seen' = [seen EXCEPT ![c] = seen[c] + 1]
        /\ sent' = sent /\ cmd' = cmd
    BY <1>5 DEF ReadChar, ReadNewline, Reading, Set
  <2> QED BY <1>1, <2>1
<1>6. CASE ReadEnd(c)
  BY <1>1, <1>6 DEF ReadEnd
<1>7. CASE WaitChild(c)
  <2>1. /\ sent' = Set(sent, c, 0) /\ seen' = Set(seen, c, 0)
        /\ cmd' = Set(cmd, c, NoProgram)
    BY <1>7 DEF WaitChild, Answer
  <2>2. CASE d = c
    BY <1>1, <2>1, <2>2, Constants DEF Set
  <2>3. CASE d # c
    BY <1>1, <2>1, <2>3 DEF Set
  <2> QED BY <2>2, <2>3
<1> QED BY <1>2, <1>3, <1>4, <1>5, <1>6, <1>7 DEF Characters

LEMMA SessionsType ==
  ASSUME IInv, NEW c \in Clients, Sessions(c)
  PROVE  ShellTypeOK'
<1>0. PipeFlow'
  BY FlowStep
<1> USE <1>0, Constants DEF IInv, ShellTypeOK, Set, Step, chars, ends
<1>1. CASE Connect(c) BY <1>1 DEF Connect
<1>2. CASE Acquire(c) BY <1>2 DEF Acquire
<1>3. CASE Cprint(c) BY <1>3 DEF Cprint
<1>4. CASE Request(c) BY <1>4 DEF Request
<1>5. CASE Leave(c) BY <1>5 DEF Leave
<1>6. CASE PipeFails(c) BY <1>6 DEF PipeFails
<1> QED BY <1>1, <1>2, <1>3, <1>4, <1>5, <1>6 DEF Sessions

LEMMA EndsType ==
  ASSUME IInv, NEW c \in Clients, Ends(c)
  PROVE  ShellTypeOK'
<1>0. PipeFlow'
  BY FlowStep
<1> USE <1>0, Constants, ShellAssumption DEF IInv, ShellTypeOK, Set, Step, chars, ends
<1>1. CASE MakePipe(c) BY <1>1 DEF MakePipe
<1>2. CASE Fork(c) BY <1>2 DEF Fork
<1>3. CASE ForkFails(c) BY <1>3 DEF ForkFails
<1>4. CASE StartReading(c) BY <1>4 DEF StartReading, Stages
<1>5. CASE ChildExit(c) BY <1>5 DEF ChildExit
<1> QED BY <1>1, <1>2, <1>3, <1>4, <1>5 DEF Ends

\* A call of read by the server, when it has come to Record or not.
LEMMA ReadType ==
  ASSUME ShellTypeOK, PipeFlow', NEW c \in Clients, NEW output \in Text,
         NEW line \in Text, NEW read \in Nat, NEW k \in 0 .. MaxLine - 1,
         pc' \in {pc, Set(pc, c, "wait")},
         seen' = Set(seen, c, read),
         count' \in {count, Set(count, c, k)},
         sOutput' \in {sOutput, Set(sOutput, c, output)},
         sLastOutput' \in {sLastOutput, Set(sLastOutput, c, line)},
         UNCHANGED <<ShellServerLock, cmd, sent, child, ends, background, told, ran>>
  PROVE  ShellTypeOK'
<1>1. /\ pc' \in [Clients -> {"off", "lock", "request", "pipe", "fork", "parent",
                              "copy", "wait"}]
      /\ seen' \in [Clients -> Nat] /\ count' \in [Clients -> 0 .. MaxLine - 1]
  BY DEF ShellTypeOK, Set
<1>2. sOutput' \in [Clients -> Text] /\ sLastOutput' \in [Clients -> Text]
  BY DEF ShellTypeOK, Set
<1> QED BY <1>1, <1>2 DEF ShellTypeOK, ends

LEMMA CharactersType ==
  ASSUME IInv, NEW c \in Clients, Characters(c)
  PROVE  ShellTypeOK'
<1>0. PipeFlow'
  BY FlowStep
<1>1. cmd[c].out \in Text /\ Len(cmd[c].out) \in Nat
  BY CmdOutput DEF IInv
<1>2. /\ sOutput[c] \in Text /\ sLastOutput[c] \in Text /\ <<NL>> \in Text
      /\ sLastOutput[c] \o sOutput[c] \o <<NL>> \in Text
      /\ 0 \in 0 .. MaxLine - 1 /\ count[c] \in 0 .. MaxLine - 1
      /\ seen[c] \in Nat /\ seen[c] + 1 \in Nat /\ seen = Set(seen, c, seen[c])
  BY Constants, Concatenation, ShellAssumption DEF IInv, ShellTypeOK, Symbols, Set
<1>3. CASE ChildWrite(c)
  BY <1>0, <1>3 DEF ChildWrite, IInv, ShellTypeOK, Set, ends
<1>4. CASE ReadChar(c)
  <2> DEFINE output == Append(sOutput[c], Char(c))
             line   == sLastOutput[c] \o output \o <<NL>>
  <2>1. Char(c) \in Symbols
    BY <1>1, <1>4 DEF ReadChar, Reading, Char, Text, IInv, ShellTypeOK, PipeFlow
  <2>2. output \in Text
    BY <1>2, <2>1, Concatenation
  <2>3. line \in Text
    BY <1>2, <2>2, <2>1, Concatenation
  <2> HIDE DEF output, line
  <2>4. /\ seen' = Set(seen, c, seen[c] + 1)
        /\ UNCHANGED <<ShellServerLock, pc, cmd, sent, child, ends, background, told, ran>>
    BY <1>4 DEF ReadChar
  <2>5. CASE count[c] + 1 = MaxLine /\ Record(c, output)
    BY <1>0, <1>2, <2>2, <2>3, <2>4, <2>5, ReadType DEF Record, IInv, line
  <2>6. CASE /\ count[c] + 1 < MaxLine /\ sOutput' = Set(sOutput, c, output)
             /\ count' = Set(count, c, count[c] + 1) /\ UNCHANGED sLastOutput
    <3>1. count[c] + 1 \in 0 .. MaxLine - 1
      BY <1>2, <2>6, ShellAssumption
    <3> QED BY <1>0, <1>2, <2>2, <2>3, <2>4, <2>6, <3>1, ReadType DEF IInv
  <2> QED BY <1>4, <2>5, <2>6 DEF ReadChar, output
<1>5. CASE ReadNewline(c)
  <2>1. /\ seen' = Set(seen, c, seen[c] + 1)
        /\ UNCHANGED <<ShellServerLock, cmd, sent, child, ends, background, told, ran>>
    BY <1>5 DEF ReadNewline
  <2>2. CASE Record(c, sOutput[c]) /\ UNCHANGED pc
    BY <1>0, <1>2, <2>1, <2>2, ReadType DEF Record, IInv
  <2>3. CASE Step(c, "copy", "wait") /\ UNCHANGED <<count, sOutput, sLastOutput>>
    BY <1>0, <1>2, <2>1, <2>3, ReadType DEF Step, IInv
  <2> QED BY <1>5, <2>2, <2>3 DEF ReadNewline
<1>6. CASE ReadEnd(c)
  <2>1. /\ seen' = Set(seen, c, seen[c])
        /\ UNCHANGED <<ShellServerLock, cmd, sent, child, ends, background, told, ran>>
    BY <1>2, <1>6 DEF ReadEnd
  <2>2. CASE Record(c, sOutput[c]) /\ UNCHANGED pc
    BY <1>0, <1>2, <2>1, <2>2, ReadType DEF Record, IInv
  <2>3. CASE Step(c, "copy", "wait") /\ UNCHANGED <<count, sOutput, sLastOutput>>
    BY <1>0, <1>2, <2>1, <2>3, ReadType DEF Step, IInv
  <2> QED BY <1>6, <2>2, <2>3 DEF ReadEnd
<1> QED BY <1>3, <1>4, <1>5, <1>6 DEF Characters

LEMMA WaitChildType ==
  ASSUME IInv, NEW c \in Clients, WaitChild(c)
  PROVE  ShellTypeOK'
<1>0. PipeFlow'
  BY FlowStep
<1>1. SubSeq(cmd[c].out, 1, sent[c]) \in Text
  <2>1. cmd[c].out \in Text /\ sent[c] \in 0 .. Len(cmd[c].out)
    BY CmdOutput DEF IInv, ShellTypeOK, PipeFlow
  <2> QED BY <2>1, SubSeqProperties DEF Text
<1> QED
  BY <1>0, <1>1, Constants DEF IInv, ShellTypeOK, WaitChild, Answer, Step, Set, ends

-----------------------------------------------------------------------------

LEMMA StageStep ==
  ASSUME IInv, NEW c \in Clients, Sessions(c) \/ Ends(c) \/ Characters(c) \/ WaitChild(c)
  PROVE  OneProgram' /\ Stages'
<1>1. /\ pc \in [Clients -> {"off", "lock", "request", "pipe", "fork", "parent",
                             "copy", "wait"}]
      /\ child \in [Clients -> {"none", "running", "exited"}]
      /\ heirs \in [Clients -> SUBSET Clients] /\ writers \subseteq Clients
      /\ sent \in [Clients -> Nat] /\ seen \in [Clients -> Nat] /\ open \in Nat
      /\ NoClient \notin Clients
  BY ShellAssumption DEF IInv, ShellTypeOK
<1> USE <1>1
    DEF OneProgram, Stages, InSession, InCommand, Set, Step, chars, ends
<1>2. OneProgram /\ Stages
  BY DEF IInv
<1> USE <1>2
<1>3. CASE Sessions(c)
  <2>1. CASE Connect(c) BY <2>1 DEF Connect
  <2>2. CASE Acquire(c) BY <2>2 DEF Acquire
  <2>3. CASE Cprint(c) BY <2>3 DEF Cprint
  <2>4. CASE Request(c) BY <2>4 DEF Request
  <2>5. CASE Leave(c) BY <2>5 DEF Leave
  <2>6. CASE PipeFails(c) BY <2>6 DEF PipeFails
  <2> QED BY <1>3, <2>1, <2>2, <2>3, <2>4, <2>5, <2>6 DEF Sessions
<1>4. CASE Ends(c)
  <2>1. CASE MakePipe(c) BY <2>1 DEF MakePipe
  <2>2. CASE Fork(c) BY <2>2 DEF Fork
  <2>3. CASE ForkFails(c) BY <2>3 DEF ForkFails
  <2>4. CASE StartReading(c)
    <3>1. writers' = {}
      <4>1. ShellServerLock = c
        BY <2>4 DEF StartReading
      <4>2. \A d \in writers : ShellServerLock = d
        OBVIOUS
      <4> QED BY <2>4, <4>1, <4>2 DEF StartReading
    <3>2. OneProgram'
      BY <2>4, <3>1 DEF StartReading
    <3>3. Stages'
      BY <2>4, <3>1 DEF StartReading
    <3> QED BY <3>2, <3>3
  <2>5. CASE ChildExit(c) BY <2>5 DEF ChildExit
  <2> QED BY <1>4, <2>1, <2>2, <2>3, <2>4, <2>5 DEF Ends
<1>5. CASE Characters(c)
  <2>1. CASE ChildWrite(c) BY <2>1 DEF ChildWrite
  <2>2. CASE ReadChar(c) BY <2>2 DEF ReadChar, Reading
  <2>3. CASE ReadNewline(c) BY <2>3 DEF ReadNewline, Reading
  <2>4. CASE ReadEnd(c) BY <2>4 DEF ReadEnd
  <2> QED BY <1>5, <2>1, <2>2, <2>3, <2>4 DEF Characters
<1>6. CASE WaitChild(c) BY <1>6 DEF WaitChild, Answer
<1> QED BY <1>3, <1>4, <1>5, <1>6

LEMMA StepIInv == IInv /\ [Next]_vars => IInv'
<1> SUFFICES ASSUME IInv, [Next]_vars
             PROVE  IInv'
  OBVIOUS
<1>1. CASE Next
  <2>1. PICK c \in Clients : Sessions(c) \/ Ends(c) \/ Characters(c) \/ WaitChild(c)
    BY <1>1, Cases
  <2>2. ShellTypeOK'
    BY <2>1, SessionsType, EndsType, CharactersType, WaitChildType
  <2>3. OneProgram' /\ Stages'
    BY <2>1, StageStep
  <2> QED BY <2>2, <2>3 DEF IInv
<1>2. CASE UNCHANGED vars
  BY <1>2 DEF IInv, ShellTypeOK, PipeFlow, OneProgram, Stages, InSession, InCommand,
     vars, chars, ends
<1> QED BY <1>1, <1>2

LEMMA AlwaysIInv == Spec => []IInv
<1> QED BY InitIInv, StepIInv, PTL DEF Spec

\* The variables have their types, and the pipe holds no more than it can and
\* only what the child has written.
THEOREM ShellTypeCorrect == Spec => []ShellTypeOK
<1>1. IInv => ShellTypeOK
  BY DEF IInv
<1> QED BY <1>1, AlwaysIInv, PTL

\* ShellServerLock serializes the sessions and with them pipe, fork and
\* waitpid of RunShellCommand.
THEOREM ShellOneProgram == Spec => []OneProgram
<1>1. IInv => OneProgram
  BY DEF IInv
<1> QED BY <1>1, AlwaysIInv, PTL

-----------------------------------------------------------------------------

LEMMA InitOne == Init => One!Init
BY DEF Init, One!Init

LEMMA StepOne ==
  ASSUME IInv, Next
  PROVE  One!Next \/ UNCHANGED <<ShellServerLock, {c \in Clients : child[c] # "none"}>>
<1> DEFINE Running == {c \in Clients : child[c] # "none"}
<1>1. PICK c \in Clients : Sessions(c) \/ Ends(c) \/ Characters(c) \/ WaitChild(c)
  BY Cases
<1>2. /\ OneProgram /\ Stages /\ NoClient \notin Clients
      /\ child \in [Clients -> {"none", "running", "exited"}]
      /\ pc \in [Clients -> {"off", "lock", "request", "pipe", "fork", "parent",
                             "copy", "wait"}]
  BY ShellAssumption DEF IInv, ShellTypeOK
<1>3. \A d \in Running : ShellServerLock = d /\ pc[d] \in {"parent", "copy", "wait"}
  BY <1>2 DEF OneProgram, Stages, InSession
<1>4. CASE Acquire(c)
  <2>1. One!Enter(c)
    BY <1>4 DEF Acquire, One!Enter
  <2> QED BY <2>1 DEF One!Next
<1>5. CASE Leave(c)
  <2>1. Running = {} /\ ShellServerLock = c
    BY <1>2, <1>3, <1>5 DEF Leave, Step, OneProgram, InSession
  <2>2. One!Leave(c)
    BY <1>5, <2>1 DEF Leave, One!Leave
  <2> QED BY <2>2 DEF One!Next
<1>6. CASE Fork(c)
  <2>1. Running = {} /\ ShellServerLock = c
    BY <1>2, <1>3, <1>6 DEF Fork, Step, OneProgram, InSession
  <2>2. Running' = {c}
    BY <1>2, <1>6, <2>1 DEF Fork, Set
  <2>3. One!Start(c)
    BY <1>6, <2>1, <2>2 DEF Fork, One!Start
  <2> QED BY <2>3 DEF One!Next
<1>7. CASE WaitChild(c)
  <2>1. Running \subseteq {c} /\ ShellServerLock = c
    BY <1>2, <1>3, <1>7 DEF WaitChild, Step, OneProgram, InSession
  <2>2. Running' = {}
    BY <1>2, <1>7, <2>1 DEF WaitChild, Set
  <2>3. ShellServerLock' = ShellServerLock
    BY <1>7 DEF WaitChild, Answer
  <2>4. CASE Running = {}
    BY <2>2, <2>3, <2>4
  <2>5. CASE Running = {c}
    <3>1. One!Finish(c)
      BY <2>1, <2>2, <2>3, <2>5 DEF One!Finish
    <3> QED BY <3>1 DEF One!Next
  <2> QED BY <2>1, <2>4, <2>5
<1>8. CASE ChildExit(c)
  <2>1. Running' = Running /\ ShellServerLock' = ShellServerLock
    BY <1>2, <1>8 DEF ChildExit, Set
  <2> QED BY <2>1
<1>9. CASE \/ Connect(c) \/ Cprint(c) \/ Request(c) \/ PipeFails(c) \/ MakePipe(c)
           \/ ForkFails(c) \/ StartReading(c) \/ Characters(c)
  <2>1. child' = child /\ ShellServerLock' = ShellServerLock
    BY <1>9 DEF Connect, Cprint, Request, PipeFails, MakePipe, ForkFails, StartReading,
       Characters, ChildWrite, ReadChar, ReadNewline, ReadEnd
  <2> QED BY <2>1
<1> QED BY <1>1, <1>4, <1>5, <1>6, <1>7, <1>8, <1>9 DEF Sessions, Ends

\* The shell server, with its children, pipes and answers, implements
\* OneShell.
THEOREM ShellImplementsOne == Spec => ServesOne
<1>1. IInv /\ [Next]_vars
        => [One!Next]_<<ShellServerLock, {c \in Clients : child[c] # "none"}>>
  <2>1. CASE Next
    BY <2>1, StepOne
  <2>2. CASE UNCHANGED vars
    BY <2>2 DEF vars
  <2> QED BY <2>1, <2>2
<1> QED BY <1>1, InitOne, AlwaysIInv, PTL DEF Spec, ServesOne, One!Spec

-----------------------------------------------------------------------------
(* The lines of an output.                                                 *)

\* Every set of numbers has a least one.
LEMMA Least ==
  ASSUME NEW T, T \subseteq Nat, T # {}
  PROVE  \E m \in T : \A k \in T : m <= k
<1> DEFINE R == OpToRel(<, Nat)
<1>1. IsWellFoundedOn(R, Nat)
  BY NatLessThanWellFounded
<1>2. \A x, y \in Nat : <<x, y>> \in R <=> x < y
  BY DEF OpToRel
<1> HIDE DEF R
<1>3. PICK m \in T : \A k \in T : ~(<<k, m>> \in R)
  BY <1>1, WFMin
<1>4. m \in Nat /\ \A k \in T : k \in Nat /\ ~(k < m)
  BY <1>2, <1>3, Zenon
<1>5. \A k \in T : m <= k
  BY <1>4
<1> QED
  BY <1>5

\* Induction up to N, for a set instead of a predicate.
LEMMA UpTo ==
  ASSUME NEW N \in Nat, NEW S, 0 \in S,
         \A k \in 0 .. N : k \in S /\ k < N => k + 1 \in S
  PROVE  \A k \in 0 .. N : k \in S
<1> DEFINE T == {k \in 0 .. N : k \notin S}
<1> SUFFICES ASSUME T # {} PROVE FALSE
  OBVIOUS
<1>0. T \subseteq Nat
  OBVIOUS
<1>1. PICK m \in T : \A k \in T : m <= k
  <2> HIDE DEF T
  <2> QED BY <1>0, Least
<1>2. m \in 0 .. N /\ m # 0 /\ m - 1 \in 0 .. N /\ m - 1 \notin T
  BY <1>1
<1>3. m - 1 \in S
  BY <1>2
<1>4. m \in S
  <2>1. (m - 1) + 1 = m /\ m - 1 < N
    BY <1>2
  <2> QED BY <1>2, <1>3, <2>1
<1> QED
  BY <1>1, <1>4

\* LineEnd takes the maximum of a set that has one.
LEMMA LineEndIs ==
  ASSUME NEW out \in Text, NEW s \in 1 .. Len(out), out[s] # NL
  PROVE  /\ LineEnd(out, s) \in s .. Len(out)
         /\ LineEnd(out, s) - s < MaxLine
         /\ \A i \in s .. LineEnd(out, s) : out[i] # NL
         /\ \A e \in s .. Len(out) :
              e - s < MaxLine /\ (\A i \in s .. e : out[i] # NL) => e <= LineEnd(out, s)
         /\ NextLine(out, s) \in s + 1 .. Len(out) + 1
<1> DEFINE L == Len(out)
           E == {e \in s .. L : e - s < MaxLine /\ \A i \in s .. e : out[i] # NL}
           T == {L - e : e \in E}
<1>1. L \in Nat /\ MaxLine \in Nat \ {0} /\ s \in Nat /\ s \in E
  BY LenProperties, ShellAssumption DEF Text
<1>2. PICK m \in T : \A k \in T : m <= k
  <2>1. T \subseteq Nat /\ T # {}
    BY <1>1
  <2> HIDE DEF T
  <2> QED BY <2>1, Least
<1>3. PICK e \in E : m = L - e
  OBVIOUS
<1>4. \A y \in E : e >= y
  <2>1. \A y \in E : L - y \in T /\ y \in Int
    BY <1>1
  <2>2. \A y \in E : L - e <= L - y
    BY <1>2, <1>3, <2>1
  <2>3. e \in Int
    BY <1>1
  <2> HIDE DEF E, T
  <2> QED BY <1>1, <2>1, <2>2, <2>3
<1>5. LineEnd(out, s) = Max(E)
  BY DEF LineEnd
<1> HIDE DEF E
<1>6. Max(E) \in E /\ \A y \in E : Max(E) >= y
  BY <1>4, Zenon DEF Max
<1>7. /\ LineEnd(out, s) \in s .. L /\ LineEnd(out, s) - s < MaxLine
      /\ \A i \in s .. LineEnd(out, s) : out[i] # NL
  BY <1>5, <1>6 DEF E
<1>8. ASSUME NEW x \in s .. L, x - s < MaxLine, \A i \in s .. x : out[i] # NL
      PROVE  x <= LineEnd(out, s)
  <2>1. x \in E
    BY <1>8 DEF E
  <2> QED BY <1>1, <1>5, <1>6, <1>7, <2>1
<1>9. NextLine(out, s) \in s + 1 .. L + 1
  BY <1>1, <1>7 DEF NextLine
<1> QED
  BY <1>7, <1>8, <1>9

\* A line that ends at e.
LEMMA LineEndAt ==
  ASSUME NEW out \in Text, NEW s \in 1 .. Len(out), NEW e \in s .. Len(out),
         e - s < MaxLine, \A i \in s .. e : out[i] # NL,
         e - s + 1 = MaxLine \/ e = Len(out) \/ out[e + 1] = NL
  PROVE  LineEnd(out, s) = e
<1>1. Len(out) \in Nat /\ MaxLine \in Nat \ {0} /\ s \in Nat /\ s \in s .. e
  BY LenProperties, ShellAssumption DEF Text
<1>2. out[s] # NL
  BY <1>1
<1> DEFINE x == LineEnd(out, s)
<1>3. /\ x \in s .. Len(out) /\ x - s < MaxLine /\ e <= x
      /\ \A i \in s .. x : out[i] # NL
  BY <1>1, <1>2, LineEndIs
<1> HIDE DEF x
<1>4. e + 1 \notin s .. x
  BY <1>1, <1>3
<1>5. x = e
  BY <1>1, <1>3, <1>4
<1> QED
  BY <1>5 DEF x

-----------------------------------------------------------------------------

\* Plain is defined for each position.
LEMMA PlainIs ==
  ASSUME NEW out \in Text
  PROVE  /\ Plain(out) \in [0 .. Len(out) -> Text]
         /\ Plain(out)[0] = <<>>
         /\ \A e \in 1 .. Len(out) :
              Plain(out)[e] = IF out[e] = NL THEN Plain(out)[e - 1]
                              ELSE Append(Plain(out)[e - 1], out[e])
<1> DEFINE L == Len(out)
           Body(g, e) == IF e = 0 THEN <<>>
                         ELSE IF out[e] = NL THEN g[e - 1] ELSE Append(g[e - 1], out[e])
           S == {k \in 0 .. L : \E g \in [0 .. k -> Text] : \A e \in 0 .. k : g[e] = Body(g, e)}
<1>1. L \in Nat /\ <<>> \in Text /\ \A e \in 1 .. L : out[e] \in Symbols
  BY LenProperties, EmptySeq, ElementOfSeq DEF Text
<1>2. 0 \in S
  <2> DEFINE g == [e \in 0 .. 0 |-> <<>>]
  <2>1. g \in [0 .. 0 -> Text] /\ \A e \in 0 .. 0 : g[e] = Body(g, e)
    BY <1>1
  <2> HIDE DEF g, Body
  <2> QED BY <1>1, <2>1
<1>3. ASSUME NEW k \in 0 .. L, k \in S, k < L
      PROVE  k + 1 \in S
  <2>1. PICK g \in [0 .. k -> Text] : \A e \in 0 .. k : g[e] = Body(g, e)
    BY <1>3
  <2> DEFINE h == [e \in 0 .. k + 1 |-> IF e = k + 1 THEN Body(g, e) ELSE g[e]]
  <2>2. k \in Nat /\ k + 1 \in 1 .. L /\ (k + 1) - 1 = k
    BY <1>1, <1>3
  <2>3. Body(g, k + 1) \in Text
    <3>1. g[k] \in Text /\ out[k + 1] \in Symbols
      BY <1>1, <2>2
    <3>2. Append(g[k], out[k + 1]) \in Text
      BY <3>1, Concatenation
    <3> QED BY <2>2, <3>1, <3>2
  <2>4. h \in [0 .. k + 1 -> Text]
    <3> HIDE DEF Body
    <3> QED BY <2>2, <2>3
  <2>5. \A e \in 0 .. k : h[e] = g[e]
    BY <2>2
  <2>6. h[k + 1] = Body(g, k + 1)
    BY <2>2
  <2>7. \A e \in 0 .. k + 1 : h[e] = Body(h, e)
    <3> HIDE DEF h
    <3> SUFFICES ASSUME NEW e \in 0 .. k + 1 PROVE h[e] = Body(h, e)
      OBVIOUS
    <3>1. e # 0 => e - 1 \in 0 .. k
      BY <2>2
    <3>2. Body(h, e) = Body(g, e)
      BY <2>5, <3>1
    <3>3. h[e] = Body(g, e)
      <4>1. CASE e = k + 1
        BY <2>6, <4>1
      <4>2. CASE e # k + 1
        <5>1. e \in 0 .. k
          BY <2>2, <4>2
        <5> HIDE DEF Body
        <5> QED BY <2>1, <2>5, <5>1
      <4> QED BY <4>1, <4>2
    <3> QED BY <3>2, <3>3
  <2> HIDE DEF h, Body
  <2> QED BY <2>2, <2>4, <2>7
<1>4. L \in S
  <2>1. \A k \in 0 .. L : k \in S /\ k < L => k + 1 \in S
    BY <1>3
  <2> HIDE DEF S
  <2>2. \A k \in 0 .. L : k \in S
    BY <1>1, <1>2, <2>1, UpTo
  <2> QED BY <1>1, <2>2
<1>5. PICK g \in [0 .. L -> Text] : \A e \in 0 .. L : g[e] = Body(g, e)
  BY <1>4
<1>6. g = [e \in 0 .. L |-> Body(g, e)]
  BY <1>5
<1>7. Plain(out) = [e \in 0 .. L |-> Body(Plain(out), e)]
  BY <1>6, Zenon DEF Plain
<1> DEFINE f == Plain(out)
<1>8. \A e \in 0 .. L : f[e] = Body(f, e)
  BY <1>7
<1>9. \A e \in 0 .. L : f[e] = g[e]
  <2> DEFINE A == {e \in 0 .. L : f[e] = g[e]}
  <2>1. 0 \in A
    BY <1>1, <1>5, <1>8
  <2>2. ASSUME NEW e \in 0 .. L, e \in A, e < L
        PROVE  e + 1 \in A
    <3>1. e + 1 \in 0 .. L /\ e + 1 # 0 /\ (e + 1) - 1 = e /\ f[e] = g[e]
      BY <1>1, <2>2
    <3>2. Body(f, e + 1) = Body(g, e + 1)
      BY <3>1
    <3>3. f[e + 1] = Body(f, e + 1) /\ g[e + 1] = Body(g, e + 1)
      <4> HIDE DEF Body
      <4> QED BY <1>5, <1>8, <3>1
    <3> HIDE DEF Body, f
    <3> QED BY <3>1, <3>2, <3>3
  <2>3. \A e \in 0 .. L : e \in A /\ e < L => e + 1 \in A
    BY <2>2
  <2> HIDE DEF A
  <2>4. \A e \in 0 .. L : e \in A
    BY <1>1, <2>1, <2>3, UpTo
  <2> QED BY <2>4 DEF A
<1>10. f \in [0 .. L -> Text]
  <2>1. DOMAIN f = 0 .. L /\ f = [e \in DOMAIN f |-> f[e]]
    BY <1>7
  <2> HIDE DEF f
  <2> QED BY <1>5, <1>9, <2>1
<1>11. f[0] = <<>>
  BY <1>1, <1>8
<1>12. \A e \in 1 .. L : f[e] = IF out[e] = NL THEN f[e - 1] ELSE Append(f[e - 1], out[e])
  <2> SUFFICES ASSUME NEW e \in 1 .. L
               PROVE  f[e] = IF out[e] = NL THEN f[e - 1] ELSE Append(f[e - 1], out[e])
    OBVIOUS
  <2>1. e \in 0 .. L /\ e # 0
    BY <1>1
  <2> QED BY <1>8, <2>1
<1> QED
  BY <1>10, <1>11, <1>12

\* EchoFrom is defined for each position: lines follow each other.
LEMMA EchoIs ==
  ASSUME NEW out \in Text
  PROVE  /\ EchoFrom(out) \in [1 .. Len(out) + 1 -> Text]
         /\ \A s \in 1 .. Len(out) + 1 :
              EchoFrom(out)[s] =
                IF s > Len(out) \/ out[s] = NL THEN <<>>
                ELSE Plain(out)[LineEnd(out, s)] \o <<NL>> \o EchoFrom(out)[NextLine(out, s)]
<1> DEFINE L == Len(out)
           Line(s) == Plain(out)[LineEnd(out, s)] \o <<NL>>
           Body(g, s) == IF s > L \/ out[s] = NL THEN <<>>
                         ELSE Line(s) \o g[NextLine(out, s)]
           S == {k \in 0 .. L : \E g \in [L + 1 - k .. L + 1 -> Text] :
                                  \A s \in L + 1 - k .. L + 1 : g[s] = Body(g, s)}
<1>1. L \in Nat /\ <<>> \in Text
  BY LenProperties, EmptySeq DEF Text
<1>2. \A s \in 1 .. L : out[s] # NL =>
         Line(s) \in Text /\ NextLine(out, s) \in s + 1 .. L + 1
  <2> SUFFICES ASSUME NEW s \in 1 .. L, out[s] # NL
               PROVE  Line(s) \in Text /\ NextLine(out, s) \in s + 1 .. L + 1
    OBVIOUS
  <2>1. LineEnd(out, s) \in s .. L /\ NextLine(out, s) \in s + 1 .. L + 1
    BY LineEndIs
  <2>2. Plain(out)[LineEnd(out, s)] \in Text /\ <<NL>> \in Text
    BY <1>1, <2>1, PlainIs, Constants
  <2>3. Line(s) \in Text
    BY <2>2, ConcatProperties DEF Text, Line
  <2> QED BY <2>1, <2>3
<1> HIDE DEF Line
<1>3. 0 \in S
  <2> DEFINE g == [s \in L + 1 - 0 .. L + 1 |-> <<>>]
  <2>1. \A s \in L + 1 - 0 .. L + 1 : s > L
    BY <1>1
  <2>2. g \in [L + 1 - 0 .. L + 1 -> Text] /\ \A s \in L + 1 - 0 .. L + 1 : g[s] = Body(g, s)
    BY <1>1, <2>1
  <2> HIDE DEF g, Body
  <2> QED BY <1>1, <2>2
<1>4. ASSUME NEW k \in 0 .. L, k \in S, k < L
      PROVE  k + 1 \in S
  <2> DEFINE a == L - k
  <2>1. a \in 1 .. L /\ L + 1 - k = a + 1 /\ L + 1 - (k + 1) = a
    BY <1>1, <1>4
  <2>2. PICK g \in [a + 1 .. L + 1 -> Text] : \A s \in a + 1 .. L + 1 : g[s] = Body(g, s)
    BY <1>4, <2>1
  <2> HIDE DEF a
  <2> DEFINE h == [s \in a .. L + 1 |-> IF s = a THEN Body(g, s) ELSE g[s]]
  <2>3. Body(g, a) \in Text
    <3>1. CASE out[a] = NL
      BY <1>1, <3>1
    <3>2. CASE out[a] # NL
      <4>1. g[NextLine(out, a)] \in Text /\ Line(a) \in Text
        BY <1>2, <2>1, <3>2
      <4>2. Line(a) \o g[NextLine(out, a)] \in Text
        BY <4>1 DEF Text
      <4> QED BY <2>1, <3>2, <4>2
    <3> QED BY <3>1, <3>2
  <2>4. h \in [a .. L + 1 -> Text]
    <3> HIDE DEF Body
    <3> QED BY <1>1, <2>1, <2>3
  <2>5. \A s \in a + 1 .. L + 1 : h[s] = g[s]
    BY <2>1
  <2>6. h[a] = Body(g, a)
    BY <1>1, <2>1
  <2>7. \A s \in a .. L + 1 : h[s] = Body(h, s)
    <3> HIDE DEF h
    <3> SUFFICES ASSUME NEW s \in a .. L + 1 PROVE h[s] = Body(h, s)
      OBVIOUS
    <3>1. s <= L /\ out[s] # NL => NextLine(out, s) \in a + 1 .. L + 1
      BY <1>1, <1>2, <2>1
    <3>2. s > L \/ s <= L
      BY <1>1, <2>1
    <3>3. Body(h, s) = Body(g, s)
      BY <2>5, <3>1, <3>2
    <3>4. h[s] = Body(g, s)
      <4>1. CASE s = a
        BY <2>6, <4>1
      <4>2. CASE s # a
        <5>1. s \in a + 1 .. L + 1
          BY <1>1, <2>1, <4>2
        <5> HIDE DEF Body
        <5> QED BY <2>2, <2>5, <5>1
      <4> QED BY <4>1, <4>2
    <3> QED BY <3>3, <3>4
  <2>8. k + 1 \in 0 .. L
    BY <1>1, <1>4
  <2> HIDE DEF h, Body
  <2> QED BY <2>1, <2>4, <2>7, <2>8
<1>5. L \in S
  <2>1. \A k \in 0 .. L : k \in S /\ k < L => k + 1 \in S
    BY <1>4
  <2> HIDE DEF S
  <2>2. \A k \in 0 .. L : k \in S
    BY <1>1, <1>3, <2>1, UpTo
  <2> QED BY <1>1, <2>2
<1>6. PICK g \in [1 .. L + 1 -> Text] : \A s \in 1 .. L + 1 : g[s] = Body(g, s)
  <2>1. L + 1 - L = 1
    BY <1>1
  <2> QED BY <1>5, <2>1
<1>7. g = [s \in 1 .. L + 1 |-> Body(g, s)]
  BY <1>6
<1>8. EchoFrom(out) = [s \in 1 .. L + 1 |-> Body(EchoFrom(out), s)]
  BY <1>7, Zenon DEF EchoFrom, Line
<1> DEFINE f == EchoFrom(out)
<1>9. \A s \in 1 .. L + 1 : f[s] = Body(f, s)
  BY <1>8
<1>10. \A s \in 1 .. L + 1 : f[s] = g[s]
  <2> DEFINE A == {k \in 0 .. L : \A s \in L + 1 - k .. L + 1 : f[s] = g[s]}
  <2>1. 0 \in A
    BY <1>1, <1>6, <1>9
  <2>2. ASSUME NEW k \in 0 .. L, k \in A, k < L
        PROVE  k + 1 \in A
    <3> DEFINE a == L - k
    <3>1. /\ a \in 1 .. L /\ a \in 1 .. L + 1 /\ L + 1 - k = a + 1 /\ L + 1 - (k + 1) = a
          /\ k + 1 \in 0 .. L
      BY <1>1, <2>2
    <3>2. \A s \in a + 1 .. L + 1 : f[s] = g[s]
      BY <2>2, <3>1
    <3> HIDE DEF a, f
    <3>3. Body(f, a) = Body(g, a)
      <4>1. CASE out[a] = NL
        BY <4>1
      <4>2. CASE out[a] # NL
        <5>1. NextLine(out, a) \in a + 1 .. L + 1
          BY <1>2, <3>1, <4>2
        <5> QED BY <3>2, <5>1
      <4> QED BY <4>1, <4>2
    <3>4. f[a] = Body(f, a) /\ g[a] = Body(g, a)
      <4> HIDE DEF Body
      <4> QED BY <1>6, <1>9, <3>1
    <3>5. \A s \in a .. L + 1 : s = a \/ s \in a + 1 .. L + 1
      BY <1>1, <3>1
    <3>6. \A s \in a .. L + 1 : f[s] = g[s]
      <4> HIDE DEF Body
      <4> QED BY <3>2, <3>3, <3>4, <3>5
    <3> HIDE DEF Body
    <3> QED BY <3>1, <3>6
  <2>3. \A k \in 0 .. L : k \in A /\ k < L => k + 1 \in A
    BY <2>2
  <2>4. L \in A
    <3> HIDE DEF A
    <3>1. \A k \in 0 .. L : k \in A
      BY <1>1, <2>1, <2>3, UpTo
    <3> QED BY <1>1, <3>1
  <2>5. L + 1 - L = 1
    BY <1>1
  <2> HIDE DEF f
  <2> QED BY <2>4, <2>5
<1>11. f \in [1 .. L + 1 -> Text]
  <2>1. DOMAIN f = 1 .. L + 1 /\ f = [s \in DOMAIN f |-> f[s]]
    BY <1>8
  <2> HIDE DEF f
  <2> QED BY <1>6, <1>10, <2>1
<1>12. \A s \in 1 .. L + 1 :
         f[s] = IF s > L \/ out[s] = NL THEN <<>>
                ELSE Plain(out)[LineEnd(out, s)] \o <<NL>> \o f[NextLine(out, s)]
  BY <1>9 DEF Line
<1> QED
  BY <1>11, <1>12

LEMMA AssociativeSymbols ==
  ASSUME NEW x \in Seq(Symbols), NEW y \in Seq(Symbols), NEW z \in Seq(Symbols)
  PROVE  (x \o y) \o z = x \o (y \o z)
BY ConcatAssociative

LEMMA Associative ==
  ASSUME NEW x \in Text, NEW y \in Text, NEW z \in Text
  PROVE  (x \o y) \o z = x \o (y \o z)
BY AssociativeSymbols DEF Text

\* The line from s to e adds itself and those before it, and the next one
\* begins behind it and its newline.
LEMMA EchoLine ==
  ASSUME NEW out \in Text, NEW s \in 1 .. Len(out), NEW e \in s .. Len(out),
         e - s < MaxLine, \A i \in s .. e : out[i] # NL,
         e - s + 1 = MaxLine \/ e = Len(out) \/ out[e + 1] = NL,
         NEW last \in Text, Echo(out) = last \o EchoFrom(out)[s]
  PROVE  Echo(out) = (last \o Plain(out)[e] \o <<NL>>)
                       \o EchoFrom(out)[IF e - s + 1 < MaxLine /\ e < Len(out)
                                        THEN e + 2 ELSE e + 1]
<1> DEFINE next == IF e - s + 1 < MaxLine /\ e < Len(out) THEN e + 2 ELSE e + 1
           p == Plain(out)[e]
           rest == EchoFrom(out)[next]
<1>1. Len(out) \in Nat /\ MaxLine \in Nat \ {0} /\ s \in s .. e
  BY LenProperties, ShellAssumption DEF Text
<1>2. LineEnd(out, s) = e /\ NextLine(out, s) = next
  BY LineEndAt DEF NextLine
<1>3. s \in 1 .. Len(out) + 1 /\ ~(s > Len(out)) /\ out[s] # NL
  BY <1>1
<1>4. EchoFrom(out)[s] = p \o <<NL>> \o rest
  BY <1>2, <1>3, EchoIs
<1>5. next \in 1 .. Len(out) + 1 /\ e \in 0 .. Len(out)
  BY <1>1
<1>6. p \in Text /\ rest \in Text /\ <<NL>> \in Text
  <2> HIDE DEF next
  <2> QED BY <1>5, EchoIs, PlainIs, Constants
<1> HIDE DEF p, rest
<1>7. last \o (p \o <<NL>> \o rest) = (last \o p \o <<NL>>) \o rest
  <2>1. p \o <<NL>> \in Text /\ last \o p \in Text
    BY <1>6, ConcatProperties DEF Text
  <2>2. last \o ((p \o <<NL>>) \o rest) = (last \o (p \o <<NL>>)) \o rest
    BY <1>6, <2>1, Associative
  <2>3. last \o (p \o <<NL>>) = (last \o p) \o <<NL>>
    BY <1>6, Associative
  <2> QED BY <2>2, <2>3
<1> QED
  BY <1>4, <1>7 DEF p, rest

\* At the end, or before a blank line, nothing is added.
LEMMA EchoEnd ==
  ASSUME NEW out \in Text, NEW s \in 1 .. Len(out) + 1, s = Len(out) + 1 \/ out[s] = NL,
         NEW last \in Text, Echo(out) = last \o EchoFrom(out)[s]
  PROVE  Echo(out) = last
<1>1. Len(out) \in Nat
  BY LenProperties DEF Text
<1>2. s > Len(out) \/ out[s] = NL
  BY <1>1
<1>3. EchoFrom(out)[s] = <<>>
  BY <1>2, EchoIs
<1> QED
  BY <1>3, ConcatEmptySeq DEF Text

-----------------------------------------------------------------------------
(* What CPRINT shows.                                                      *)

\* How much the child may have written when it ends, and that output.
Final(c) ==
  {n \in sent[c] .. Len(cmd[c].out) : child[c] = "running" \/ n = sent[c]}

Wrote(c, n) == SubSeq(cmd[c].out, 1, n)

\* Where the line being read begins.
Start(c) == seen[c] - count[c] + 1

\* The server has dealt with the lines of out before the one it is reading.
Copied(c, out) ==
  /\ sOutput[c] = Plain(out)[seen[c]]
  /\ \A k \in Start(c) .. seen[c] : out[k] # NL
  /\ Echo(out) = sLastOutput[c] \o EchoFrom(out)[Start(c)]

Shown(c) == sLastOutput[c] = IF ran[c] = Mark THEN Mark ELSE Echo(ran[c])

\* Whatever the child still writes, what the server has recorded is a
\* beginning of what CPRINT will have to show.
Faithful(c) ==
  /\ child[c] = "running" => c \in heirs[c]
  /\ count[c] <= seen[c] /\ (pc[c] # "copy" => count[c] = 0)
  /\ pc[c] \notin {"copy", "wait"} => seen[c] = 0 /\ sOutput[c] = <<>>
  /\ pc[c] \in {"request", "pipe", "fork", "parent"} => Shown(c)
  /\ pc[c] = "copy" => \A n \in Final(c) : Copied(c, Wrote(c, n))
  /\ pc[c] = "wait" => \A n \in Final(c) : sLastOutput[c] = Echo(Wrote(c, n))

LEMMA WroteIs ==
  ASSUME ShellTypeOK, NEW c \in Clients, NEW n \in Final(c)
  PROVE  /\ n \in Nat /\ sent[c] <= n /\ Wrote(c, n) \in Text /\ Len(Wrote(c, n)) = n
         /\ \A k \in 1 .. n : Wrote(c, n)[k] = cmd[c].out[k]
<1>1. cmd[c].out \in Text /\ Len(cmd[c].out) \in Nat /\ sent[c] \in Nat
  BY CmdOutput DEF ShellTypeOK
<1>2. n \in 0 .. Len(cmd[c].out) /\ sent[c] <= n
  BY <1>1 DEF Final
<1> QED
  BY <1>1, <1>2, SubSeqProperties DEF Wrote, Text

\* Steps of others, and of the child: fewer outputs may become final.
LEMMA FaithfulFrame ==
  ASSUME NEW c \in Clients, Faithful(c),
         child'[c] = "running" => c \in heirs'[c],
         pc'[c] = pc[c], cmd'[c].out = cmd[c].out, seen'[c] = seen[c], count'[c] = count[c],
         sOutput'[c] = sOutput[c], sLastOutput'[c] = sLastOutput[c], ran'[c] = ran[c],
         Final(c)' \subseteq Final(c)
  PROVE  Faithful(c)'
<1>1. Start(c)' = Start(c) /\ Shown(c)' = Shown(c)
  BY DEF Start, Shown
<1>2. \A n \in Final(c)' : Wrote(c, n)' = Wrote(c, n)
  BY DEF Wrote
<1>3. pc[c] = "copy" => \A n \in Final(c)' : Copied(c, Wrote(c, n))'
  BY <1>1, <1>2 DEF Faithful, Copied
<1>4. pc[c] = "wait" => \A n \in Final(c)' : sLastOutput'[c] = Echo(Wrote(c, n)')
  BY <1>2 DEF Faithful
<1> QED
  BY <1>1, <1>3, <1>4 DEF Faithful

LEMMA FaithfulInit == Init => \A c \in Clients : Faithful(c)
BY DEF Init, Faithful

\* The variables are functions of the clients.
LEMMA Domains ==
  ASSUME ShellTypeOK
  PROVE  /\ DOMAIN pc = Clients /\ DOMAIN cmd = Clients /\ DOMAIN sent = Clients
         /\ DOMAIN seen = Clients /\ DOMAIN count = Clients /\ DOMAIN sOutput = Clients
         /\ DOMAIN sLastOutput = Clients /\ DOMAIN child = Clients
         /\ DOMAIN heirs = Clients /\ DOMAIN ran = Clients
BY Zenon DEF ShellTypeOK

\* A step of one session or child leaves what belongs to another alone.
LEMMA FaithfulOther ==
  ASSUME IInv, NEW c \in Clients, NEW d \in Clients, c # d, Faithful(d),
         Sessions(c) \/ Ends(c) \/ Characters(c) \/ WaitChild(c)
  PROVE  Faithful(d)'
<1>1. /\ DOMAIN pc = Clients /\ DOMAIN cmd = Clients /\ DOMAIN sent = Clients
      /\ DOMAIN seen = Clients /\ DOMAIN count = Clients /\ DOMAIN sOutput = Clients
      /\ DOMAIN sLastOutput = Clients /\ DOMAIN child = Clients
      /\ DOMAIN heirs = Clients /\ DOMAIN ran = Clients
  BY Domains DEF IInv
<1> DEFINE Same == /\ pc'[d] = pc[d] /\ cmd'[d] = cmd[d] /\ sent'[d] = sent[d]
                   /\ seen'[d] = seen[d] /\ count'[d] = count[d] /\ child'[d] = child[d]
                   /\ sOutput'[d] = sOutput[d] /\ sLastOutput'[d] = sLastOutput[d]
                   /\ ran'[d] = ran[d] /\ (d \in heirs[d] => d \in heirs'[d])
<1>2. Same
  <2>1. CASE Sessions(c)
    BY <1>1, <2>1 DEF Sessions, Connect, Acquire, Cprint, Request, Leave, PipeFails,
                      chars, ends, Step, Set
  <2>2. CASE Ends(c)
    BY <1>1, <2>2 DEF Ends, MakePipe, Fork, ForkFails, StartReading, ChildExit,
                      chars, ends, Step, Set
  <2>3. CASE Characters(c)
    BY <1>1, <2>3 DEF Characters, ChildWrite, ReadChar, ReadNewline, ReadEnd, Record,
                      ends, Step, Set
  <2>4. CASE WaitChild(c)
    BY <1>1, <2>4 DEF WaitChild, Answer, ends, Step, Set
  <2> QED BY <2>1, <2>2, <2>3, <2>4
<1>3. Final(d)' = Final(d)
  BY <1>2 DEF Final
<1>4. child'[d] = "running" => d \in heirs'[d]
  BY <1>2 DEF Faithful
<1> QED
  BY <1>2, <1>3, <1>4, FaithfulFrame

\* The child writes what its program has to print, or ends.
LEMMA FaithfulChild ==
  ASSUME IInv, NEW c \in Clients, Faithful(c), ChildWrite(c) \/ ChildExit(c)
  PROVE  Faithful(c)'
<1>1. /\ sent[c] \in Nat /\ Len(cmd[c].out) \in Nat /\ sent \in [Clients -> Nat]
      /\ DOMAIN child = Clients /\ DOMAIN heirs = Clients /\ child[c] = "running"
  BY CmdOutput, Domains DEF IInv, ShellTypeOK, ChildWrite, ChildExit
<1>2. /\ pc' = pc /\ cmd' = cmd /\ seen' = seen /\ count' = count /\ sOutput' = sOutput
      /\ sLastOutput' = sLastOutput /\ ran' = ran
  BY DEF ChildWrite, ChildExit, chars
<1>3. child'[c] = "running" => c \in heirs'[c]
  BY <1>1 DEF ChildWrite, ChildExit, ends, Set, Faithful
<1>4. sent'[c] \in Nat /\ sent[c] <= sent'[c]
  BY <1>1 DEF ChildWrite, ChildExit, chars, Set
<1>5. ASSUME NEW n \in Final(c)' PROVE n \in Final(c)
  BY <1>1, <1>2, <1>4, <1>5 DEF Final
<1> QED
  BY <1>2, <1>3, <1>5, FaithfulFrame

\* The session's steps before it reads.
LEMMA FaithfulSession ==
  ASSUME NEW c \in Clients, Faithful(c),
         pc[c] \notin {"copy", "wait"}, pc'[c] \notin {"copy", "wait"},
         seen'[c] = seen[c], count'[c] = count[c], sOutput'[c] = sOutput[c],
         child'[c] = "running" => c \in heirs'[c],
         pc'[c] \in {"request", "pipe", "fork", "parent"} => Shown(c)'
  PROVE  Faithful(c)'
BY DEF Faithful

LEMMA FaithfulBefore ==
  ASSUME IInv, NEW c \in Clients, Faithful(c),
         Sessions(c) \/ MakePipe(c) \/ Fork(c) \/ ForkFails(c)
  PROVE  Faithful(c)'
<1>1. /\ DOMAIN pc = Clients /\ DOMAIN cmd = Clients /\ DOMAIN sent = Clients
      /\ DOMAIN seen = Clients /\ DOMAIN count = Clients /\ DOMAIN sOutput = Clients
      /\ DOMAIN sLastOutput = Clients /\ DOMAIN child = Clients
      /\ DOMAIN heirs = Clients /\ DOMAIN ran = Clients
  BY Domains DEF IInv
<1>2. seen' = seen /\ count' = count /\ sOutput' = sOutput
  BY DEF Sessions, Connect, Acquire, Cprint, Request, Leave, PipeFails, MakePipe, Fork,
         ForkFails, chars
<1>3. pc[c] \notin {"copy", "wait"} /\ pc'[c] \notin {"copy", "wait"}
  BY <1>1 DEF Sessions, Connect, Acquire, Cprint, Request, Leave, PipeFails, MakePipe, Fork,
         ForkFails, Step, Set
<1>4. child'[c] = "running" => c \in heirs'[c]
  <2>1. CASE Fork(c)
    <3>1. c \in writers
      BY <2>1 DEF Fork, Step, IInv, Stages
    <3> QED BY <2>1, <3>1 DEF Fork
  <2>2. CASE Sessions(c) \/ MakePipe(c) \/ ForkFails(c)
    <3>1. child' = child /\ heirs' = heirs
      BY <2>2 DEF Sessions, Connect, Acquire, Cprint, Request, Leave, PipeFails, MakePipe,
                  ForkFails, ends
    <3> QED BY <3>1 DEF Faithful
  <2> QED BY <2>1, <2>2
<1>5. pc'[c] \in {"request", "pipe", "fork", "parent"} => Shown(c)'
  <2>1. CASE Acquire(c)
    <3>1. sLastOutput'[c] = Mark /\ ran'[c] = Mark
      BY <1>1, <2>1 DEF Acquire, Set
    <3> QED BY <3>1 DEF Shown
  <2>2. CASE Connect(c) \/ Leave(c)
    BY <1>1, <2>2 DEF Connect, Leave, Step, Set
  <2>3. CASE Cprint(c) \/ Request(c) \/ PipeFails(c) \/ MakePipe(c) \/ Fork(c) \/ ForkFails(c)
    <3>1. sLastOutput' = sLastOutput /\ ran' = ran /\ Shown(c)
      BY <2>3 DEF Cprint, Request, PipeFails, MakePipe, Fork, ForkFails, chars, Faithful,
                  Step
    <3> QED BY <3>1 DEF Shown
  <2> QED BY <2>1, <2>2, <2>3 DEF Sessions
<1> QED
  BY <1>2, <1>3, <1>4, <1>5, FaithfulSession

LEMMA FaithfulStart ==
  ASSUME IInv, NEW c \in Clients, Faithful(c), StartReading(c)
  PROVE  Faithful(c)'
<1>1. /\ pc'[c] = "copy" /\ sLastOutput'[c] = <<>>
      /\ seen'[c] = 0 /\ count'[c] = 0 /\ sOutput'[c] = <<>>
      /\ child' = child /\ heirs' = heirs /\ cmd' = cmd /\ sent' = sent
  BY Domains DEF IInv, StartReading, Step, Set, Faithful
<1>2. ASSUME NEW n \in Final(c)'
      PROVE  Copied(c, Wrote(c, n))'
  <2>1. Final(c)' = Final(c) /\ Wrote(c, n)' = Wrote(c, n)
    BY <1>1 DEF Final, Wrote
  <2> DEFINE out == Wrote(c, n)
  <2>2. out \in Text /\ Len(out) \in Nat
    BY <1>2, <2>1, WroteIs, LenProperties DEF IInv, Text
  <2> HIDE DEF out
  <2>3. Start(c)' = 1
    BY <1>1 DEF Start
  <2>4. Plain(out)[0] = <<>> /\ EchoFrom(out)[1] \in Text
    BY <2>2, PlainIs, EchoIs
  <2>5. Echo(out) = <<>> \o EchoFrom(out)[1]
    BY <2>4, ConcatEmptySeq DEF Echo, Text
  <2>6. \A k \in 1 .. 0 : out[k] # NL
    OBVIOUS
  <2>7. Copied(c, out)'
    BY <1>1, <2>1, <2>3, <2>4, <2>5, <2>6 DEF Copied, out
  <2> QED BY <2>1, <2>7 DEF out
<1> QED
  BY <1>1, <1>2 DEF Faithful

\* What a reading session knows of the output it reads.
LEMMA Copying ==
  ASSUME IInv, NEW c \in Clients, Faithful(c), pc[c] = "copy", NEW n \in Final(c)
  PROVE  /\ Wrote(c, n) \in Text /\ Len(Wrote(c, n)) = n /\ n \in Nat
         /\ seen[c] \in Nat /\ sent[c] \in Nat /\ seen[c] <= sent[c] /\ sent[c] <= n
         /\ count[c] \in 0 .. MaxLine - 1 /\ MaxLine \in Nat \ {0} /\ count[c] <= seen[c]
         /\ sLastOutput[c] \in Text /\ sOutput[c] \in Text
         /\ Copied(c, Wrote(c, n))
         /\ seen[c] < sent[c] => Wrote(c, n)[seen[c] + 1] = Char(c)
<1>1. /\ seen[c] \in Nat /\ sent[c] \in Nat /\ sent[c] - seen[c] \in 0 .. PipeSize
      /\ count[c] \in 0 .. MaxLine - 1
      /\ sLastOutput[c] \in Text /\ sOutput[c] \in Text
  BY DEF IInv, ShellTypeOK, PipeFlow
<1>2. /\ n \in Nat /\ sent[c] <= n /\ Wrote(c, n) \in Text /\ Len(Wrote(c, n)) = n
      /\ \A k \in 1 .. n : Wrote(c, n)[k] = cmd[c].out[k]
  BY WroteIs DEF IInv
<1>3. MaxLine \in Nat \ {0} /\ PipeSize \in Nat
  BY ShellAssumption
<1>4. seen[c] <= sent[c]
  BY <1>1, <1>3
<1>5. Copied(c, Wrote(c, n)) /\ count[c] <= seen[c]
  BY DEF Faithful
<1>6. seen[c] < sent[c] => seen[c] + 1 \in 1 .. n
  BY <1>1, <1>2
<1> QED
  BY <1>1, <1>2, <1>3, <1>4, <1>5, <1>6 DEF Char

\* A step that goes on reading.
LEMMA FaithfulReading ==
  ASSUME NEW c \in Clients, Faithful(c), pc[c] = "copy",
         pc'[c] = "copy" \/ (pc'[c] = "wait" /\ count'[c] = 0),
         child' = child, heirs' = heirs, sent' = sent, cmd' = cmd,
         count'[c] <= seen'[c],
         \A n \in Final(c) : IF pc'[c] = "copy" THEN Copied(c, Wrote(c, n))'
                             ELSE sLastOutput'[c] = Echo(Wrote(c, n))
  PROVE  Faithful(c)'
<1>1. Final(c)' = Final(c) /\ \A n \in Final(c) : Wrote(c, n)' = Wrote(c, n)
  BY DEF Final, Wrote
<1>2. child'[c] = "running" => c \in heirs'[c]
  BY DEF Faithful
<1>3. pc'[c] = "copy" => \A n \in Final(c)' : Copied(c, Wrote(c, n))'
  BY <1>1
<1>4. pc'[c] = "wait" => \A n \in Final(c)' : sLastOutput'[c] = Echo(Wrote(c, n)')
  BY <1>1
<1> QED
  BY <1>2, <1>3, <1>4 DEF Faithful

\* A line is recorded that began at Start(c) and ends at e, and the next one
\* begins where the server reads on.
LEMMA CopiedLine ==
  ASSUME NEW c \in Clients, NEW out \in Text, sLastOutput[c] \in Text,
         Echo(out) = sLastOutput[c] \o EchoFrom(out)[Start(c)],
         NEW e \in Start(c) .. Len(out), Start(c) \in 1 .. Len(out),
         e - Start(c) < MaxLine, \A k \in Start(c) .. e : out[k] # NL,
         e - Start(c) + 1 = MaxLine \/ e = Len(out) \/ out[e + 1] = NL,
         Record(c, Plain(out)[e]),
         DOMAIN count = Clients, DOMAIN sOutput = Clients, DOMAIN sLastOutput = Clients,
         seen'[c] \in Nat,
         seen'[c] + 1 = IF e - Start(c) + 1 < MaxLine /\ e < Len(out) THEN e + 2 ELSE e + 1,
         Plain(out)[seen'[c]] = Plain(out)[e]
  PROVE  Copied(c, out)'
<1>1. /\ count'[c] = 0 /\ sOutput'[c] = Plain(out)[e]
      /\ sLastOutput'[c] = sLastOutput[c] \o Plain(out)[e] \o <<NL>>
  BY DEF Record, Set
<1>2. Start(c)' = seen'[c] + 1
  BY <1>1 DEF Start
<1>3. Echo(out) = (sLastOutput[c] \o Plain(out)[e] \o <<NL>>)
                    \o EchoFrom(out)[IF e - Start(c) + 1 < MaxLine /\ e < Len(out)
                                     THEN e + 2 ELSE e + 1]
  BY EchoLine
<1>4. Echo(out) = sLastOutput'[c] \o EchoFrom(out)[Start(c)']
  BY <1>1, <1>2, <1>3
<1>5. \A k \in Start(c)' .. seen'[c] : out[k] # NL
  BY <1>2
<1> QED
  BY <1>1, <1>4, <1>5 DEF Copied

LEMMA FaithfulReadChar ==
  ASSUME IInv, NEW c \in Clients, Faithful(c), ReadChar(c)
  PROVE  Faithful(c)'
<1>1. /\ pc[c] = "copy" /\ seen[c] < sent[c] /\ Char(c) # NL
      /\ seen' = Set(seen, c, seen[c] + 1)
      /\ sent' = sent /\ cmd' = cmd /\ child' = child /\ heirs' = heirs
  BY DEF ReadChar, Reading, ends
<1>2. /\ DOMAIN count = Clients /\ DOMAIN seen = Clients /\ DOMAIN sOutput = Clients
      /\ DOMAIN sLastOutput = Clients
  BY Domains DEF IInv
<1>3. seen'[c] = seen[c] + 1
  BY <1>1, <1>2 DEF Set
<1>4. seen[c] \in Nat /\ count[c] \in Nat /\ count[c] <= seen[c]
  BY DEF IInv, ShellTypeOK, Faithful
<1>5. /\ count[c] + 1 = MaxLine => Record(c, Append(sOutput[c], Char(c)))
      /\ count[c] + 1 # MaxLine => /\ sOutput' = Set(sOutput, c, Append(sOutput[c], Char(c)))
                                   /\ count' = Set(count, c, count[c] + 1)
                                   /\ sLastOutput' = sLastOutput
      /\ count[c] + 1 <= MaxLine
  <2>1. \/ count[c] + 1 = MaxLine /\ Record(c, Append(sOutput[c], Char(c)))
        \/ /\ count[c] + 1 < MaxLine
           /\ sOutput' = Set(sOutput, c, Append(sOutput[c], Char(c)))
           /\ count' = Set(count, c, count[c] + 1)
           /\ sLastOutput' = sLastOutput
    BY DEF ReadChar
  <2>2. MaxLine \in Nat
    BY ShellAssumption
  <2> QED BY <1>4, <2>1, <2>2
<1>6. count'[c] <= seen'[c]
  <2>1. count'[c] = 0 \/ count'[c] = count[c] + 1
    BY <1>2, <1>5 DEF Record, Set
  <2> QED BY <1>3, <1>4, <2>1
<1>7. pc'[c] = "copy"
  BY <1>1 DEF ReadChar
<1>8. ASSUME NEW n \in Final(c)
      PROVE  Copied(c, Wrote(c, n))'
  <2>0. PICK out, e : out = Wrote(c, n) /\ e = seen[c] + 1
    OBVIOUS
  <2> USE <2>0
  <2> DEFINE output == Append(sOutput[c], Char(c))
  <2>1. /\ out \in Text /\ Len(out) = n /\ n \in Nat
        /\ seen[c] \in Nat /\ sent[c] \in Nat /\ seen[c] <= sent[c] /\ sent[c] <= n
        /\ count[c] \in 0 .. MaxLine - 1 /\ MaxLine \in Nat \ {0} /\ count[c] <= seen[c]
        /\ sLastOutput[c] \in Text /\ sOutput[c] \in Text
        /\ Copied(c, out)
        /\ seen[c] < sent[c] => out[seen[c] + 1] = Char(c)
    BY <1>1, Copying
  <2>2. Wrote(c, n)' = out
    BY <1>1 DEF Wrote
  <2>3. /\ e \in 1 .. Len(out) /\ out[e] = Char(c) /\ out[e] # NL
        /\ Start(c) = e - count[c] /\ Start(c) \in 1 .. Len(out) /\ e \in Start(c) .. Len(out)
    <3>1. e \in 1 .. Len(out) /\ out[e] = Char(c)
      BY <1>1, <2>1
    <3>2. Start(c) = e - count[c]
      BY <1>4 DEF Start
    <3>3. e - count[c] \in 1 .. Len(out) /\ e \in e - count[c] .. Len(out)
      BY <1>4, <3>1
    <3> QED BY <1>1, <3>1, <3>2, <3>3
  <2>4. output = Plain(out)[e]
    <3>1. Plain(out)[e] = Append(Plain(out)[e - 1], out[e])
      BY <2>1, <2>3, PlainIs
    <3>2. e - 1 = seen[c]
      BY <2>1
    <3> QED BY <2>1, <2>3, <3>1, <3>2 DEF Copied
  <2>5. \A k \in Start(c) .. e : out[k] # NL
    <3>1. \A k \in Start(c) .. e : k \in Start(c) .. seen[c] \/ k = e
      BY <2>1, <2>3
    <3> QED BY <2>1, <2>3, <3>1 DEF Copied
  <2>6. Echo(out) = sLastOutput[c] \o EchoFrom(out)[Start(c)]
    BY <2>1 DEF Copied
  <2>7. CASE count[c] + 1 = MaxLine
    <3>1. Record(c, Plain(out)[e])
      BY <1>5, <2>4, <2>7
    <3>2. e - Start(c) < MaxLine /\ e - Start(c) + 1 = MaxLine
      BY <2>1, <2>3, <2>7
    <3>3. seen'[c] \in Nat /\ seen'[c] + 1 = e + 1 /\ ~(e - Start(c) + 1 < MaxLine)
      BY <1>3, <2>1, <3>2
    <3>4. seen'[c] = e
      BY <1>3
    <3>5. Copied(c, out)'
      BY <1>2, <2>1, <2>3, <2>4, <2>5, <2>6, <3>1, <3>2, <3>3, <3>4, CopiedLine
    <3> QED BY <2>2, <3>5
  <2>8. CASE count[c] + 1 # MaxLine
    <3>1. /\ sOutput'[c] = output /\ count'[c] = count[c] + 1
          /\ sLastOutput'[c] = sLastOutput[c]
      BY <1>2, <1>5, <2>8 DEF Set
    <3>2. Start(c)' = Start(c)
      BY <1>3, <1>4, <3>1 DEF Start
    <3>3. Copied(c, out)'
      BY <1>3, <2>2, <2>4, <2>5, <2>6, <3>1, <3>2 DEF Copied
    <3> QED BY <2>2, <3>3
  <2> QED BY <2>7, <2>8
<1>9. \A n \in Final(c) : IF pc'[c] = "copy" THEN Copied(c, Wrote(c, n))'
                          ELSE sLastOutput'[c] = Echo(Wrote(c, n))
  BY <1>8, <1>7
<1>10. pc'[c] = "copy" \/ (pc'[c] = "wait" /\ count'[c] = 0)
  BY <1>7
<1> QED
  BY <1>1, <1>6, <1>9, <1>10, FaithfulReading

LEMMA FaithfulReadNewline ==
  ASSUME IInv, NEW c \in Clients, Faithful(c), ReadNewline(c)
  PROVE  Faithful(c)'
<1>1. /\ pc[c] = "copy" /\ seen[c] < sent[c] /\ Char(c) = NL
      /\ seen' = Set(seen, c, seen[c] + 1)
      /\ sent' = sent /\ cmd' = cmd /\ child' = child /\ heirs' = heirs
  BY DEF ReadNewline, Reading, ends
<1>2. /\ DOMAIN count = Clients /\ DOMAIN seen = Clients /\ DOMAIN sOutput = Clients
      /\ DOMAIN sLastOutput = Clients /\ DOMAIN pc = Clients
  BY Domains DEF IInv
<1>3. seen'[c] = seen[c] + 1
  BY <1>1, <1>2 DEF Set
<1>4. seen[c] \in Nat /\ count[c] \in Nat /\ count[c] <= seen[c]
  BY DEF IInv, ShellTypeOK, Faithful
<1>5. \/ count[c] > 0 /\ Record(c, sOutput[c]) /\ pc'[c] = "copy"
      \/ count[c] = 0 /\ pc'[c] = "wait" /\ count' = count /\ sLastOutput' = sLastOutput
  BY <1>1, <1>2 DEF ReadNewline, Step, Set
<1>6. count'[c] <= seen'[c] /\ (pc'[c] = "copy" \/ (pc'[c] = "wait" /\ count'[c] = 0))
  <2>1. count'[c] = 0
    BY <1>2, <1>5 DEF Record, Set
  <2> QED BY <1>3, <1>4, <1>5, <2>1
<1>7. ASSUME NEW n \in Final(c)
      PROVE  IF pc'[c] = "copy" THEN Copied(c, Wrote(c, n))'
             ELSE sLastOutput'[c] = Echo(Wrote(c, n))
  <2>0. PICK out, e : out = Wrote(c, n) /\ e = seen[c]
    OBVIOUS
  <2> USE <2>0
  <2>1. /\ out \in Text /\ Len(out) = n /\ n \in Nat
        /\ seen[c] \in Nat /\ sent[c] \in Nat /\ seen[c] <= sent[c] /\ sent[c] <= n
        /\ count[c] \in 0 .. MaxLine - 1 /\ MaxLine \in Nat \ {0} /\ count[c] <= seen[c]
        /\ sLastOutput[c] \in Text /\ sOutput[c] \in Text
        /\ Copied(c, out)
        /\ seen[c] < sent[c] => out[seen[c] + 1] = Char(c)
    BY <1>1, Copying
  <2>2. Wrote(c, n)' = out
    BY <1>1 DEF Wrote
  <2>3. /\ e + 1 \in 1 .. Len(out) /\ out[e + 1] = NL
        /\ Start(c) = e - count[c] + 1
    BY <1>1, <2>1 DEF Start
  <2>4. /\ sOutput[c] = Plain(out)[e]
        /\ \A k \in Start(c) .. e : out[k] # NL
        /\ Echo(out) = sLastOutput[c] \o EchoFrom(out)[Start(c)]
    BY <2>1 DEF Copied
  <2>5. CASE count[c] > 0 /\ Record(c, sOutput[c]) /\ pc'[c] = "copy"
    <3>1. /\ Start(c) \in 1 .. Len(out) /\ e \in Start(c) .. Len(out)
          /\ e - Start(c) < MaxLine /\ e - Start(c) + 1 < MaxLine /\ e < Len(out)
      BY <2>1, <2>3, <2>5
    <3>2. seen'[c] \in Nat /\ seen'[c] + 1 = e + 2
      BY <1>3, <2>1
    <3>3. Plain(out)[seen'[c]] = sOutput[c]
      <4>1. Plain(out)[e + 1] = Plain(out)[(e + 1) - 1]
        BY <2>1, <2>3, PlainIs
      <4>2. (e + 1) - 1 = e
        BY <2>1
      <4> QED BY <1>3, <2>4, <4>1, <4>2
    <3>4. Copied(c, out)'
      BY <1>2, <2>1, <2>3, <2>4, <2>5, <3>1, <3>2, <3>3, CopiedLine
    <3> QED BY <2>2, <2>5, <3>4
  <2>6. CASE count[c] = 0 /\ pc'[c] = "wait" /\ count' = count /\ sLastOutput' = sLastOutput
    <3>1. Start(c) = e + 1 /\ Start(c) \in 1 .. Len(out) + 1
      BY <2>1, <2>3, <2>6
    <3>2. Echo(out) = sLastOutput[c]
      BY <2>1, <2>3, <2>4, <3>1, EchoEnd
    <3> QED BY <2>6, <3>2
  <2> QED BY <1>5, <2>5, <2>6
<1>8. \A n \in Final(c) : IF pc'[c] = "copy" THEN Copied(c, Wrote(c, n))'
                          ELSE sLastOutput'[c] = Echo(Wrote(c, n))
  BY <1>7
<1> QED
  BY <1>1, <1>6, <1>8, FaithfulReading

LEMMA FaithfulReadEnd ==
  ASSUME IInv, NEW c \in Clients, Faithful(c), ReadEnd(c)
  PROVE  Faithful(c)'
<1>1. /\ pc[c] = "copy" /\ seen[c] = sent[c] /\ heirs[c] = {}
      /\ seen' = seen
      /\ sent' = sent /\ cmd' = cmd /\ child' = child /\ heirs' = heirs
  BY DEF ReadEnd, ends
<1>2. /\ DOMAIN count = Clients /\ DOMAIN seen = Clients /\ DOMAIN sOutput = Clients
      /\ DOMAIN sLastOutput = Clients /\ DOMAIN pc = Clients
  BY Domains DEF IInv
<1>3. child[c] # "running"
  BY <1>1 DEF Faithful
<1>4. seen[c] \in Nat /\ count[c] \in Nat /\ count[c] <= seen[c]
  BY DEF IInv, ShellTypeOK, Faithful
<1>5. \/ count[c] > 0 /\ Record(c, sOutput[c]) /\ pc'[c] = "copy"
      \/ count[c] = 0 /\ pc'[c] = "wait" /\ count' = count /\ sLastOutput' = sLastOutput
  BY <1>1, <1>2 DEF ReadEnd, Step, Set
<1>6. count'[c] <= seen'[c] /\ (pc'[c] = "copy" \/ (pc'[c] = "wait" /\ count'[c] = 0))
  <2>1. count'[c] = 0
    BY <1>2, <1>5 DEF Record, Set
  <2> QED BY <1>1, <1>4, <1>5, <2>1
<1>7. ASSUME NEW n \in Final(c)
      PROVE  IF pc'[c] = "copy" THEN Copied(c, Wrote(c, n))'
             ELSE sLastOutput'[c] = Echo(Wrote(c, n))
  <2>0. PICK out, e : out = Wrote(c, n) /\ e = seen[c]
    OBVIOUS
  <2> USE <2>0
  <2>1. /\ out \in Text /\ Len(out) = n /\ n \in Nat
        /\ seen[c] \in Nat /\ sent[c] \in Nat /\ seen[c] <= sent[c] /\ sent[c] <= n
        /\ count[c] \in 0 .. MaxLine - 1 /\ MaxLine \in Nat \ {0} /\ count[c] <= seen[c]
        /\ sLastOutput[c] \in Text /\ sOutput[c] \in Text
        /\ Copied(c, out)
        /\ seen[c] < sent[c] => out[seen[c] + 1] = Char(c)
    BY <1>1, Copying
  <2>2. Wrote(c, n)' = out
    BY <1>1 DEF Wrote
  <2>3. n = e
    BY <1>1, <1>3 DEF Final
  <2>4. /\ sOutput[c] = Plain(out)[e]
        /\ \A k \in Start(c) .. e : out[k] # NL
        /\ Echo(out) = sLastOutput[c] \o EchoFrom(out)[Start(c)]
        /\ Start(c) = e - count[c] + 1
    BY <2>1 DEF Copied, Start
  <2>5. CASE count[c] > 0 /\ Record(c, sOutput[c]) /\ pc'[c] = "copy"
    <3>1. /\ Start(c) \in 1 .. Len(out) /\ e \in Start(c) .. Len(out)
          /\ e - Start(c) < MaxLine /\ e = Len(out) /\ ~(e < Len(out))
      BY <2>1, <2>3, <2>4, <2>5
    <3>2. seen'[c] \in Nat /\ seen'[c] + 1 = e + 1
      BY <1>1, <2>1
    <3>3. Plain(out)[seen'[c]] = sOutput[c]
      BY <1>1, <2>4
    <3>4. Copied(c, out)'
      BY <1>2, <2>1, <2>4, <2>5, <3>1, <3>2, <3>3, CopiedLine
    <3> QED BY <2>2, <2>5, <3>4
  <2>6. CASE count[c] = 0 /\ pc'[c] = "wait" /\ count' = count /\ sLastOutput' = sLastOutput
    <3>1. Start(c) = Len(out) + 1 /\ Start(c) \in 1 .. Len(out) + 1
      BY <2>1, <2>3, <2>4, <2>6
    <3>2. Echo(out) = sLastOutput[c]
      BY <2>1, <2>4, <3>1, EchoEnd
    <3> QED BY <2>6, <3>2
  <2> QED BY <1>5, <2>5, <2>6
<1>8. \A n \in Final(c) : IF pc'[c] = "copy" THEN Copied(c, Wrote(c, n))'
                          ELSE sLastOutput'[c] = Echo(Wrote(c, n))
  BY <1>7
<1> QED
  BY <1>1, <1>6, <1>8, FaithfulReading

\* No program prints the mark of a client without a command.
LEMMA NotMark ==
  ASSUME ShellTypeOK, NEW c \in Clients, NEW n \in Final(c)
  PROVE  Wrote(c, n) # Mark
<1>1. cmd[c].out \in Seq(Chars \union {NL})
  <2>1. cmd[c] \in Programs \/ cmd[c] = NoProgram
    BY DEF ShellTypeOK
  <2>2. NoProgram.out \in Seq(Chars \union {NL})
    BY Constants, EmptySeq, Zenon
  <2> QED BY <2>1, <2>2, ShellAssumption
<1>2. /\ n \in Nat /\ Len(Wrote(c, n)) = n
      /\ \A k \in 1 .. n : Wrote(c, n)[k] = cmd[c].out[k]
  BY WroteIs
<1>3. n <= Len(cmd[c].out)
  BY CmdOutput DEF Final, ShellTypeOK
<1> SUFFICES ASSUME Wrote(c, n) = Mark PROVE FALSE
  OBVIOUS
<1>4. Len(Mark) = 1 /\ Mark[1] = "MARK-NO-COMMAND"
  BY DEF Mark
<1>5. n = 1 /\ cmd[c].out[1] = "MARK-NO-COMMAND"
  <2>1. n = 1
    BY <1>2, <1>4
  <2>2. Wrote(c, n)[1] = cmd[c].out[1]
    BY <1>2, <2>1
  <2> QED BY <1>4, <2>1, <2>2
<1>6. 1 \in 1 .. Len(cmd[c].out)
  BY <1>3, <1>5, CmdOutput
<1>7. cmd[c].out[1] \in Chars \union {NL}
  BY <1>1, <1>6, ElementOfSeq
<1>8. "MARK-NO-COMMAND" \notin Chars /\ "MARK-NO-COMMAND" # NL
  BY ShellAssumption DEF NL
<1> QED
  BY <1>5, <1>7, <1>8

LEMMA FaithfulWait ==
  ASSUME IInv, NEW c \in Clients, Faithful(c), WaitChild(c)
  PROVE  Faithful(c)'
<1>1. /\ pc[c] = "wait" /\ pc'[c] = "request" /\ child[c] # "running" /\ child'[c] = "none"
      /\ seen'[c] = 0 /\ sOutput'[c] = <<>> /\ count'[c] = count[c]
      /\ sLastOutput'[c] = sLastOutput[c] /\ ran'[c] = Wrote(c, sent[c])
  BY Domains DEF IInv, WaitChild, Answer, Step, Set, Wrote
<1>2. sent[c] \in Final(c)
  BY CmdOutput DEF IInv, ShellTypeOK, PipeFlow, Final
<1>3. sLastOutput[c] = Echo(Wrote(c, sent[c]))
  BY <1>1, <1>2 DEF Faithful
<1>4. Wrote(c, sent[c]) # Mark
  BY <1>2, NotMark DEF IInv
<1>5. Shown(c)'
  BY <1>1, <1>3, <1>4 DEF Shown
<1>6. count[c] = 0
  BY <1>1 DEF Faithful
<1> QED
  BY <1>1, <1>5, <1>6 DEF Faithful

FInv == IInv /\ \A c \in Clients : Faithful(c)

LEMMA StepFInv == FInv /\ [Next]_vars => FInv'
<1> SUFFICES ASSUME FInv, [Next]_vars
             PROVE  FInv'
  OBVIOUS
<1>1. IInv /\ IInv' /\ \A c \in Clients : Faithful(c)
  BY StepIInv DEF FInv
<1>2. ASSUME NEW d \in Clients
      PROVE  Faithful(d)'
  <2>1. Faithful(d)
    BY <1>1
  <2>2. CASE Next
    <3>1. PICK c \in Clients : Sessions(c) \/ Ends(c) \/ Characters(c) \/ WaitChild(c)
      BY <2>2, Cases
    <3>2. CASE c # d
      BY <1>1, <2>1, <3>1, <3>2, FaithfulOther
    <3>3. CASE c = d
      <4>1. \/ Sessions(d) \/ MakePipe(d) \/ Fork(d) \/ ForkFails(d)
            \/ ChildWrite(d) \/ ChildExit(d) \/ StartReading(d)
            \/ ReadChar(d) \/ ReadNewline(d) \/ ReadEnd(d) \/ WaitChild(d)
        BY <3>1, <3>3 DEF Ends, Characters
      <4> QED
        BY <1>1, <2>1, <4>1, FaithfulBefore, FaithfulChild, FaithfulStart, FaithfulReadChar,
           FaithfulReadNewline, FaithfulReadEnd, FaithfulWait
    <3> QED BY <3>2, <3>3
  <2>3. CASE UNCHANGED vars
    <3>1. /\ pc' = pc /\ cmd' = cmd /\ sent' = sent /\ seen' = seen /\ count' = count
          /\ sOutput' = sOutput /\ sLastOutput' = sLastOutput /\ child' = child
          /\ heirs' = heirs /\ ran' = ran
      BY <2>3 DEF vars, chars, ends
    <3>2. Final(d)' = Final(d)
      BY <3>1 DEF Final
    <3>3. child'[d] = "running" => d \in heirs'[d]
      BY <2>1, <3>1 DEF Faithful
    <3> QED BY <2>1, <3>1, <3>2, <3>3, FaithfulFrame
  <2> QED BY <2>2, <2>3
<1> QED
  BY <1>1, <1>2 DEF FInv

\* For any output, line length and pipe, and however the steps of child and
\* server fall, CPRINT's answer is the same function, Echo, of what the last
\* program with a pipe wrote: each line with all those before it, up to the
\* first blank line or the newline of a full one.
THEOREM ShellPrintIgnoresTiming == Spec => []PrintIgnoresTiming
<1>1. Init => FInv
  BY InitIInv, FaithfulInit DEF FInv
<1>2. FInv => PrintIgnoresTiming
  BY DEF FInv, Faithful, Shown, PrintIgnoresTiming
<1> QED
  BY <1>1, <1>2, StepFInv, PTL DEF Spec

=============================================================================
