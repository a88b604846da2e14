------------------------------ MODULE Replica ------------------------------
(***************************************************************************)
(* Replica mode: several servers keep copies of one file.  FileCallback    *)
(* runs a command of its client on its own copy and has HandleSync repeat  *)
(* it on every peer, each peer asked by a std::async task over a           *)
(* connection of its own, which a worker of the peer accepts and serves.   *)
(* Access to one server's copy is the subject of FileAccess: here a file   *)
(* operation is one step.                                                  *)
(***************************************************************************)
EXTENDS Integers, Sequences, FiniteSets, SequencesExt

CONSTANTS
  Nodes,    \* the servers
  Clients,  \* file clients, each with a session on one server
  Home,     \* the server a client is connected to
  Peers,    \* PeersAddrs of each server (option -p), in order
  Spare,    \* workers of a server that no file client occupies
  Requests, \* the commands each client may send first, second and so on
  Content,  \* what every copy holds to begin with
  Opened    \* the servers whose clients have opened the file by then

Ops == {"FOPEN", "FSEEK", "FREAD", "FWRITE", "FCLOSE"}

\* A cell of the file holds what a command wrote, or nothing yet.
Hole == <<>>
Cells == (Clients \X Nat) \cup {Hole}

ASSUME ReplicaAssumption ==
  /\ Nodes # {} /\ Home \in [Clients -> Nodes]
  /\ Peers \in [Nodes -> Seq(Nodes)]
  /\ \A m \in Nodes : Peers[m] # <<>> /\ m \notin ToSet(Peers[m])
  /\ Spare \in Nat
  /\ Requests \in [Clients -> Seq(SUBSET Ops)]
  /\ Content \in Seq(Cells) /\ Opened \subseteq Nodes

VARIABLES
  file,      \* each server's copy: identifier given out, pointer, content
  backlog,   \* requests on connections not accepted yet, oldest first
  serving,   \* requests of the connections workers serve
  pc, op, num, result,  \* per session: step, command, its number and iOPResult
  named,     \* SyncRequestBuilder found the file's name
  next,      \* the peer HandleSync's loop variable PeerAddress holds
  task,      \* state of the tasks of the current command
  answer,    \* what each task returns
  outcome,   \* the response to the client
  asked,     \* history: peers the current command was sent to
  ran,       \* history: <<server, client, number>> of what servers executed
  clean      \* history: no overlap of commands, nothing failed or timed out

servers == <<file, backlog, serving>>
request == <<op, num, result, named>>
tasks   == <<next, task, answer>>
history == <<asked, ran, clean>>
vars == <<servers, pc, request, tasks, outcome, history>>

\* Results, also as a task returns them: a count of bytes if not negative.
Failed   == -1
NoAnswer == -2

Res == INSTANCE ServerResponse
Identifier == 1   \* the descriptor of the file

Tasks(c) == DOMAIN Peers[Home[c]]
Idle(c)  == pc[c] = "idle"
Set(var, c, x) == [var EXCEPT ![c] = x]

-----------------------------------------------------------------------------
(* Operations on one copy.  FSEEK moves by one cell, FREAD and FWRITE      *)
(* transfer one; the pointer belongs to the copy, not to a client.         *)

Open(f) == IF f.open THEN f ELSE [f EXCEPT !.open = TRUE, !.pos = 0]

Close(f) == [f EXCEPT !.open = FALSE, !.pos = 0]

AtEnd(f) == f.pos >= Len(f.data)

Overwrite(f, v) ==
  [k \in 1 .. (IF AtEnd(f) THEN f.pos + 1 ELSE Len(f.data)) |->
     IF k = f.pos + 1 THEN v ELSE IF k <= Len(f.data) THEN f.data[k] ELSE Hole]

\* The copy after command o, and what o returns, the file being open.
After(o, f, v) ==
  CASE o = "FOPEN" \/ (o = "FREAD" /\ AtEnd(f)) -> f
    [] o = "FSEEK" \/ (o = "FREAD" /\ ~AtEnd(f)) -> [f EXCEPT !.pos = @ + 1]
    [] o = "FWRITE" -> [f EXCEPT !.pos = @ + 1, !.data = Overwrite(f, v)]
    [] o = "FCLOSE" -> Close(f)

\* FOPEN returns the new descriptor, or 0 if the file was open already.
Returned(o, f) ==
  IF \/ o = "FWRITE"
     \/ o = "FREAD" /\ ~AtEnd(f)
     \/ o = "FOPEN" /\ ~f.open
  THEN 1 ELSE 0

-----------------------------------------------------------------------------
(* A session of FileCallback.                                              *)

SessionStep(c, from, to) == pc[c] = from /\ pc' = Set(pc, c, to)

\* "sync wouldn't run if local request reported error"
SyncNeeded(o, res) == o # "FOPEN" /\ res >= 0

\* Run the command on the own copy; FCLOSE is only checked for the moment.
RunLocal(c) ==
  /\ num[c] < Len(Requests[c])
  /\ \E o \in Requests[c][num[c] + 1] :
       LET m == Home[c]
           k == num[c] + 1
           usable == o = "FOPEN" \/ file[m].open
           res    == IF usable THEN Returned(o, file[m]) ELSE Failed
           done   == usable /\ o # "FCLOSE"
       IN /\ SessionStep(c, "idle", IF SyncNeeded(o, res) THEN "build"
                                    ELSE IF o = "FCLOSE" THEN "close"
                                    ELSE "respond")
          /\ op'  = Set(op, c, o)
          /\ num' = Set(num, c, k)
          /\ result' = Set(result, c, res)
          /\ file' = IF done THEN Set(file, m, After(o, Open(file[m]), <<c, k>>))
                     ELSE file
          /\ ran'  = IF done THEN ran \cup {<<m, c, k>>} ELSE ran
  /\ outcome' = Set(outcome, c, "none")
  /\ clean' = (clean /\ \A x \in Clients : Idle(x))
  /\ UNCHANGED <<backlog, serving, named, tasks, asked>>

\* Another command may have closed the file: its name is then empty.
SyncRequestBuilder(c) ==
  /\ SessionStep(c, "build", "spawn")
  /\ named' = Set(named, c, file[Home[c]].open)
  /\ UNCHANGED <<servers, op, num, result, tasks, outcome, history>>

\* Faulty variant: the loop runs once too often.
LastPeerOff(c) == next[c] = Len(Peers[Home[c]])

LastPeer(c) == next[c] + 1 = Len(Peers[Home[c]])

\* The loop of HandleSync: one task for each peer.
SpawnTask(c) ==
  /\ SessionStep(c, "spawn", IF LastPeer(c) THEN "gather" ELSE "spawn")
  /\ next' = Set(next, c, next[c] + 1)
  /\ task' = [task EXCEPT ![c][next[c] + 1] = "created"]
  /\ UNCHANGED <<servers, request, answer, outcome, history>>

\* Faulty variant: futures that do not wait for their task.
GatheredAtOnce(c) == op[c] # "FREAD" \/ \A t \in Tasks(c) : task[c][t] = "done"

\* get() waits for the tasks of a FREAD, the destructors of the futures for
\* those of the other commands.
Gathered(c) == \A t \in Tasks(c) : task[c][t] = "done"

GatherAnswers(c) ==
  /\ Gathered(c)
  /\ SessionStep(c, "gather", IF op[c] = "FCLOSE" THEN "close" ELSE "respond")
  /\ clean' = (clean /\ asked[c] = ToSet(Peers[Home[c]]))
  /\ asked' = Set(asked, c, {})
  /\ UNCHANGED <<servers, request, tasks, outcome, ran>>

\* The actual FCLOSE, which follows the peers' and the failed check alike.
CloseLocal(c) ==
  LET m == Home[c] IN
  /\ SessionStep(c, "close", "respond")
  /\ result' = Set(result, c, IF file[m].open THEN 0 ELSE Failed)
  /\ file'   = Set(file, m, Close(file[m]))
  /\ ran'    = IF file[m].open THEN ran \cup {<<m, c, num[c]>>} ELSE ran
  /\ UNCHANGED <<backlog, serving, op, num, named, tasks, outcome, asked, clean>>

\* Faulty variant: whatever is not an error is a vote.
VotesUnread(c) == {t \in Tasks(c) : answer[c][t] # Failed}

\* A peer votes by having read at least one byte.
Votes(c) == {t \in Tasks(c) : answer[c][t] > 0}

MajorityVote(c) ==
  LET vote  == Cardinality(Votes(c)) + (IF result[c] >= 0 THEN 1 ELSE 0)
      total == Cardinality(Tasks(c)) + (IF result[c] >= 0 THEN 1 ELSE 0)
  IN vote = total \/ vote > total \div 2

Response(c) ==
  CASE op[c] = "FOPEN" /\ result[c] = 0 -> Res!fileInUse(Identifier)
    [] op[c] = "FREAD" /\ result[c] >= 0 /\ ~MajorityVote(c) -> Res!syncFail("ER-SYNC")
    [] OTHER -> Res!file(result[c], Res!Default)

Respond(c) ==
  /\ SessionStep(c, "respond", "idle")
  /\ outcome' = Set(outcome, c, Response(c).status)
  /\ next'   = Set(next, c, 0)
  /\ task'   = Set(task, c, [t \in Tasks(c) |-> "none"])
  /\ answer' = Set(answer, c, [t \in Tasks(c) |-> NoAnswer])
  /\ result' = Set(result, c, 0)
  /\ named'  = Set(named, c, FALSE)
  /\ UNCHANGED <<servers, op, num, history>>

-----------------------------------------------------------------------------
(* A task of HandleSync.                                                   *)

TaskStep(c, t, from, to) ==
  task[c][t] = from /\ task' = [task EXCEPT ![c][t] = to]

\* The lambda captures PeerAddress by reference: it sees the peer the loop
\* has reached by then, and after the loop what was left in its place.
PeerAddress(c, t) == Peers[Home[c]][next[c]]

Connect(c, t) ==
  LET p == PeerAddress(c, t) IN
  /\ TaskStep(c, t, "created", "sent")
  /\ backlog' = [backlog EXCEPT ![p] = Append(@,
       [client |-> c, task |-> t, num |-> num[c], op |-> op[c], named |-> named[c]])]
  /\ asked' = [asked EXCEPT ![c] = @ \cup {p}]
  /\ UNCHANGED <<file, serving, pc, request, next, answer, outcome, ran, clean>>

ConnectFails(c, t) ==
  /\ TaskStep(c, t, "created", "done")
  /\ answer' = [answer EXCEPT ![c][t] = Failed]
  /\ asked'  = [asked EXCEPT ![c] = @ \cup {PeerAddress(c, t)}]
  /\ clean'  = FALSE
  /\ UNCHANGED <<servers, pc, request, next, outcome, ran>>

\* Faulty variant: recv without a timeout.
TimeoutNever(c, t) == FALSE /\ UNCHANGED vars

\* The request stays with the peer, which may still execute it.
Timeout(c, t) ==
  /\ TaskStep(c, t, "sent", "done")
  /\ clean' = FALSE
  /\ UNCHANGED <<servers, pc, request, next, answer, outcome, asked, ran>>

-----------------------------------------------------------------------------
(* A peer: a worker accepts the connection, executes the SYNC command and  *)
(* answers.                                                                *)

\* Faulty variant: a connection is accepted by a worker that still serves one.
SpareWorkerOff(m) == Cardinality(serving[m]) <= Spare

SpareWorker(m) == Cardinality(serving[m]) < Spare

AcceptSync(m) ==
  /\ SpareWorker(m) /\ backlog[m] # <<>>
  /\ serving' = [serving EXCEPT ![m] = @ \cup {Head(backlog[m])}]
  /\ backlog' = [backlog EXCEPT ![m] = Tail(@)]
  /\ UNCHANGED <<file, pc, request, tasks, outcome, history>>

\* The answer is received at once: one that is on its way when the task times
\* out leaves the same state as one sent just after.  Then it is lost.
Reply(m, r, res) ==
  LET waiting == num[r.client] = r.num /\ task[r.client][r.task] = "sent" IN
  /\ serving' = [serving EXCEPT ![m] = @ \ {r}]
  /\ task'    = IF waiting THEN [task EXCEPT ![r.client][r.task] = "done"]
                ELSE task
  /\ answer'  = IF waiting THEN [answer EXCEPT ![r.client][r.task] = res]
                ELSE answer
  /\ UNCHANGED <<backlog, pc, request, next, outcome, asked>>

\* The file is opened if this server does not have it open, but to close it.
ExecuteSync(m, r) ==
  LET f == IF r.op = "FCLOSE" THEN file[m] ELSE Open(file[m]) IN
  /\ r.named
  /\ file' = Set(file, m, After(r.op, f, <<r.client, r.num>>))
  /\ ran'  = ran \cup {<<m, r.client, r.num>>}
  /\ Reply(m, r, Returned(r.op, f))
  /\ UNCHANGED clean

\* A request without a name has too few words; open(2) may fail.
RejectSync(m, r) ==
  /\ ~r.named \/ (~file[m].open /\ r.op # "FCLOSE")
  /\ Reply(m, r, Failed)
  /\ clean' = FALSE
  /\ UNCHANGED <<file, ran>>

-----------------------------------------------------------------------------

Init ==
  /\ file    = [m \in Nodes |-> [open |-> m \in Opened, pos |-> 0, data |-> Content]]
  /\ backlog = [m \in Nodes |-> <<>>]
  /\ serving = [m \in Nodes |-> {}]
  /\ pc = [c \in Clients |-> "idle"]
  /\ op = [c \in Clients |-> "FOPEN"]
  /\ num     = [c \in Clients |-> 0]
  /\ result  = [c \in Clients |-> 0]
  /\ named   = [c \in Clients |-> FALSE]
  /\ next    = [c \in Clients |-> 0]
  /\ task    = [c \in Clients |-> [t \in Tasks(c) |-> "none"]]
  /\ answer  = [c \in Clients |-> [t \in Tasks(c) |-> NoAnswer]]
  /\ outcome = [c \in Clients |-> "none"]
  /\ asked   = [c \in Clients |-> {}]
  /\ ran = {} /\ clean = TRUE

\* HandleSync and what follows it, without the request itself.
Session(c) ==
  \/ SyncRequestBuilder(c) \/ SpawnTask(c) \/ GatherAnswers(c)
  \/ CloseLocal(c) \/ Respond(c)

Async(c, t) == Connect(c, t) \/ ConnectFails(c, t) \/ Timeout(c, t)

Peer(m) ==
  \/ AcceptSync(m)
  \/ \E r \in serving[m] : ExecuteSync(m, r) \/ RejectSync(m, r)

Next ==
  \/ \E c \in Clients :
       \/ RunLocal(c) \/ Session(c)
       \/ \E t \in Tasks(c) : Async(c, t)
  \/ \E m \in Nodes : Peer(m)

\* A thread that can run does: sessions and tasks go on, and poll times out.
\* Nothing is assumed of the peers.
Fairness ==
  \A c \in Clients :
    /\ WF_vars(Session(c))
    /\ \A t \in Tasks(c) : WF_vars(Async(c, t))

Spec == Init /\ [][Next]_vars

FairSpec == Spec /\ Fairness

-----------------------------------------------------------------------------
(* What should hold.                                                       *)

SyncRequests ==
  [client : Clients, task : Nat, num : Nat, op : Ops, named : BOOLEAN]

\* The variables keep their types; a request leads to a task there is.
TypeOK ==
  /\ file \in [Nodes -> [open : BOOLEAN, pos : Nat, data : Seq(Cells)]]
  /\ backlog \in [Nodes -> Seq(SyncRequests)]
  /\ serving \in [Nodes -> SUBSET SyncRequests]
  /\ \A m \in Nodes : \A r \in serving[m] \cup ToSet(backlog[m]) :
       r.task \in Tasks(r.client) /\ r.num <= num[r.client]
  /\ pc \in [Clients -> {"idle", "build", "spawn", "gather", "close", "respond"}]
  /\ op \in [Clients -> Ops]
  /\ num \in [Clients -> Nat]
  /\ result \in [Clients -> {Failed, 0, 1}]
  /\ named \in [Clients -> BOOLEAN]
  /\ \A c \in Clients :
       /\ num[c] <= Len(Requests[c])
       /\ next[c] \in 0 .. Len(Peers[Home[c]])
       /\ task[c] \in [Tasks(c) -> {"none", "created", "sent", "done"}]
       /\ answer[c] \in [Tasks(c) -> {NoAnswer, Failed, 0, 1}]
  /\ outcome \in [Clients -> {"none", "OK", "ERR", "SYNC FAIL"}]
  /\ asked \in [Clients -> SUBSET Nodes]
  /\ ran \subseteq Nodes \X Clients \X Nat
  /\ clean \in BOOLEAN

Pointer(m) == IF file[m].open THEN file[m].pos ELSE 0

\* As long as commands do not overlap, every peer is asked, and nothing fails
\* or times out, all copies agree, pointers included, whenever no command is
\* being executed: whoever sends a command and whoever had opened the file.
CopiesAgree ==
  clean /\ (\A c \in Clients : Idle(c)) =>
    \A m, q \in Nodes : file[m].data = file[q].data /\ Pointer(m) = Pointer(q)

\* A FREAD answered OK was executed by a majority of the servers: an answer
\* that comes late, from another command or not at all is no vote.
MajorityRead ==
  \A c \in Clients :
    op[c] = "FREAD" /\ outcome[c] = "OK" =>
      2 * Cardinality({m \in Nodes : <<m, c, num[c]>> \in ran}) > Cardinality(Nodes)

\* Requests that outlive a timeout do not overtake: with one worker to spare,
\* a server executes the commands of one client in the order they were sent.
OrderKept ==
  [][Spare <= 1 =>
       \A x \in ran' \ ran : \A y \in ran :
         x[1] = y[1] /\ x[2] = y[2] => y[3] <= x[3]]_vars

\* The copy the clients see: that of the server in a command, while there is one.
Current ==
  LET busy == {c \in Clients : ~Idle(c)} IN
  IF busy = {} THEN CHOOSE m \in Nodes : TRUE ELSE Home[CHOOSE c \in busy : TRUE]

AllCommands == UNION {{c} \X DOMAIN Requests[c] : c \in Clients}

\* The commands that have taken effect on their own server.
Done == {x \in AllCommands : <<Home[x[1]], x[1], x[2]>> \in ran}

One == INSTANCE OneFile
         WITH Commands <- AllCommands,
              data <- file[Current].data, pos <- Pointer(Current), done <- Done

\* As long as commands do not overlap, every peer is asked, and nothing fails
\* or times out, the servers together implement OneFile: what a command finds
\* on any server is what the last one left on another.
ActsAsOneFile ==
  One!Init /\ [][clean' => One!Next]_<<file[Current].data, Pointer(Current), Done>>

\* Every command is answered, though servers wait for each other's workers
\* and a peer may never serve anything.
CommandAnswered == \A c \in Clients : ~Idle(c) ~> Idle(c)

\* "Sync With Peers" (main.cpp): HandleSync asks each of the peers.
EveryPeerAsked ==
  \A c \in Clients : pc[c] = "gather" /\ Gathered(c) =>
    asked[c] = ToSet(Peers[Home[c]])

=============================================================================
