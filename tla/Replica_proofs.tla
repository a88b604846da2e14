----------------------------- MODULE Replica_proofs -----------------------------
(***************************************************************************)
(* What replica mode guarantees for any number of servers, clients and     *)
(* commands.                                                               *)
(***************************************************************************)
EXTENDS Replica, FiniteSetTheorems, SequenceTheorems, TLAPS

-----------------------------------------------------------------------------
(* The operations on one copy.                                             *)

Copies == [open : BOOLEAN, pos : Nat, data : Seq(Cells)]

LEMMA OverwriteType ==
  ASSUME NEW f \in Copies, NEW v \in Cells
  PROVE  Overwrite(f, v) \in Seq(Cells)
<1> DEFINE size == IF AtEnd(f) THEN f.pos + 1 ELSE Len(f.data)
<1>1. size \in Nat /\ Len(f.data) \in Nat
  BY LenProperties DEF Copies
<1>2. \A k \in 1 .. size :
        (IF k = f.pos + 1 THEN v ELSE IF k <= Len(f.data) THEN f.data[k] ELSE Hole)
          \in Cells
  BY <1>1, ElementOfSeq DEF Copies, Cells
<1>3. Overwrite(f, v) \in [1 .. size -> Cells]
  BY <1>1, <1>2 DEF Overwrite
<1> HIDE DEF size
<1> QED
  BY <1>1, <1>3, SeqDef

LEMMA CopyType ==
  ASSUME NEW f \in Copies, NEW o \in Ops, NEW v \in Cells
  PROVE  /\ Open(f) \in Copies /\ Open(f).open /\ Close(f) \in Copies
         /\ After(o, f, v) \in Copies
         /\ Returned(o, f) \in {0, 1}
<1>1. Open(f) \in Copies /\ Open(f).open /\ Close(f) \in Copies
  BY DEF Copies, Open, Close
<1>2. After(o, f, v) \in Copies
  <2>1. CASE o = "FWRITE"
    <3>1. After(o, f, v) = [f EXCEPT !.pos = f.pos + 1, !.data = Overwrite(f, v)]
      BY <2>1 DEF After
    <3>2. Overwrite(f, v) \in Seq(Cells)
      BY OverwriteType
    <3>3. After(o, f, v) = [open |-> f.open, pos |-> f.pos + 1, data |-> Overwrite(f, v)]
      BY <3>1 DEF Copies
    <3> QED
      BY <3>2, <3>3 DEF Copies
  <2>2. CASE o = "FSEEK" \/ (o = "FREAD" /\ ~AtEnd(f))
    <3>1. After(o, f, v) = [f EXCEPT !.pos = f.pos + 1]
      BY <2>2 DEF After
    <3> QED
      BY <3>1 DEF Copies
  <2>3. CASE o = "FOPEN" \/ (o = "FREAD" /\ AtEnd(f))
    BY <2>3 DEF After
  <2>4. CASE o = "FCLOSE"
    BY <1>1, <2>4 DEF After
  <2> QED
    BY <2>1, <2>2, <2>3, <2>4, Zenon DEF Ops
<1>3. Returned(o, f) \in {0, 1}
  BY DEF Returned
<1> QED
  BY <1>1, <1>2, <1>3

-----------------------------------------------------------------------------
(* The requests a server has not executed yet.                             *)

LEMMA ToSetAppend ==
  ASSUME NEW S, NEW s \in Seq(S), NEW x \in S
  PROVE  ToSet(Append(s, x)) = ToSet(s) \cup {x}
<1>1. /\ Len(Append(s, x)) = Len(s) + 1
      /\ \A k \in 1 .. Len(s) : Append(s, x)[k] = s[k]
      /\ Append(s, x)[Len(s) + 1] = x
      /\ DOMAIN Append(s, x) = 1 .. Len(s) + 1 /\ DOMAIN s = 1 .. Len(s)
      /\ Len(s) \in Nat
  BY AppendProperties, LenProperties
<1> QED
  BY <1>1 DEF ToSet

LEMMA ToSetTail ==
  ASSUME NEW S, NEW s \in Seq(S), s # <<>>
  PROVE  /\ Head(s) \in S /\ Tail(s) \in Seq(S)
         /\ ToSet(s) = ToSet(Tail(s)) \cup {Head(s)}
<1>1. /\ Head(s) \in S /\ Tail(s) \in Seq(S) /\ Len(Tail(s)) = Len(s) - 1
      /\ \A k \in 1 .. Len(Tail(s)) : Tail(s)[k] = s[k + 1]
      /\ Head(s) = s[1]
      /\ DOMAIN Tail(s) = 1 .. Len(Tail(s)) /\ DOMAIN s = 1 .. Len(s)
      /\ Len(s) \in Nat \ {0}
  BY HeadTailProperties, LenProperties, EmptySeq
<1>2. ToSet(s) \subseteq ToSet(Tail(s)) \cup {Head(s)}
  <2> SUFFICES ASSUME NEW k \in 1 .. Len(s)
               PROVE  s[k] \in ToSet(Tail(s)) \cup {Head(s)}
    BY <1>1 DEF ToSet
  <2>1. CASE k = 1
    BY <1>1, <2>1
  <2>2. CASE k # 1
    <3>1. k - 1 \in 1 .. Len(Tail(s)) /\ Tail(s)[k - 1] = s[k]
      BY <1>1, <2>2
    <3> QED
      BY <1>1, <3>1 DEF ToSet
  <2> QED
    BY <2>1, <2>2
<1>3. ToSet(Tail(s)) \cup {Head(s)} \subseteq ToSet(s)
  BY <1>1 DEF ToSet
<1> QED
  BY <1>1, <1>2, <1>3

LEMMA ToSetType ==
  ASSUME NEW S, NEW s \in Seq(S)
  PROVE  ToSet(s) \subseteq S
BY LenProperties, ElementOfSeq DEF ToSet

LEMMA ToSetEmpty == ToSet(<<>>) = {}
BY DEF ToSet

LEMMA PeersType ==
  ASSUME NEW c \in Clients
  PROVE  /\ Home[c] \in Nodes /\ Peers[Home[c]] \in Seq(Nodes)
         /\ Len(Peers[Home[c]]) \in Nat \ {0}
         /\ Tasks(c) = 1 .. Len(Peers[Home[c]])
         /\ \A t \in Tasks(c) : Peers[Home[c]][t] \in ToSet(Peers[Home[c]])
         /\ ToSet(Peers[Home[c]]) \subseteq Nodes \ {Home[c]}
<1>1. Home[c] \in Nodes
  BY ReplicaAssumption
<1>2. /\ Peers[Home[c]] \in Seq(Nodes) /\ Peers[Home[c]] # <<>>
      /\ Home[c] \notin ToSet(Peers[Home[c]])
  BY <1>1, ReplicaAssumption
<1>3. /\ Len(Peers[Home[c]]) \in Nat \ {0}
      /\ DOMAIN Peers[Home[c]] = 1 .. Len(Peers[Home[c]])
  BY <1>2, LenProperties, EmptySeq
<1>4. \A t \in 1 .. Len(Peers[Home[c]]) : Peers[Home[c]][t] \in Nodes
  BY <1>2, ElementOfSeq
<1> QED
  BY <1>1, <1>2, <1>3, <1>4 DEF Tasks, ToSet

\* The requests on a server's connections, accepted or not.
Pending(m) == serving[m] \cup ToSet(backlog[m])

\* What Connect sends.
Request(c, t) ==
  [client |-> c, task |-> t, num |-> num[c], op |-> op[c], named |-> named[c]]

-----------------------------------------------------------------------------
(* Types.                                                                  *)

\* What TypeOK leaves open: the clients are the domain of what belongs to
\* them; tasks are started in order, and run only while HandleSync does.
Placed(c) ==
  /\ pc[c] \in {"idle", "build"} =>
       next[c] = 0 /\ \A t \in Tasks(c) : task[c][t] = "none" /\ answer[c][t] = NoAnswer
  /\ pc[c] = "spawn" => next[c] < Len(Peers[Home[c]])
  /\ \A t \in Tasks(c) :
       /\ task[c][t] # "none" => t <= next[c]
       /\ task[c][t] \in {"created", "sent"} => pc[c] \in {"spawn", "gather"}
       /\ answer[c][t] # NoAnswer => task[c][t] = "done"

TypeInv ==
  /\ TypeOK
  /\ DOMAIN next = Clients /\ DOMAIN task = Clients /\ DOMAIN answer = Clients
  /\ \A c \in Clients : Placed(c)

\* The parts of TypeInv, for the steps that need no more.
LEMMA CopyTyping ==
  ASSUME TypeInv
  PROVE  /\ file \in [Nodes -> Copies]
         /\ \A c \in Clients : Home[c] \in Nodes /\ file[Home[c]] \in Copies
BY PeersType DEF TypeInv, TypeOK, Copies

LEMMA SessionTyping ==
  ASSUME TypeInv
  PROVE  /\ pc \in [Clients -> {"idle", "build", "spawn", "gather", "close", "respond"}]
         /\ op \in [Clients -> Ops] /\ num \in [Clients -> Nat]
         /\ result \in [Clients -> {-1, 0, 1}] /\ named \in [Clients -> BOOLEAN]
         /\ outcome \in [Clients -> {"none", "OK", "ERR", "SYNC FAIL"}]
BY DEF TypeInv, TypeOK, Failed

LEMMA RequestTyping ==
  ASSUME TypeInv, NEW c \in Clients
  PROVE  num[c] \in Nat /\ Len(Requests[c]) \in Nat /\ num[c] <= Len(Requests[c])
BY ReplicaAssumption, LenProperties DEF TypeInv, TypeOK

LEMMA TaskTyping ==
  ASSUME TypeInv
  PROVE  /\ DOMAIN next = Clients /\ DOMAIN task = Clients /\ DOMAIN answer = Clients
         /\ \A c \in Clients :
              /\ Len(Peers[Home[c]]) \in Nat \ {0}
              /\ Tasks(c) = 1 .. Len(Peers[Home[c]])
              /\ next[c] \in 0 .. Len(Peers[Home[c]])
              /\ task[c] \in [Tasks(c) -> {"none", "created", "sent", "done"}]
              /\ answer[c] \in [Tasks(c) -> {-2, -1, 0, 1}]
              /\ Placed(c)
BY PeersType DEF TypeInv, TypeOK, NoAnswer, Failed

LEMMA HistoryTyping ==
  ASSUME TypeInv
  PROVE  /\ asked \in [Clients -> SUBSET Nodes]
         /\ ran \subseteq Nodes \X Clients \X Nat /\ clean \in BOOLEAN
BY DEF TypeInv, TypeOK

LEMMA InitType == Init => TypeInv
<1> SUFFICES ASSUME Init
             PROVE  TypeInv
  OBVIOUS
<1>1. \A c \in Clients : /\ Tasks(c) = 1 .. Len(Peers[Home[c]])
                         /\ Len(Peers[Home[c]]) \in Nat \ {0}
                         /\ Len(Requests[c]) \in Nat
  BY PeersType, ReplicaAssumption, LenProperties
<1>2. file \in [Nodes -> Copies]
  BY ReplicaAssumption DEF Init, Copies
<1>3. /\ backlog \in [Nodes -> Seq(SyncRequests)]
      /\ serving \in [Nodes -> SUBSET SyncRequests]
      /\ \A m \in Nodes : serving[m] \cup ToSet(backlog[m]) = {}
  <2>1. <<>> \in Seq(SyncRequests)
    BY EmptySeq
  <2> QED
    BY <2>1, ToSetEmpty DEF Init
<1>4. /\ pc \in [Clients -> {"idle", "build", "spawn", "gather", "close", "respond"}]
      /\ op \in [Clients -> Ops] /\ num \in [Clients -> Nat]
      /\ result \in [Clients -> {Failed, 0, 1}] /\ named \in [Clients -> BOOLEAN]
      /\ outcome \in [Clients -> {"none", "OK", "ERR", "SYNC FAIL"}]
      /\ asked \in [Clients -> SUBSET Nodes]
      /\ ran \subseteq Nodes \X Clients \X Nat /\ clean \in BOOLEAN
  BY DEF Init, Ops
<1>5. DOMAIN next = Clients /\ DOMAIN task = Clients /\ DOMAIN answer = Clients
  BY DEF Init
<1>6. ASSUME NEW c \in Clients
      PROVE  /\ num[c] <= Len(Requests[c])
             /\ next[c] \in 0 .. Len(Peers[Home[c]])
             /\ task[c] \in [Tasks(c) -> {"none", "created", "sent", "done"}]
             /\ answer[c] \in [Tasks(c) -> {NoAnswer, Failed, 0, 1}]
             /\ Placed(c)
  BY <1>1 DEF Init, Placed
<1> QED
  BY <1>2, <1>3, <1>4, <1>5, <1>6 DEF TypeInv, TypeOK, Copies

\* What a step leaves alone keeps its type.
LEMMA SameQueues ==
  ASSUME TypeInv, UNCHANGED <<backlog, serving>>,
         \A c \in Clients : num'[c] \in Nat /\ num[c] <= num'[c]
  PROVE  \A m \in Nodes : \A r \in Pending(m)' :
           r.task \in Tasks(r.client) /\ r.num <= num'[r.client]
<1>1. ASSUME NEW m \in Nodes, NEW r \in Pending(m)
      PROVE  /\ r.task \in Tasks(r.client) /\ r.num <= num[r.client]
             /\ r.client \in Clients /\ r.num \in Nat /\ num[r.client] \in Nat
  <2>1. r \in SyncRequests
    BY ToSetType DEF TypeInv, TypeOK, Pending
  <2> QED
    BY <2>1 DEF TypeInv, TypeOK, Pending, SyncRequests
<1> QED
  BY <1>1 DEF Pending

\* What RunLocal does, with the choice of the command made.
RunsLocal(c, o) ==
  LET m == Home[c]
      k == num[c] + 1
      usable == o = "FOPEN" \/ file[m].open
      done   == usable /\ o # "FCLOSE"
  IN /\ pc[c] = "idle" /\ num[c] < Len(Requests[c]) /\ o \in Ops
     /\ result' = [result EXCEPT ![c] = IF usable THEN Returned(o, file[m]) ELSE Failed]
     /\ pc' = [pc EXCEPT ![c] =
          IF usable /\ o # "FOPEN" THEN "build"
          ELSE IF o = "FCLOSE" THEN "close" ELSE "respond"]
     /\ op' = [op EXCEPT ![c] = o] /\ num' = [num EXCEPT ![c] = k]
     /\ outcome' = [outcome EXCEPT ![c] = "none"]
     /\ file' = IF done THEN [file EXCEPT ![m] = After(o, Open(file[m]), <<c, k>>)]
                ELSE file
     /\ ran'  = IF done THEN ran \cup {<<m, c, k>>} ELSE ran
     /\ clean' = (clean /\ \A x \in Clients : pc[x] = "idle")

LEMMA RunLocalIs ==
  ASSUME TypeInv, NEW c \in Clients, RunLocal(c)
  PROVE  \E o \in Ops : RunsLocal(c, o)
<1>1. num[c] < Len(Requests[c])
  BY DEF RunLocal
<1>2. num[c] + 1 \in 1 .. Len(Requests[c])
  BY <1>1, RequestTyping
<1>3. Requests[c][num[c] + 1] \in SUBSET Ops
  BY <1>2, ReplicaAssumption, ElementOfSeq
<1>4. PICK o \in Requests[c][num[c] + 1] :
       LET m == Home[c]
           k == num[c] + 1
           usable == o = "FOPEN" \/ file[m].open
           res    == IF usable THEN Returned(o, file[m]) ELSE Failed
           done   == usable /\ o # "FCLOSE"
       IN /\ SessionStep(c, "idle", IF SyncNeeded(o, res) THEN "build"
                                    ELSE IF o = "FCLOSE" THEN "close"
                                    ELSE "respond")
          /\ op'  = Set(op, c, o)
          /\ num' = Set(num, c, k)
          /\ result' = Set(result, c, res)
          /\ file' = IF done THEN Set(file, m, After(o, Open(file[m]), <<c, k>>))
                     ELSE file
          /\ ran'  = IF done THEN ran \cup {<<m, c, k>>} ELSE ran
  BY DEF RunLocal
<1>5. SyncNeeded(o, IF o = "FOPEN" \/ file[Home[c]].open
                    THEN Returned(o, file[Home[c]]) ELSE Failed)
      <=> (o = "FOPEN" \/ file[Home[c]].open) /\ o # "FOPEN"
  BY DEF SyncNeeded, Returned, Failed
<1>6. RunsLocal(c, o)
  BY <1>1, <1>3, <1>4, <1>5 DEF RunsLocal, RunLocal, SessionStep, Set, Idle
<1> QED
  BY <1>3, <1>6

LEMMA RunLocalType ==
  ASSUME TypeInv, NEW c \in Clients, RunLocal(c)
  PROVE  TypeInv'
<1>1. PICK o \in Ops : RunsLocal(c, o)
  BY RunLocalIs
<1>2. UNCHANGED <<backlog, serving, named, next, task, answer, asked>>
  BY DEF RunLocal, tasks
<1>3. /\ Home[c] \in Nodes /\ num[c] \in Nat
      /\ <<c, num[c] + 1>> \in Cells /\ file[Home[c]] \in Copies
  BY RequestTyping, CopyTyping DEF Cells
<1>4. /\ After(o, Open(file[Home[c]]), <<c, num[c] + 1>>) \in Copies
      /\ Returned(o, file[Home[c]]) \in {0, 1}
  BY <1>3, CopyType
<1>5. file' \in [Nodes -> Copies]
  BY <1>1, <1>3, <1>4, CopyTyping DEF RunsLocal
<1>6. ran' \subseteq Nodes \X Clients \X Nat
  BY <1>1, <1>3, HistoryTyping DEF RunsLocal
<1>7. /\ \A x \in Clients : num'[x] \in Nat /\ num[x] <= num'[x]
      /\ num' \in [Clients -> Nat]
      /\ \A x \in Clients : num'[x] <= Len(Requests[x])
  <2>1. num' = [num EXCEPT ![c] = num[c] + 1] /\ num[c] < Len(Requests[c])
    BY <1>1 DEF RunsLocal
  <2>2. /\ num \in [Clients -> Nat]
        /\ \A x \in Clients : Len(Requests[x]) \in Nat /\ num[x] <= Len(Requests[x])
    BY SessionTyping, RequestTyping
  <2> QED
    BY <2>1, <2>2
<1>8. \A m \in Nodes : \A r \in Pending(m)' :
        r.task \in Tasks(r.client) /\ r.num <= num'[r.client]
  BY <1>2, <1>7, SameQueues
<1>9. /\ pc' \in [Clients -> {"idle", "build", "spawn", "gather", "close", "respond"}]
      /\ op' \in [Clients -> Ops] /\ result' \in [Clients -> {Failed, 0, 1}]
      /\ outcome' \in [Clients -> {"none", "OK", "ERR", "SYNC FAIL"}]
      /\ clean' \in BOOLEAN
  BY <1>1, <1>4, SessionTyping, HistoryTyping DEF RunsLocal, Failed
<1>10. ASSUME NEW x \in Clients
       PROVE  Placed(x)'
  <2>1. pc[c] = "idle" /\ pc'[c] \in {"build", "close", "respond"}
        /\ \A y \in Clients : y # c => pc'[y] = pc[y]
    BY <1>1, SessionTyping DEF RunsLocal
  <2> QED
    BY <1>2, <2>1, TaskTyping DEF Placed, Tasks
<1> QED
  BY <1>2, <1>5, <1>6, <1>7, <1>8, <1>9, <1>10 DEF TypeInv, TypeOK, Copies, Pending, Tasks

LEMMA ResponseType ==
  ASSUME NEW c
  PROVE  Response(c).status \in {"OK", "ERR", "SYNC FAIL"}
BY DEF Response, Res!fileInUse, Res!syncFail, Res!file, Res!Payload

\* The other steps of a session change pc, and little else.
LEMMA SessionType ==
  ASSUME TypeInv, NEW c \in Clients, Session(c)
  PROVE  TypeInv'
<1>1. CASE SyncRequestBuilder(c)
  <2>1. /\ pc[c] = "build" /\ pc' = [pc EXCEPT ![c] = "spawn"]
        /\ named' = [named EXCEPT ![c] = file[Home[c]].open]
        /\ UNCHANGED <<file, backlog, serving, op, num, result, next, task, answer,
                       outcome, asked, ran, clean>>
    BY <1>1 DEF SyncRequestBuilder, SessionStep, Set, servers, tasks, history
  <2>2. /\ pc' \in [Clients -> {"idle", "build", "spawn", "gather", "close", "respond"}]
        /\ named' \in [Clients -> BOOLEAN]
    BY <2>1, SessionTyping, CopyTyping DEF Copies
  <2>3. ASSUME NEW x \in Clients
        PROVE  Placed(x)'
    <3>1. /\ x = c => pc[x] = "build" /\ pc'[x] = "spawn"
          /\ x # c => pc'[x] = pc[x]
      BY <2>1, SessionTyping
    <3> QED
      BY <2>1, <3>1, TaskTyping DEF Placed, Tasks
  <2> QED
    BY <2>1, <2>2, <2>3 DEF TypeInv, TypeOK, Tasks
<1>2. CASE SpawnTask(c)
  <2>1. /\ pc[c] = "spawn"
        /\ pc' = [pc EXCEPT ![c] = IF LastPeer(c) THEN "gather" ELSE "spawn"]
        /\ next' = [next EXCEPT ![c] = next[c] + 1]
        /\ task' = [task EXCEPT ![c] = [task[c] EXCEPT ![next[c] + 1] = "created"]]
        /\ UNCHANGED <<file, backlog, serving, op, num, result, named, answer,
                       outcome, asked, ran, clean>>
    BY <1>2 DEF SpawnTask, SessionStep, Set, servers, request, history
  <2>2. pc' \in [Clients -> {"idle", "build", "spawn", "gather", "close", "respond"}]
    BY <2>1, SessionTyping
  <2>3. ASSUME NEW x \in Clients
        PROVE  /\ next'[x] \in 0 .. Len(Peers[Home[x]])
               /\ task'[x] \in [Tasks(x) -> {"none", "created", "sent", "done"}]
               /\ Placed(x)'
    <3>1. /\ pc'[c] = IF LastPeer(c) THEN "gather" ELSE "spawn"
          /\ x # c => pc'[x] = pc[x]
      BY <2>1, SessionTyping
    <3>2. CASE x = c
      BY <2>1, <3>1, <3>2, TaskTyping DEF Placed, Tasks, LastPeer
    <3>3. CASE x # c
      BY <2>1, <3>1, <3>3, TaskTyping DEF Placed, Tasks
    <3> QED
      BY <3>2, <3>3
  <2> QED
    BY <2>1, <2>2, <2>3 DEF TypeInv, TypeOK, Tasks
<1>3. CASE GatherAnswers(c)
  <2>1. /\ pc[c] = "gather" /\ \A t \in Tasks(c) : task[c][t] = "done"
        /\ pc' = [pc EXCEPT ![c] = IF op[c] = "FCLOSE" THEN "close" ELSE "respond"]
        /\ asked' = [asked EXCEPT ![c] = {}]
        /\ clean' = (clean /\ asked[c] = ToSet(Peers[Home[c]]))
        /\ UNCHANGED <<file, backlog, serving, op, num, result, named, next, task,
                       answer, outcome, ran>>
    BY <1>3 DEF GatherAnswers, Gathered, SessionStep, Set, servers, request, tasks
  <2>2. /\ pc' \in [Clients -> {"idle", "build", "spawn", "gather", "close", "respond"}]
        /\ asked' \in [Clients -> SUBSET Nodes] /\ clean' \in BOOLEAN
    BY <2>1, SessionTyping, HistoryTyping
  <2>3. ASSUME NEW x \in Clients
        PROVE  Placed(x)'
    <3>1. /\ x = c => pc'[x] \in {"close", "respond"}
          /\ x # c => pc'[x] = pc[x]
      BY <2>1, SessionTyping
    <3> QED
      BY <2>1, <3>1, TaskTyping DEF Placed, Tasks
  <2> QED
    BY <2>1, <2>2, <2>3 DEF TypeInv, TypeOK, Tasks
<1>4. CASE CloseLocal(c)
  <2>1. /\ pc[c] = "close" /\ pc' = [pc EXCEPT ![c] = "respond"]
        /\ result' = [result EXCEPT ![c] = IF file[Home[c]].open THEN 0 ELSE Failed]
        /\ file' = [file EXCEPT ![Home[c]] = Close(file[Home[c]])]
        /\ ran' = IF file[Home[c]].open THEN ran \cup {<<Home[c], c, num[c]>>} ELSE ran
        /\ UNCHANGED <<backlog, serving, op, num, named, next, task, answer, outcome,
                       asked, clean>>
    BY <1>4 DEF CloseLocal, SessionStep, Set, tasks
  <2>2. /\ pc' \in [Clients -> {"idle", "build", "spawn", "gather", "close", "respond"}]
        /\ result' \in [Clients -> {Failed, 0, 1}]
    BY <2>1, SessionTyping DEF Failed
  <2>3. Close(file[Home[c]]) \in Copies
    BY CopyTyping DEF Close, Copies
  <2>4. file' \in [Nodes -> Copies]
    BY <2>1, <2>3, CopyTyping
  <2>5. ran' \subseteq Nodes \X Clients \X Nat
    <3>1. <<Home[c], c, num[c]>> \in Nodes \X Clients \X Nat
      BY CopyTyping, SessionTyping
    <3> QED
      BY <2>1, <3>1, HistoryTyping
  <2>6. ASSUME NEW x \in Clients
        PROVE  Placed(x)'
    <3>1. /\ x = c => pc[x] = "close" /\ pc'[x] = "respond"
          /\ x # c => pc'[x] = pc[x]
      BY <2>1, SessionTyping
    <3> QED
      BY <2>1, <3>1, TaskTyping DEF Placed, Tasks
  <2> QED
    BY <2>1, <2>2, <2>4, <2>5, <2>6 DEF TypeInv, TypeOK, Tasks, Copies
<1>5. CASE Respond(c)
  <2>1. /\ pc[c] = "respond" /\ pc' = [pc EXCEPT ![c] = "idle"]
        /\ outcome' = [outcome EXCEPT ![c] = Response(c).status]
        /\ next'   = [next   EXCEPT ![c] = 0]
        /\ task'   = [task   EXCEPT ![c] = [t \in Tasks(c) |-> "none"]]
        /\ answer' = [answer EXCEPT ![c] = [t \in Tasks(c) |-> NoAnswer]]
        /\ result' = [result EXCEPT ![c] = 0] /\ named' = [named EXCEPT ![c] = FALSE]
        /\ UNCHANGED <<file, backlog, serving, op, num, asked, ran, clean>>
    BY <1>5 DEF Respond, SessionStep, Set, servers, history
  <2>2. /\ pc' \in [Clients -> {"idle", "build", "spawn", "gather", "close", "respond"}]
        /\ outcome' \in [Clients -> {"none", "OK", "ERR", "SYNC FAIL"}]
        /\ result' \in [Clients -> {Failed, 0, 1}] /\ named' \in [Clients -> BOOLEAN]
    BY <2>1, ResponseType, SessionTyping DEF Failed
  <2>3. ASSUME NEW x \in Clients
        PROVE  /\ next'[x] \in 0 .. Len(Peers[Home[x]])
               /\ task'[x] \in [Tasks(x) -> {"none", "created", "sent", "done"}]
               /\ answer'[x] \in [Tasks(x) -> {NoAnswer, Failed, 0, 1}]
               /\ Placed(x)'
    <3>1. /\ x = c => pc'[x] = "idle"
          /\ x # c => pc'[x] = pc[x]
      BY <2>1, SessionTyping
    <3>2. CASE x = c
      BY <2>1, <3>1, <3>2, TaskTyping DEF Placed, Tasks
    <3>3. CASE x # c
      BY <2>1, <3>1, <3>3, TaskTyping DEF Placed, Tasks, NoAnswer, Failed
    <3> QED
      BY <3>2, <3>3
  <2> QED
    BY <2>1, <2>2, <2>3 DEF TypeInv, TypeOK, Tasks
<1> QED
  BY <1>1, <1>2, <1>3, <1>4, <1>5 DEF Session

LEMMA QueueTyping ==
  ASSUME TypeInv
  PROVE  /\ backlog \in [Nodes -> Seq(SyncRequests)]
         /\ serving \in [Nodes -> SUBSET SyncRequests]
         /\ \A m \in Nodes : \A r \in Pending(m) :
              /\ r \in SyncRequests
              /\ r.client \in Clients /\ r.task \in Tasks(r.client)
              /\ r.num \in Nat /\ r.num <= num[r.client] /\ r.op \in Ops
<1>1. /\ backlog \in [Nodes -> Seq(SyncRequests)]
      /\ serving \in [Nodes -> SUBSET SyncRequests]
      /\ \A m \in Nodes : \A r \in Pending(m) :
           r.task \in Tasks(r.client) /\ r.num <= num[r.client]
  BY DEF TypeInv, TypeOK, Pending
<1>2. \A m \in Nodes : \A r \in Pending(m) : r \in SyncRequests
  BY <1>1, ToSetType DEF Pending
<1> QED
  BY <1>1, <1>2 DEF SyncRequests

\* What Connect does: the peer gets one request more.
LEMMA ConnectIs ==
  ASSUME TypeInv, NEW c \in Clients, NEW t \in Tasks(c), Connect(c, t)
  PROVE  \E p \in Nodes :
         /\ p = PeerAddress(c, t)
         /\ p \in ToSet(Peers[Home[c]]) /\ p # Home[c]
         /\ Request(c, t) \in SyncRequests
         /\ backlog' = [backlog EXCEPT ![p] = Append(backlog[p], Request(c, t))]
         /\ backlog' \in [Nodes -> Seq(SyncRequests)]
         /\ Pending(p)' = Pending(p) \cup {Request(c, t)}
         /\ \A m \in Nodes : m # p => Pending(m)' = Pending(m)
         /\ task[c][t] = "created" /\ pc[c] \in {"spawn", "gather"}
         /\ task' = [task EXCEPT ![c] = [task[c] EXCEPT ![t] = "sent"]]
         /\ asked' = [asked EXCEPT ![c] = asked[c] \cup {p}]
         /\ UNCHANGED <<file, serving, pc, op, num, result, named, next, answer,
                        outcome, ran, clean>>
<1>1. /\ task[c][t] = "created"
      /\ task' = [task EXCEPT ![c] = [task[c] EXCEPT ![t] = "sent"]]
      /\ UNCHANGED <<file, serving, pc, op, num, result, named, next, answer,
                     outcome, ran, clean>>
  BY DEF Connect, TaskStep, request
<1>2. pc[c] \in {"spawn", "gather"} /\ next[c] \in Tasks(c) /\ t \in Nat
  BY <1>1, TaskTyping DEF Placed
<1>3. PeerAddress(c, t) \in ToSet(Peers[Home[c]]) /\ PeerAddress(c, t) \in Nodes \ {Home[c]}
  BY <1>2, PeersType DEF PeerAddress
<1> PICK p \in Nodes : p = PeerAddress(c, t)
  BY <1>3
<1>4. /\ backlog' = [backlog EXCEPT ![p] = Append(backlog[p], Request(c, t))]
      /\ asked' = [asked EXCEPT ![c] = asked[c] \cup {p}]
  BY DEF Connect, Request
<1>5. Request(c, t) \in SyncRequests
  BY <1>2, SessionTyping DEF Request, SyncRequests
<1>6. backlog[p] \in Seq(SyncRequests) /\ DOMAIN backlog = Nodes
  BY QueueTyping
<1>7. /\ Append(backlog[p], Request(c, t)) \in Seq(SyncRequests)
      /\ ToSet(Append(backlog[p], Request(c, t)))
           = ToSet(backlog[p]) \cup {Request(c, t)}
  BY <1>5, <1>6, ToSetAppend, AppendProperties
<1>8. backlog' \in [Nodes -> Seq(SyncRequests)]
  BY <1>4, <1>7, QueueTyping
<1>9. /\ Pending(p)' = Pending(p) \cup {Request(c, t)}
      /\ \A m \in Nodes : m # p => Pending(m)' = Pending(m)
  <2>1. backlog'[p] = Append(backlog[p], Request(c, t)) /\ serving' = serving
    BY <1>1, <1>4, <1>6
  <2>2. \A m \in Nodes : m # p => backlog'[m] = backlog[m]
    BY <1>4, <1>6
  <2> QED
    BY <1>7, <2>1, <2>2 DEF Pending
<1> QED
  BY <1>1, <1>2, <1>3, <1>4, <1>5, <1>8, <1>9

LEMMA AsyncType ==
  ASSUME TypeInv, NEW c \in Clients, NEW t \in Tasks(c), Async(c, t)
  PROVE  TypeInv'
<1>1. CASE Connect(c, t)
  <2>1. PICK p \in Nodes :
        /\ backlog' \in [Nodes -> Seq(SyncRequests)]
        /\ Pending(p)' = Pending(p) \cup {Request(c, t)}
        /\ \A m \in Nodes : m # p => Pending(m)' = Pending(m)
        /\ task[c][t] = "created"
        /\ task' = [task EXCEPT ![c] = [task[c] EXCEPT ![t] = "sent"]]
        /\ asked' = [asked EXCEPT ![c] = asked[c] \cup {p}]
        /\ UNCHANGED <<file, serving, pc, op, num, result, named, next, answer,
                       outcome, ran, clean>>
    BY <1>1, ConnectIs
  <2>2. \A m \in Nodes : \A r \in Pending(m)' :
          r.task \in Tasks(r.client) /\ r.num <= num[r.client]
    <3>1. /\ Request(c, t).client = c /\ Request(c, t).task = t
          /\ Request(c, t).num = num[c] /\ num[c] \in Nat
      BY SessionTyping DEF Request
    <3> TAKE m \in Nodes
    <3> TAKE r \in Pending(m)'
    <3>2. r \in Pending(m) \/ r = Request(c, t)
      BY <2>1
    <3>3. CASE r \in Pending(m)
      BY <3>3, QueueTyping
    <3>4. CASE r = Request(c, t)
      BY <3>1, <3>4
    <3> QED
      BY <3>2, <3>3, <3>4
  <2>3. asked' \in [Clients -> SUBSET Nodes]
    BY <2>1, HistoryTyping
  <2>4. ASSUME NEW x \in Clients
        PROVE  /\ task'[x] \in [Tasks(x) -> {"none", "created", "sent", "done"}]
               /\ Placed(x)'
    BY <2>1, TaskTyping DEF Placed, Tasks
  <2> QED
    BY <2>1, <2>2, <2>3, <2>4 DEF TypeInv, TypeOK, Tasks, Pending
<1>2. CASE ConnectFails(c, t) \/ Timeout(c, t)
  <2>1. /\ task[c][t] \in {"created", "sent"}
        /\ task' = [task EXCEPT ![c] = [task[c] EXCEPT ![t] = "done"]]
        /\ answer' = answer \/ answer' = [answer EXCEPT ![c] = [answer[c] EXCEPT ![t] = Failed]]
        /\ UNCHANGED <<file, backlog, serving, pc, op, num, result, named, next,
                       outcome, ran>>
        /\ clean' = FALSE
    BY <1>2 DEF ConnectFails, Timeout, TaskStep, servers, request
  <2>2. asked' \in [Clients -> SUBSET Nodes]
    <3>1. CASE ConnectFails(c, t)
      <4>1. next[c] \in Tasks(c)
        BY <3>1, TaskTyping DEF Placed, ConnectFails, TaskStep
      <4>2. PeerAddress(c, t) \in Nodes
        BY <4>1, PeersType DEF PeerAddress
      <4> QED
        BY <3>1, <4>2, HistoryTyping DEF ConnectFails
    <3>2. CASE Timeout(c, t)
      BY <3>2, HistoryTyping DEF Timeout
    <3> QED
      BY <1>2, <3>1, <3>2
  <2>3. ASSUME NEW x \in Clients
        PROVE  /\ task'[x] \in [Tasks(x) -> {"none", "created", "sent", "done"}]
               /\ answer'[x] \in [Tasks(x) -> {NoAnswer, Failed, 0, 1}]
               /\ Placed(x)'
    <3>1. CASE x = c
      <4>1. task'[c] = [task[c] EXCEPT ![t] = "done"]
        BY <2>1, TaskTyping
      <4>2. /\ answer'[c] \in [Tasks(c) -> {NoAnswer, Failed, 0, 1}]
            /\ \A k \in Tasks(c) : k # t => answer'[c][k] = answer[c][k]
        BY <2>1, TaskTyping DEF Failed, NoAnswer
      <4>3. pc[c] \in {"spawn", "gather"} /\ t <= next[c]
        BY <2>1, TaskTyping DEF Placed
      <4>4. Placed(c)'
        BY <2>1, <4>1, <4>2, <4>3, TaskTyping DEF Placed, Tasks
      <4> QED
        BY <3>1, <4>1, <4>2, <4>4, TaskTyping
    <3>2. CASE x # c
      BY <2>1, <3>2, TaskTyping DEF Placed, Tasks, Failed, NoAnswer
    <3> QED
      BY <3>1, <3>2
  <2>4. DOMAIN task' = Clients /\ DOMAIN answer' = Clients
    BY <2>1, TaskTyping
  <2> QED
    BY <2>1, <2>2, <2>3, <2>4 DEF TypeInv, TypeOK, Tasks
<1> QED
  BY <1>1, <1>2 DEF Async

\* What AcceptSync does: the oldest request gets a worker.
LEMMA AcceptIs ==
  ASSUME TypeInv, NEW m \in Nodes, AcceptSync(m)
  PROVE  /\ backlog[m] # <<>> /\ Head(backlog[m]) \in ToSet(backlog[m])
         /\ Cardinality(serving[m]) < Spare
         /\ serving' = [serving EXCEPT ![m] = serving[m] \cup {Head(backlog[m])}]
         /\ backlog' = [backlog EXCEPT ![m] = Tail(backlog[m])]
         /\ backlog' \in [Nodes -> Seq(SyncRequests)]
         /\ serving' \in [Nodes -> SUBSET SyncRequests]
         /\ \A q \in Nodes : Pending(q)' = Pending(q)
         /\ UNCHANGED <<file, pc, op, num, result, named, next, task, answer,
                        outcome, asked, ran, clean>>
<1>1. /\ backlog[m] # <<>> /\ Cardinality(serving[m]) < Spare
      /\ serving' = [serving EXCEPT ![m] = serving[m] \cup {Head(backlog[m])}]
      /\ backlog' = [backlog EXCEPT ![m] = Tail(backlog[m])]
      /\ UNCHANGED <<file, pc, op, num, result, named, next, task, answer,
                     outcome, asked, ran, clean>>
  BY DEF AcceptSync, SpareWorker, request, tasks, history
<1>2. /\ backlog[m] \in Seq(SyncRequests) /\ serving[m] \subseteq SyncRequests
      /\ DOMAIN backlog = Nodes /\ DOMAIN serving = Nodes
  BY QueueTyping
<1>3. /\ Head(backlog[m]) \in SyncRequests /\ Tail(backlog[m]) \in Seq(SyncRequests)
      /\ ToSet(backlog[m]) = ToSet(Tail(backlog[m])) \cup {Head(backlog[m])}
  BY <1>1, <1>2, ToSetTail
<1>4. /\ backlog' \in [Nodes -> Seq(SyncRequests)]
      /\ serving' \in [Nodes -> SUBSET SyncRequests]
  BY <1>1, <1>2, <1>3, QueueTyping
<1>5. ASSUME NEW q \in Nodes
      PROVE  Pending(q)' = Pending(q)
  <2>1. CASE q = m
    <3>1. backlog'[q] = Tail(backlog[m]) /\ serving'[q] = serving[m] \cup {Head(backlog[m])}
      BY <1>1, <1>2, <2>1
    <3> QED
      BY <1>3, <2>1, <3>1 DEF Pending
  <2>2. CASE q # m
    <3>1. backlog'[q] = backlog[q] /\ serving'[q] = serving[q]
      BY <1>1, <1>2, <2>2
    <3> QED
      BY <3>1 DEF Pending
  <2> QED
    BY <2>1, <2>2
<1> QED
  BY <1>1, <1>3, <1>4, <1>5

\* What Reply does: the request is gone, and its task is done if it waits.
LEMMA ReplyIs ==
  ASSUME TypeInv, NEW m \in Nodes, NEW r \in serving[m], NEW res \in {-1, 0, 1},
         Reply(m, r, res)
  PROVE  /\ r \in Pending(m) /\ r.client \in Clients /\ r.task \in Tasks(r.client)
         /\ serving' = [serving EXCEPT ![m] = serving[m] \ {r}]
         /\ serving' \in [Nodes -> SUBSET SyncRequests]
         /\ \A q \in Nodes : Pending(q)' \subseteq Pending(q)
         /\ \A q \in Nodes : q # m => Pending(q)' = Pending(q)
         /\ \/ /\ num[r.client] = r.num /\ task[r.client][r.task] = "sent"
               /\ pc[r.client] \in {"spawn", "gather"}
               /\ task' = [task EXCEPT ![r.client] = [task[r.client] EXCEPT ![r.task] = "done"]]
               /\ answer' = [answer EXCEPT ![r.client] = [answer[r.client] EXCEPT ![r.task] = res]]
            \/ /\ ~(num[r.client] = r.num /\ task[r.client][r.task] = "sent")
               /\ task' = task /\ answer' = answer
         /\ UNCHANGED <<backlog, pc, op, num, result, named, next, outcome, asked>>
<1>1. /\ serving' = [serving EXCEPT ![m] = serving[m] \ {r}]
      /\ UNCHANGED <<backlog, pc, op, num, result, named, next, outcome, asked>>
  BY DEF Reply, request
<1>2. r \in Pending(m) /\ r.client \in Clients /\ r.task \in Tasks(r.client)
  BY QueueTyping DEF Pending
<1>5. serving' \in [Nodes -> SUBSET SyncRequests] /\ DOMAIN serving = Nodes
  BY <1>1, QueueTyping
<1>6. ASSUME NEW q \in Nodes
      PROVE  Pending(q)' \subseteq Pending(q) /\ (q # m => Pending(q)' = Pending(q))
  <2>1. serving'[q] = IF q = m THEN serving[m] \ {r} ELSE serving[q]
    BY <1>1, <1>5
  <2> QED
    BY <1>1, <2>1 DEF Pending
<1>7. \/ /\ num[r.client] = r.num /\ task[r.client][r.task] = "sent"
         /\ pc[r.client] \in {"spawn", "gather"}
         /\ task' = [task EXCEPT ![r.client] = [task[r.client] EXCEPT ![r.task] = "done"]]
         /\ answer' = [answer EXCEPT ![r.client] = [answer[r.client] EXCEPT ![r.task] = res]]
      \/ /\ ~(num[r.client] = r.num /\ task[r.client][r.task] = "sent")
         /\ task' = task /\ answer' = answer
  <2>1. CASE num[r.client] = r.num /\ task[r.client][r.task] = "sent"
    <3>1. /\ task' = [task EXCEPT ![r.client] = [task[r.client] EXCEPT ![r.task] = "done"]]
          /\ answer' = [answer EXCEPT ![r.client] = [answer[r.client] EXCEPT ![r.task] = res]]
      BY <2>1 DEF Reply
    <3>2. pc[r.client] \in {"spawn", "gather"}
      BY <1>2, <2>1, TaskTyping DEF Placed
    <3> QED
      BY <2>1, <3>1, <3>2
  <2>2. CASE ~(num[r.client] = r.num /\ task[r.client][r.task] = "sent")
    BY <2>2 DEF Reply
  <2> QED
    BY <2>1, <2>2
<1> QED
  BY <1>1, <1>2, <1>5, <1>6, <1>7, Zenon

LEMMA ReplyType ==
  ASSUME TypeInv, NEW m \in Nodes, NEW r \in serving[m], NEW res \in {-1, 0, 1},
         Reply(m, r, res), file' \in [Nodes -> Copies],
         ran' \subseteq Nodes \X Clients \X Nat, clean' \in BOOLEAN
  PROVE  TypeInv'
<1>1. /\ serving' \in [Nodes -> SUBSET SyncRequests]
      /\ \A q \in Nodes : Pending(q)' \subseteq Pending(q)
      /\ UNCHANGED <<backlog, pc, op, num, result, named, next, outcome, asked>>
  BY ReplyIs
<1>2. \A q \in Nodes : \A x \in Pending(q)' :
        x.task \in Tasks(x.client) /\ x.num <= num[x.client]
  BY <1>1, QueueTyping
<1>3. DOMAIN task' = Clients /\ DOMAIN answer' = Clients
      /\ \A x \in Clients :
           /\ task'[x] \in [Tasks(x) -> {"none", "created", "sent", "done"}]
           /\ answer'[x] \in [Tasks(x) -> {NoAnswer, Failed, 0, 1}]
           /\ Placed(x)'
  <2>4. \/ task' = task /\ answer' = answer
        \/ /\ task[r.client][r.task] = "sent"
           /\ task' = [task EXCEPT ![r.client] = [task[r.client] EXCEPT ![r.task] = "done"]]
           /\ answer' = [answer EXCEPT ![r.client] = [answer[r.client] EXCEPT ![r.task] = res]]
    <3>1. CASE num[r.client] = r.num /\ task[r.client][r.task] = "sent"
      BY <3>1 DEF Reply
    <3>2. CASE ~(num[r.client] = r.num /\ task[r.client][r.task] = "sent")
      BY <3>2 DEF Reply
    <3> QED
      BY <3>1, <3>2
  <2> DEFINE c == r.client  t == r.task
  <2>1. c \in Clients /\ t \in Tasks(c)
    BY ReplyIs
  <2>2. CASE task' = task /\ answer' = answer
    BY <1>1, <2>2, TaskTyping DEF Placed, Tasks, NoAnswer, Failed
  <2>3. CASE /\ task[c][t] = "sent"
             /\ task' = [task EXCEPT ![c] = [task[c] EXCEPT ![t] = "done"]]
             /\ answer' = [answer EXCEPT ![c] = [answer[c] EXCEPT ![t] = res]]
    <3> HIDE DEF c, t
    <3>1. DOMAIN task' = Clients /\ DOMAIN answer' = Clients
      BY <2>3, TaskTyping
    <3>2. ASSUME NEW x \in Clients, x # c
          PROVE  task'[x] = task[x] /\ answer'[x] = answer[x]
      BY <2>3, <3>2, TaskTyping
    <3>3. /\ task'[c] = [task[c] EXCEPT ![t] = "done"]
          /\ answer'[c] = [answer[c] EXCEPT ![t] = res]
      BY <2>1, <2>3, TaskTyping
    <3>4. /\ task'[c] \in [Tasks(c) -> {"none", "created", "sent", "done"}]
          /\ answer'[c] \in [Tasks(c) -> {NoAnswer, Failed, 0, 1}]
      BY <2>1, <3>3, TaskTyping DEF NoAnswer, Failed
    <3>5. Placed(c)'
      BY <1>1, <2>1, <2>3, <3>3, TaskTyping DEF Placed, Tasks
    <3>6. ASSUME NEW x \in Clients, x # c
          PROVE  /\ task'[x] \in [Tasks(x) -> {"none", "created", "sent", "done"}]
                 /\ answer'[x] \in [Tasks(x) -> {NoAnswer, Failed, 0, 1}]
                 /\ Placed(x)'
      BY <1>1, <3>2, <3>6, TaskTyping DEF Placed, Tasks, NoAnswer, Failed
    <3> QED
      BY <3>1, <3>4, <3>5, <3>6
  <2> QED
    BY <2>2, <2>3, <2>4
<1> QED
  BY <1>1, <1>2, <1>3 DEF TypeInv, TypeOK, Copies, Pending, Tasks

\* What ExecuteSync does to the copy of the server.
LEMMA ExecuteIs ==
  ASSUME TypeInv, NEW m \in Nodes, NEW r \in serving[m], ExecuteSync(m, r)
  PROVE  /\ r \in Pending(m) /\ r \in SyncRequests /\ r.named
         /\ r.client \in Clients /\ r.op \in Ops /\ r.num \in Nat
         /\ <<r.client, r.num>> \in Cells
         /\ \E f \in Copies, res \in {0, 1} :
              /\ f = (IF r.op = "FCLOSE" THEN file[m] ELSE Open(file[m]))
              /\ res = Returned(r.op, f)
              /\ After(r.op, f, <<r.client, r.num>>) \in Copies
              /\ file' = [file EXCEPT ![m] = After(r.op, f, <<r.client, r.num>>)]
              /\ Reply(m, r, res)
         /\ ran' = ran \cup {<<m, r.client, r.num>>}
         /\ clean' = clean
<1>1. /\ r \in Pending(m) /\ r \in SyncRequests
      /\ r.client \in Clients /\ r.op \in Ops /\ r.num \in Nat
  BY QueueTyping DEF Pending
<1>2. <<r.client, r.num>> \in Cells
  BY <1>1 DEF Cells
<1> DEFINE f == IF r.op = "FCLOSE" THEN file[m] ELSE Open(file[m])
<1>3. f \in Copies
  <2>1. file[m] \in Copies
    BY CopyTyping
  <2>2. Open(file[m]) \in Copies
    BY <1>1, <1>2, <2>1, CopyType
  <2> QED
    BY <2>1, <2>2
<1>4. After(r.op, f, <<r.client, r.num>>) \in Copies /\ Returned(r.op, f) \in {0, 1}
  BY <1>1, <1>2, <1>3, CopyType
<1>5. /\ r.named /\ file' = [file EXCEPT ![m] = After(r.op, f, <<r.client, r.num>>)]
      /\ ran' = ran \cup {<<m, r.client, r.num>>} /\ Reply(m, r, Returned(r.op, f))
      /\ clean' = clean
  BY DEF ExecuteSync, Set
<1> QED
  BY <1>1, <1>2, <1>3, <1>4, <1>5

LEMMA PeerType ==
  ASSUME TypeInv, NEW m \in Nodes, Peer(m)
  PROVE  TypeInv'
<1>1. CASE AcceptSync(m)
  <2>1. /\ backlog' \in [Nodes -> Seq(SyncRequests)]
        /\ serving' \in [Nodes -> SUBSET SyncRequests]
        /\ \A q \in Nodes : Pending(q)' = Pending(q)
        /\ UNCHANGED <<file, pc, op, num, result, named, next, task, answer,
                       outcome, asked, ran, clean>>
    BY <1>1, AcceptIs
  <2>2. \A q \in Nodes : \A x \in Pending(q)' :
          x.task \in Tasks(x.client) /\ x.num <= num[x.client]
    BY <2>1, QueueTyping
  <2> QED
    BY <2>1, <2>2 DEF TypeInv, TypeOK, Pending, Tasks, Placed
<1>2. ASSUME NEW r \in serving[m], ExecuteSync(m, r)
      PROVE  TypeInv'
  <2>1. PICK f \in Copies, res \in {0, 1} :
          /\ After(r.op, f, <<r.client, r.num>>) \in Copies
          /\ file' = [file EXCEPT ![m] = After(r.op, f, <<r.client, r.num>>)]
          /\ Reply(m, r, res)
    BY <1>2, ExecuteIs
  <2>2. file' \in [Nodes -> Copies]
    BY <2>1, CopyTyping
  <2>3. ran' \subseteq Nodes \X Clients \X Nat /\ clean' \in BOOLEAN
    <3>1. /\ r.client \in Clients /\ r.num \in Nat
          /\ ran' = ran \cup {<<m, r.client, r.num>>} /\ clean' = clean
      BY <1>2, ExecuteIs, Zenon
    <3> QED
      BY <3>1, HistoryTyping
  <2> QED
    BY <2>1, <2>2, <2>3, ReplyType
<1>3. ASSUME NEW r \in serving[m], RejectSync(m, r)
      PROVE  TypeInv'
  <2>1. Reply(m, r, -1) /\ file' = file /\ ran' = ran /\ clean' = FALSE
    BY <1>3 DEF RejectSync, Failed
  <2> QED
    BY <2>1, ReplyType, CopyTyping, HistoryTyping
<1> QED
  BY <1>1, <1>2, <1>3 DEF Peer

LEMMA StepType ==
  ASSUME TypeInv, [Next]_vars
  PROVE  TypeInv'
<1>1. ASSUME NEW c \in Clients,
             RunLocal(c) \/ Session(c) \/ \E t \in Tasks(c) : Async(c, t)
      PROVE  TypeInv'
  BY <1>1, RunLocalType, SessionType, AsyncType
<1>2. ASSUME NEW m \in Nodes, Peer(m)
      PROVE  TypeInv'
  BY <1>2, PeerType
<1>3. CASE UNCHANGED vars
  BY <1>3 DEF vars, servers, request, tasks, history, TypeInv, TypeOK, Placed, Tasks
<1> QED
  BY <1>1, <1>2, <1>3 DEF Next

\* The variables keep their types, whatever is asked of the servers, lost or
\* late: every request, also one that outlived its command, leads back to a
\* task there is.
THEOREM TypeCorrect == Spec => []TypeOK
<1>1. TypeInv /\ [Next]_vars => TypeInv'
  BY StepType
<1>2. TypeInv => TypeOK
  BY DEF TypeInv
<1> QED
  BY <1>1, <1>2, InitType, PTL DEF Spec

-----------------------------------------------------------------------------
(* What a step adds to the queues and to what servers have executed.       *)

LEMMA QueueStep ==
  ASSUME TypeInv, [Next]_vars, NEW m \in Nodes
  PROVE  \/ serving'[m] \subseteq serving[m] /\ backlog'[m] = backlog[m]
         \/ /\ backlog[m] # <<>> /\ Cardinality(serving[m]) < Spare
            /\ serving'[m] = serving[m] \cup {Head(backlog[m])}
            /\ backlog'[m] = Tail(backlog[m])
         \/ /\ serving'[m] = serving[m]
            /\ \E c \in Clients, r \in SyncRequests :
                 /\ r.client = c /\ r.num = num[c] /\ num' = num /\ ran' = ran
                 /\ m # Home[c]
                 /\ backlog'[m] = Append(backlog[m], r)
<1> DEFINE Goal ==
         \/ serving'[m] \subseteq serving[m] /\ backlog'[m] = backlog[m]
         \/ /\ backlog[m] # <<>> /\ Cardinality(serving[m]) < Spare
            /\ serving'[m] = serving[m] \cup {Head(backlog[m])}
            /\ backlog'[m] = Tail(backlog[m])
         \/ /\ serving'[m] = serving[m]
            /\ \E c \in Clients, r \in SyncRequests :
                 /\ r.client = c /\ r.num = num[c] /\ num' = num /\ ran' = ran
                 /\ m # Home[c]
                 /\ backlog'[m] = Append(backlog[m], r)
<1>1. CASE UNCHANGED <<serving, backlog>>
  BY <1>1
<1>2. ASSUME NEW c \in Clients, NEW t \in Tasks(c), Connect(c, t)
      PROVE  Goal
  <2>1. PICK p \in Nodes :
        /\ p # Home[c] /\ Request(c, t) \in SyncRequests
        /\ backlog' = [backlog EXCEPT ![p] = Append(backlog[p], Request(c, t))]
        /\ UNCHANGED <<serving, num, ran>>
    BY <1>2, ConnectIs
  <2>2. DOMAIN backlog = Nodes
    BY QueueTyping
  <2>3. CASE m = p
    <3>1. Request(c, t).client = c /\ Request(c, t).num = num[c]
      BY DEF Request
    <3>2. backlog'[m] = Append(backlog[m], Request(c, t)) /\ serving'[m] = serving[m]
      BY <2>1, <2>2, <2>3
    <3> QED
      BY <2>1, <2>3, <3>1, <3>2
  <2>4. CASE m # p
    BY <2>1, <2>2, <2>4
  <2> QED
    BY <2>3, <2>4
<1>3. ASSUME NEW q \in Nodes, AcceptSync(q)
      PROVE  Goal
  <2>1. DOMAIN backlog = Nodes /\ DOMAIN serving = Nodes
    BY QueueTyping
  <2> QED
    BY <1>3, <2>1, AcceptIs
<1>4. ASSUME NEW q \in Nodes, NEW r \in serving[q],
             ExecuteSync(q, r) \/ RejectSync(q, r)
      PROVE  Goal
  <2>1. /\ serving' = [serving EXCEPT ![q] = serving[q] \ {r}]
        /\ backlog' = backlog /\ DOMAIN serving = Nodes
    BY <1>4, QueueTyping DEF ExecuteSync, RejectSync, Reply
  <2> QED
    BY <2>1
<1>5. ASSUME NEW c \in Clients, RunLocal(c) \/ Session(c)
      PROVE  UNCHANGED <<serving, backlog>>
  BY <1>5 DEF RunLocal, Session, SyncRequestBuilder, SpawnTask, GatherAnswers,
     CloseLocal, Respond, servers
<1>6. ASSUME NEW c \in Clients, NEW t \in Tasks(c), ConnectFails(c, t) \/ Timeout(c, t)
      PROVE  UNCHANGED <<serving, backlog>>
  BY <1>6 DEF ConnectFails, Timeout, servers
<1>7. UNCHANGED vars => UNCHANGED <<serving, backlog>>
  BY DEF vars, servers
<1> HIDE DEF Goal
<1>8. Goal
  BY <1>1, <1>2, <1>3, <1>4, <1>5, <1>6, <1>7 DEF Next, Async, Peer, Goal
<1> QED
  BY <1>8 DEF Goal

LEMMA PendingStep ==
  ASSUME TypeInv, [Next]_vars, NEW m \in Nodes, NEW r \in Pending(m)'
  PROVE  \/ r \in Pending(m)
         \/ /\ r.client \in Clients /\ r.num = num[r.client]
            /\ num' = num /\ ran' = ran /\ m # Home[r.client]
<1>1. backlog[m] \in Seq(SyncRequests)
  BY QueueTyping
<1>2. CASE serving'[m] \subseteq serving[m] /\ backlog'[m] = backlog[m]
  BY <1>2 DEF Pending
<1>3. CASE /\ backlog[m] # <<>>
           /\ serving'[m] = serving[m] \cup {Head(backlog[m])}
           /\ backlog'[m] = Tail(backlog[m])
  BY <1>1, <1>3, ToSetTail DEF Pending
<1>4. CASE /\ serving'[m] = serving[m]
           /\ \E c \in Clients, x \in SyncRequests :
                /\ x.client = c /\ x.num = num[c] /\ num' = num /\ ran' = ran
                /\ m # Home[c]
                /\ backlog'[m] = Append(backlog[m], x)
  <2>1. PICK c \in Clients, x \in SyncRequests :
                /\ x.client = c /\ x.num = num[c] /\ num' = num /\ ran' = ran
                /\ m # Home[c]
                /\ backlog'[m] = Append(backlog[m], x)
    BY <1>4
  <2>2. ToSet(backlog'[m]) = ToSet(backlog[m]) \cup {x}
    BY <1>1, <2>1, ToSetAppend
  <2> QED
    BY <1>4, <2>1, <2>2 DEF Pending
<1> QED
  BY <1>2, <1>3, <1>4, QueueStep

LEMMA RanStep ==
  ASSUME TypeInv, [Next]_vars
  PROVE  /\ ran \subseteq ran'
         /\ \A c \in Clients : num[c] \in Nat /\ num'[c] \in Nat /\ num[c] <= num'[c]
         /\ \A x \in ran' :
              \/ x \in ran
              \/ \E c \in Clients : x = <<Home[c], c, num'[c]>>
              \/ \E m \in Nodes : \E r \in serving[m] : x = <<m, r.client, r.num>>
<1> DEFINE Goal ==
         /\ ran \subseteq ran'
         /\ \A c \in Clients : num[c] \in Nat /\ num'[c] \in Nat /\ num[c] <= num'[c]
         /\ \A x \in ran' :
              \/ x \in ran
              \/ \E c \in Clients : x = <<Home[c], c, num'[c]>>
              \/ \E m \in Nodes : \E r \in serving[m] : x = <<m, r.client, r.num>>
<1>0. num \in [Clients -> Nat]
  BY SessionTyping
<1>1. ran' = ran /\ num' = num => Goal
  BY <1>0
<1>2. ASSUME NEW c \in Clients, RunLocal(c)
      PROVE  Goal
  <2>1. PICK o \in Ops : RunsLocal(c, o)
    BY <1>2, RunLocalIs
  <2>2. /\ num' = [num EXCEPT ![c] = num[c] + 1]
        /\ ran' = ran \/ ran' = ran \cup {<<Home[c], c, num[c] + 1>>}
    BY <2>1 DEF RunsLocal
  <2>3. num'[c] = num[c] + 1
    BY <1>0, <2>2
  <2>4. \A x \in Clients : num[x] \in Nat /\ num'[x] \in Nat /\ num[x] <= num'[x]
    BY <1>0, <2>2
  <2> QED
    BY <2>2, <2>3, <2>4
<1>3. ASSUME NEW c \in Clients, CloseLocal(c)
      PROVE  Goal
  BY <1>0, <1>3 DEF CloseLocal
<1>4. ASSUME NEW m \in Nodes, NEW r \in serving[m], ExecuteSync(m, r)
      PROVE  Goal
  BY <1>0, <1>4 DEF ExecuteSync, Reply, request
<1>5. ASSUME NEW c \in Clients,
             SyncRequestBuilder(c) \/ SpawnTask(c) \/ GatherAnswers(c) \/ Respond(c)
      PROVE  ran' = ran /\ num' = num
  BY <1>5 DEF SyncRequestBuilder, SpawnTask, GatherAnswers, Respond, request, history
<1>6. ASSUME NEW c \in Clients, NEW t \in Tasks(c), Async(c, t)
      PROVE  ran' = ran /\ num' = num
  BY <1>6 DEF Async, Connect, ConnectFails, Timeout, request
<1>7. ASSUME NEW m \in Nodes, NEW r \in serving[m], RejectSync(m, r)
      PROVE  ran' = ran /\ num' = num
  BY <1>7 DEF RejectSync, Reply, request
<1>8. ASSUME NEW m \in Nodes, AcceptSync(m)
      PROVE  ran' = ran /\ num' = num
  BY <1>8 DEF AcceptSync, request, history
<1>9. UNCHANGED vars => ran' = ran /\ num' = num
  BY DEF vars, request, history
<1> HIDE DEF Goal
<1>10. Goal
  BY <1>1, <1>2, <1>3, <1>4, <1>5, <1>6, <1>7, <1>8, <1>9
     DEF Next, Session, Peer
<1> QED
  BY <1>10 DEF Goal

-----------------------------------------------------------------------------
(* The order of the commands.                                              *)

\* Nothing runs under a number a client has not reached, and a server gets
\* requests of other servers' clients only.
Numbered ==
  /\ \A x \in ran : x[3] <= num[x[2]]
  /\ \A m \in Nodes : \A r \in Pending(m) : m # Home[r.client]

NumberedInv == TypeInv /\ Numbered

LEMMA NumberedInit == Init => NumberedInv
<1> SUFFICES ASSUME Init
             PROVE  Numbered
  BY InitType DEF NumberedInv
<1>1. \A m \in Nodes : Pending(m) = {}
  BY ToSetEmpty DEF Init, Pending
<1> QED
  BY <1>1 DEF Init, Numbered

LEMMA NumberedStep ==
  ASSUME NumberedInv, [Next]_vars
  PROVE  NumberedInv'
<1>1. TypeInv /\ Numbered
  BY DEF NumberedInv
<1>2. TypeInv' /\ ran' \subseteq Nodes \X Clients \X Nat
  <2>1. TypeInv'
    BY <1>1, StepType
  <2> QED
    BY <2>1 DEF TypeInv, TypeOK
<1>3. ASSUME NEW x \in ran'
      PROVE  x[3] <= num'[x[2]]
  <2>1. CASE x \in ran
    <3>1. x[2] \in Clients /\ x[3] \in Nat
      BY <1>1, <2>1, HistoryTyping
    <3>2. x[3] <= num[x[2]]
      BY <1>1, <2>1 DEF Numbered
    <3>3. num[x[2]] \in Nat /\ num'[x[2]] \in Nat /\ num[x[2]] <= num'[x[2]]
      BY <1>1, <3>1, RanStep
    <3> QED
      BY <3>1, <3>2, <3>3
  <2>2. ASSUME NEW c \in Clients, x = <<Home[c], c, num'[c]>>
        PROVE  x[3] <= num'[x[2]]
    <3>1. num'[c] \in Nat
      BY <1>1, RanStep
    <3> QED
      BY <2>2, <3>1
  <2>3. ASSUME NEW m \in Nodes, NEW r \in serving[m], x = <<m, r.client, r.num>>
        PROVE  x[3] <= num'[x[2]]
    <3>1. r.client \in Clients /\ r.num \in Nat /\ r.num <= num[r.client]
      BY <1>1, QueueTyping DEF Pending
    <3>2. num[r.client] \in Nat /\ num'[r.client] \in Nat /\ num[r.client] <= num'[r.client]
      BY <1>1, <3>1, RanStep
    <3> QED
      BY <2>3, <3>1, <3>2
  <2> QED
    BY <1>1, <2>1, <2>2, <2>3, RanStep
<1>4. ASSUME NEW m \in Nodes, NEW r \in Pending(m)'
      PROVE  m # Home[r.client]
  BY <1>1, <1>4, PendingStep DEF Numbered
<1>5. \A m \in Nodes : \A r \in Pending(m)' : (m # Home[r.client])'
  BY <1>4
<1> QED
  BY <1>1, <1>3, <1>5, StepType DEF NumberedInv, Numbered

\* What a server still has to execute is not older than what it executed,
\* and waits in the order it was sent.
InOrder(m) ==
  /\ serving[m] = {} \/ \E r \in serving[m] : serving[m] = {r}
  /\ \A r \in Pending(m) :
       \A x \in ran : x[1] = m /\ x[2] = r.client => x[3] <= r.num
  /\ \A r \in serving[m] : \A s \in ToSet(backlog[m]) :
       r.client = s.client => r.num <= s.num
  /\ \A i, j \in DOMAIN backlog[m] :
       i < j /\ backlog[m][i].client = backlog[m][j].client =>
         backlog[m][i].num <= backlog[m][j].num

OrderInv == NumberedInv /\ (Spare <= 1 => \A m \in Nodes : InOrder(m))

LEMMA OrderInit == Init => OrderInv
<1> SUFFICES ASSUME Init, NEW m \in Nodes
             PROVE  InOrder(m)
  BY NumberedInit DEF OrderInv
<1>1. Pending(m) = {} /\ serving[m] = {} /\ backlog[m] = <<>>
  BY ToSetEmpty DEF Init, Pending
<1> QED
  BY <1>1 DEF InOrder

\* The same fact as of the queue: sent later, not older.
LEMMA AppendInOrder ==
  ASSUME NEW s \in Seq(SyncRequests), NEW r \in SyncRequests,
         \A x \in ToSet(s) : x.client = r.client => x.num <= r.num,
         \A i, j \in DOMAIN s :
           i < j /\ s[i].client = s[j].client => s[i].num <= s[j].num
  PROVE  LET q == Append(s, r)
         IN \A i, j \in DOMAIN q :
              i < j /\ q[i].client = q[j].client => q[i].num <= q[j].num
<1> DEFINE q == Append(s, r)
<1>1. /\ Len(s) \in Nat /\ DOMAIN s = 1 .. Len(s) /\ DOMAIN q = 1 .. Len(s) + 1
      /\ q[Len(s) + 1] = r /\ \A k \in 1 .. Len(s) : q[k] = s[k]
  BY AppendProperties, LenProperties
<1> SUFFICES ASSUME NEW i \in DOMAIN q, NEW j \in DOMAIN q, i < j,
                    q[i].client = q[j].client
             PROVE  q[i].num <= q[j].num
  OBVIOUS
<1> HIDE DEF q
<1>2. i \in 1 .. Len(s) /\ q[i] = s[i] /\ s[i] \in ToSet(s)
  BY <1>1 DEF ToSet
<1>3. CASE j \in 1 .. Len(s)
  BY <1>1, <1>2, <1>3
<1>4. CASE j = Len(s) + 1
  BY <1>1, <1>2, <1>4
<1> QED
  BY <1>1, <1>3, <1>4

LEMMA TailInOrder ==
  ASSUME NEW s \in Seq(SyncRequests), s # <<>>,
         \A i, j \in DOMAIN s :
           i < j /\ s[i].client = s[j].client => s[i].num <= s[j].num
  PROVE  /\ LET q == Tail(s)
            IN \A i, j \in DOMAIN q :
                 i < j /\ q[i].client = q[j].client => q[i].num <= q[j].num
         /\ \A x \in ToSet(Tail(s)) :
              Head(s).client = x.client => Head(s).num <= x.num
<1> DEFINE q == Tail(s)
<1>1. /\ Len(s) \in Nat \ {0} /\ DOMAIN s = 1 .. Len(s) /\ DOMAIN q = 1 .. Len(s) - 1
      /\ Head(s) = s[1] /\ \A k \in 1 .. Len(s) - 1 : q[k] = s[k + 1]
  BY HeadTailProperties, LenProperties, EmptySeq
<1> HIDE DEF q
<1>2. \A i, j \in DOMAIN q :
        i < j /\ q[i].client = q[j].client => q[i].num <= q[j].num
  <2> SUFFICES ASSUME NEW i \in DOMAIN q, NEW j \in DOMAIN q, i < j,
                      q[i].client = q[j].client
               PROVE  q[i].num <= q[j].num
    OBVIOUS
  <2>1. /\ i + 1 \in DOMAIN s /\ j + 1 \in DOMAIN s /\ i + 1 < j + 1
        /\ q[i] = s[i + 1] /\ q[j] = s[j + 1]
    BY <1>1
  <2> QED
    BY <2>1
<1>3. \A x \in ToSet(q) : Head(s).client = x.client => Head(s).num <= x.num
  <2> SUFFICES ASSUME NEW k \in DOMAIN q, Head(s).client = q[k].client
               PROVE  Head(s).num <= q[k].num
    BY DEF ToSet
  <2>1. k + 1 \in DOMAIN s /\ 1 \in DOMAIN s /\ 1 < k + 1 /\ q[k] = s[k + 1]
    BY <1>1
  <2> QED
    BY <1>1, <2>1
<1> QED
  BY <1>2, <1>3 DEF q

LEMMA InOrderStep ==
  ASSUME NumberedInv, [Next]_vars, Spare <= 1, NEW m \in Nodes, InOrder(m)
  PROVE  InOrder(m)'
<1>1. /\ TypeInv /\ Numbered /\ TypeInv' /\ Numbered'
      /\ Spare \in Nat
  BY NumberedStep, ReplicaAssumption DEF NumberedInv
<1>2. backlog[m] \in Seq(SyncRequests) /\ serving[m] \subseteq SyncRequests
  BY <1>1, QueueTyping
<1>3. \A r \in Pending(m) :
        /\ r \in SyncRequests /\ r.client \in Clients /\ r.num \in Nat
        /\ r.num <= num[r.client] /\ m # Home[r.client]
  BY <1>1, QueueTyping DEF Numbered
<1>4. ASSUME NEW r \in Pending(m)', NEW x \in ran', x[1] = m, x[2] = r.client
      PROVE  x[3] <= r.num
  <2>1. CASE r \notin Pending(m)
    <3>1. r.num = num[r.client] /\ num' = num
      BY <1>1, <2>1, PendingStep
    <3> QED
      BY <1>1, <1>4, <3>1 DEF Numbered
  <2>2. CASE r \in Pending(m) /\ x \in ran
    BY <1>4, <2>2 DEF InOrder
  <2>3. ASSUME r \in Pending(m), NEW c \in Clients, x = <<Home[c], c, num'[c]>>
        PROVE  FALSE
    BY <1>3, <1>4, <2>3
  <2>4. ASSUME r \in Pending(m),
               NEW q \in Nodes, NEW s \in serving[q], x = <<q, s.client, s.num>>
        PROVE  x[3] <= r.num
    <3>1. q = m /\ s.client = r.client /\ x[3] = s.num
      BY <1>4, <2>4
    <3>2. s \in serving[m] /\ s.num \in Nat
      BY <1>3, <3>1 DEF Pending
    <3>3. CASE r \in serving[m]
      <4>1. r = s
        BY <3>2, <3>3 DEF InOrder
      <4> QED
        BY <3>1, <3>2, <4>1
    <3>4. CASE r \in ToSet(backlog[m])
      BY <3>1, <3>2, <3>4 DEF InOrder
    <3> QED
      BY <2>4, <3>3, <3>4 DEF Pending
  <2> QED
    BY <1>1, <2>1, <2>2, <2>3, <2>4, RanStep
<1>5. /\ serving'[m] = {} \/ \E r \in serving'[m] : serving'[m] = {r}
      /\ \A r \in serving'[m] : \A s \in ToSet(backlog'[m]) :
           r.client = s.client => r.num <= s.num
      /\ \A i, j \in DOMAIN backlog'[m] :
           i < j /\ backlog'[m][i].client = backlog'[m][j].client =>
             backlog'[m][i].num <= backlog'[m][j].num
  <2>1. CASE serving'[m] \subseteq serving[m] /\ backlog'[m] = backlog[m]
    BY <2>1 DEF InOrder
  <2>2. CASE /\ backlog[m] # <<>> /\ Cardinality(serving[m]) < Spare
             /\ serving'[m] = serving[m] \cup {Head(backlog[m])}
             /\ backlog'[m] = Tail(backlog[m])
    <3>1. serving[m] = {}
      <4>1. ASSUME NEW r, serving[m] = {r}
            PROVE  FALSE
        <5>1. Cardinality({r}) = 1
          BY FS_Singleton
        <5> QED
          BY <1>1, <2>2, <4>1, <5>1
      <4> QED
        BY <4>1 DEF InOrder
    <3>2. serving'[m] = {Head(backlog[m])}
      BY <2>2, <3>1
    <3> QED
      BY <1>2, <2>2, <3>2, TailInOrder DEF InOrder
  <2>3. CASE /\ serving'[m] = serving[m]
             /\ \E c \in Clients, r \in SyncRequests :
                  /\ r.client = c /\ r.num = num[c] /\ num' = num /\ ran' = ran
                  /\ m # Home[c]
                  /\ backlog'[m] = Append(backlog[m], r)
    <3>1. PICK c \in Clients, r \in SyncRequests :
            r.client = c /\ r.num = num[c] /\ backlog'[m] = Append(backlog[m], r)
      BY <2>3
    <3>2. ToSet(backlog'[m]) = ToSet(backlog[m]) \cup {r}
      BY <1>2, <3>1, ToSetAppend
    <3>3. \A x \in Pending(m) : x.client = r.client => x.num <= r.num
      BY <1>3, <3>1
    <3>4. \A i, j \in DOMAIN backlog'[m] :
            i < j /\ backlog'[m][i].client = backlog'[m][j].client =>
              backlog'[m][i].num <= backlog'[m][j].num
      BY <1>2, <3>1, <3>3, AppendInOrder DEF InOrder, Pending
    <3> QED
      BY <2>3, <3>2, <3>3, <3>4 DEF InOrder, Pending
  <2> QED
    BY <1>1, <2>1, <2>2, <2>3, QueueStep
<1>6. \A r \in Pending(m)' :
        \A x \in ran' : x[1] = m /\ x[2] = r.client => x[3] <= r.num
  BY <1>4
<1> QED
  BY <1>5, <1>6 DEF InOrder

LEMMA OrderStep ==
  ASSUME OrderInv, [Next]_vars
  PROVE  OrderInv'
BY NumberedStep, InOrderStep DEF OrderInv

\* Requests that outlive their command do not overtake: where one worker at
\* most is to spare, no server executes a command of a client after a later
\* one, however late the tasks connect and whatever times out.
THEOREM CommandsKeepOrder == Spec => OrderKept
<1>1. ASSUME OrderInv, [Next]_vars, Spare <= 1,
             NEW x \in ran' \ ran, NEW y \in ran, x[1] = y[1], x[2] = y[2]
      PROVE  y[3] <= x[3]
  <2>1. TypeInv /\ Numbered /\ y[2] \in Clients /\ y[3] \in Nat
    BY <1>1, HistoryTyping DEF OrderInv, NumberedInv
  <2>2. ASSUME NEW c \in Clients, x = <<Home[c], c, num'[c]>>
        PROVE  y[3] <= x[3]
    <3>1. y[3] <= num[c] /\ x[3] = num'[c]
      BY <1>1, <2>1, <2>2 DEF Numbered
    <3>2. num[c] \in Nat /\ num'[c] \in Nat /\ num[c] <= num'[c]
      BY <1>1, <2>1, RanStep
    <3> QED
      BY <2>1, <3>1, <3>2
  <2>3. ASSUME NEW m \in Nodes, NEW r \in serving[m], x = <<m, r.client, r.num>>
        PROVE  y[3] <= x[3]
    BY <1>1, <2>3 DEF OrderInv, InOrder, Pending
  <2> QED
    BY <1>1, <2>1, <2>2, <2>3, RanStep
<1>2. OrderInv /\ [Next]_vars =>
        [Spare <= 1 =>
           \A x \in ran' \ ran : \A y \in ran :
             x[1] = y[1] /\ x[2] = y[2] => y[3] <= x[3]]_vars
  BY <1>1
<1>3. OrderInv /\ [Next]_vars => OrderInv'
  BY OrderStep
<1> QED
  BY <1>2, <1>3, OrderInit, PTL DEF Spec, OrderKept

-----------------------------------------------------------------------------
(* The majority vote.                                                      *)

\* A server has executed the current command of a client, or its last one.
HasRun(m, c) == <<m, c, num[c]>> \in ran

\* So has a server other than the client's own.
Confirmed(c) == \E m \in Nodes : m # Home[c] /\ HasRun(m, c)

Voted(c) ==
  /\ \A t \in Tasks(c) : answer[c][t] = 1 => Confirmed(c)
  /\ pc[c] = "close" => op[c] = "FCLOSE"
  /\ op[c] = "FREAD" /\ pc[c] # "idle" =>
       outcome[c] = "none" /\ (result[c] >= 0 => HasRun(Home[c], c))
  /\ op[c] = "FREAD" /\ outcome[c] = "OK" => HasRun(Home[c], c) /\ Confirmed(c)

ReadInv == NumberedInv /\ \A c \in Clients : Voted(c)

LEMMA ReadInit == Init => ReadInv
<1> SUFFICES ASSUME Init, NEW c \in Clients
             PROVE  Voted(c)
  BY NumberedInit DEF ReadInv
<1> QED
  BY DEF Init, Voted, NoAnswer

\* Steps of others, and most of the client's own, add no vote.
LEMMA VotedFrame ==
  ASSUME NEW c \in Clients, Voted(c), ran \subseteq ran', UNCHANGED <<num[c], op[c], outcome[c]>>,
         pc'[c] = "idle" <=> pc[c] = "idle",
         pc'[c] = "close" => pc[c] = "close" \/ op[c] = "FCLOSE",
         result'[c] = result[c] \/ op[c] = "FCLOSE",
         \A t \in Tasks(c) : answer'[c][t] = 1 => answer[c][t] = 1 \/ Confirmed(c)'
  PROVE  Voted(c)'
<1>1. \A m \in Nodes : HasRun(m, c) => HasRun(m, c)'
  BY DEF HasRun
<1>2. HasRun(Home[c], c) => HasRun(Home[c], c)'
  BY DEF HasRun
<1>3. Confirmed(c) => Confirmed(c)'
  BY <1>1 DEF Confirmed
<1> QED
  BY <1>2, <1>3 DEF Voted, Tasks

LEMMA VoteNeeded ==
  ASSUME TypeInv, NEW c \in Clients, MajorityVote(c), result[c] >= 0
  PROVE  \E t \in Tasks(c) : answer[c][t] = 1
<1>1. /\ Tasks(c) = 1 .. Len(Peers[Home[c]]) /\ Len(Peers[Home[c]]) \in Nat \ {0}
      /\ \A t \in Tasks(c) : answer[c][t] \in {-2, -1, 0, 1}
  BY TaskTyping
<1>2. Cardinality(Tasks(c)) \in Nat \ {0}
  <2>1. Cardinality(1 .. Len(Peers[Home[c]])) =
          IF 1 > Len(Peers[Home[c]]) THEN 0 ELSE Len(Peers[Home[c]]) - 1 + 1
    BY <1>1, FS_Interval
  <2> QED
    BY <1>1, <2>1
<1>3. Votes(c) # {}
  <2> SUFFICES ASSUME Votes(c) = {}
               PROVE  FALSE
    OBVIOUS
  <2>1. Cardinality(Votes(c)) = 0
    BY FS_EmptySet
  <2> DEFINE total == Cardinality(Tasks(c)) + 1
  <2>2. 1 = total \/ 1 > total \div 2
    BY <2>1 DEF MajorityVote
  <2>3. total \in Nat /\ total >= 2
    BY <1>2
  <2> HIDE DEF total
  <2> QED
    BY <2>2, <2>3
<1> QED
  BY <1>1, <1>3 DEF Votes

LEMMA RespondVoted ==
  ASSUME ReadInv, NEW c \in Clients, Respond(c)
  PROVE  Voted(c)'
<1>1. TypeInv /\ Voted(c)
  BY DEF ReadInv, NumberedInv
<1>2. /\ pc[c] = "respond" /\ pc'[c] = "idle" /\ outcome'[c] = Response(c).status
      /\ \A t \in Tasks(c) : answer'[c][t] = NoAnswer
      /\ UNCHANGED <<op, num, ran>>
  BY <1>1, SessionTyping, TaskTyping DEF Respond, SessionStep, Set, history
<1>3. ASSUME op[c] = "FREAD", Response(c).status = "OK"
      PROVE  HasRun(Home[c], c) /\ Confirmed(c)
  <2>1. result[c] >= 0 /\ MajorityVote(c)
    BY <1>3 DEF Response, Res!fileInUse, Res!syncFail, Res!file, Res!Payload
  <2>2. \E t \in Tasks(c) : answer[c][t] = 1
    BY <1>1, <2>1, VoteNeeded
  <2> QED
    BY <1>1, <1>2, <1>3, <2>1, <2>2 DEF Voted
<1> QED
  BY <1>2, <1>3 DEF Voted, HasRun, Confirmed, NoAnswer, Tasks

LEMMA SessionVoted ==
  ASSUME ReadInv, NEW x \in Clients, RunLocal(x) \/ Session(x), NEW c \in Clients
  PROVE  Voted(c)'
<1>1. TypeInv /\ Voted(c)
  BY DEF ReadInv, NumberedInv
<1>2. /\ pc \in [Clients -> {"idle", "build", "spawn", "gather", "close", "respond"}]
      /\ op \in [Clients -> Ops] /\ num \in [Clients -> Nat]
      /\ result \in [Clients -> {-1, 0, 1}] /\ DOMAIN outcome = Clients
      /\ DOMAIN answer = Clients
  BY <1>1, SessionTyping, TaskTyping
<1>3. CASE RunLocal(x)
  <2>1. PICK o \in Ops : RunsLocal(x, o)
    BY <1>1, <1>3, RunLocalIs
  <2>2. UNCHANGED answer /\ ran \subseteq ran'
    BY <1>3, <2>1 DEF RunLocal, RunsLocal, tasks
  <2>3. CASE c # x
    <3>1. UNCHANGED <<pc[c], op[c], num[c], result[c], outcome[c]>>
      BY <1>2, <2>1, <2>3 DEF RunsLocal
    <3> QED
      BY <1>1, <2>2, <3>1, VotedFrame
  <2>4. CASE c = x
    <3>1. \A t \in Tasks(c) : answer[c][t] = NoAnswer
      BY <1>1, <2>1, <2>4, TaskTyping DEF Placed, RunsLocal
    <3>2. op'[c] = o /\ outcome'[c] = "none" /\ num'[c] = num[c] + 1
      BY <1>2, <2>1, <2>4 DEF RunsLocal
    <3>3. pc'[c] = "close" => o = "FCLOSE"
      BY <1>2, <2>1, <2>4 DEF RunsLocal
    <3>4. ASSUME o = "FREAD", result'[c] >= 0
          PROVE  HasRun(Home[c], c)'
      <4>1. result'[c] = IF file[Home[c]].open THEN Returned(o, file[Home[c]]) ELSE Failed
        BY <1>2, <2>1, <2>4, <3>4 DEF RunsLocal
      <4>2. file[Home[c]].open
        BY <3>4, <4>1 DEF Failed
      <4>3. ran' = ran \cup {<<Home[c], c, num[c] + 1>>}
        BY <2>1, <2>4, <3>4, <4>2 DEF RunsLocal
      <4> QED
        BY <3>2, <4>3 DEF HasRun
    <3> QED
      BY <2>2, <3>1, <3>2, <3>3, <3>4 DEF Voted, NoAnswer, Tasks
  <2> QED
    BY <2>3, <2>4
<1>4. CASE SyncRequestBuilder(x) \/ SpawnTask(x)
  <2>1. /\ UNCHANGED <<op, num, result, outcome, answer, ran>>
        /\ pc[x] \in {"build", "spawn"}
        /\ pc' = [pc EXCEPT ![x] = "spawn"] \/ pc' = [pc EXCEPT ![x] = "gather"]
    BY <1>4 DEF SyncRequestBuilder, SpawnTask, SessionStep, Set, request, tasks, history
  <2>2. /\ pc'[c] = "idle" <=> pc[c] = "idle"
        /\ pc'[c] = "close" => pc[c] = "close"
    BY <1>2, <2>1
  <2> QED
    BY <1>1, <2>1, <2>2, VotedFrame
<1>5. CASE GatherAnswers(x)
  <2>1. /\ UNCHANGED <<op, num, result, outcome, answer, ran>>
        /\ pc[x] = "gather"
        /\ pc' = [pc EXCEPT ![x] = IF op[x] = "FCLOSE" THEN "close" ELSE "respond"]
    BY <1>5 DEF GatherAnswers, SessionStep, Set, request, tasks
  <2>2. /\ pc'[c] = "idle" <=> pc[c] = "idle"
        /\ pc'[c] = "close" => pc[c] = "close" \/ op[c] = "FCLOSE"
    BY <1>2, <2>1
  <2> QED
    BY <1>1, <2>1, <2>2, VotedFrame
<1>6. CASE CloseLocal(x)
  <2>1. /\ UNCHANGED <<op, num, outcome, answer>> /\ ran \subseteq ran'
        /\ pc[x] = "close" /\ pc' = [pc EXCEPT ![x] = "respond"]
        /\ \E res : result' = [result EXCEPT ![x] = res]
    BY <1>6 DEF CloseLocal, SessionStep, Set, tasks
  <2>2. op[x] = "FCLOSE"
    BY <2>1 DEF ReadInv, Voted
  <2>3. /\ pc'[c] = "idle" <=> pc[c] = "idle"
        /\ pc'[c] = "close" => pc[c] = "close"
        /\ result'[c] = result[c] \/ op[c] = "FCLOSE"
    BY <1>2, <2>1, <2>2
  <2> QED
    BY <1>1, <2>1, <2>3, VotedFrame
<1>7. CASE Respond(x)
  <2>1. CASE c # x
    <3>1. /\ UNCHANGED <<op, num, ran>>
          /\ UNCHANGED <<pc[c], result[c], outcome[c], answer[c]>>
      BY <1>2, <1>7, <2>1 DEF Respond, SessionStep, Set, history
    <3> QED
      BY <1>1, <3>1, VotedFrame
  <2> QED
    BY <1>7, <2>1, RespondVoted
<1> QED
  BY <1>3, <1>4, <1>5, <1>6, <1>7 DEF Session

LEMMA AnswerVoted ==
  ASSUME ReadInv, NEW c \in Clients,
         \/ \E x \in Clients : \E t \in Tasks(x) : Async(x, t)
         \/ \E m \in Nodes : Peer(m)
  PROVE  Voted(c)'
<1>1. TypeInv /\ Voted(c) /\ Numbered
  BY DEF ReadInv, NumberedInv
<1>2. DOMAIN answer = Clients /\ \A k \in Clients : DOMAIN answer[k] = Tasks(k)
  BY <1>1, TaskTyping
<1>3. ASSUME NEW x \in Clients, NEW t \in Tasks(x), Async(x, t)
      PROVE  Voted(c)'
  <2>1. /\ UNCHANGED <<pc, op, num, result, outcome, ran>>
        /\ answer' = answer \/ answer' = [answer EXCEPT ![x][t] = Failed]
    BY <1>3 DEF Async, Connect, ConnectFails, Timeout, request
  <2>2. \A k \in Tasks(c) : answer'[c][k] = 1 => answer[c][k] = 1
    BY <1>2, <2>1 DEF Failed
  <2> QED
    BY <1>1, <2>1, <2>2, VotedFrame
<1>4. ASSUME NEW m \in Nodes, AcceptSync(m)
      PROVE  Voted(c)'
  BY <1>1, <1>4, VotedFrame DEF AcceptSync, request, tasks, history
<1>5. ASSUME NEW m \in Nodes, NEW r \in serving[m], ExecuteSync(m, r)
      PROVE  Voted(c)'
  <2>1. /\ UNCHANGED <<pc, op, num, result, outcome>>
        /\ ran' = ran \cup {<<m, r.client, r.num>>}
        /\ r.client \in Clients /\ r.task \in Tasks(r.client) /\ m # Home[r.client]
    BY <1>1, <1>5, QueueTyping DEF ExecuteSync, Reply, request, Numbered, Pending
  <2>2. \/ answer' = answer
        \/ /\ num[r.client] = r.num
           /\ \E res : answer' = [answer EXCEPT ![r.client][r.task] = res]
    BY <1>5 DEF ExecuteSync, Reply
  <2>3. ASSUME NEW k \in Tasks(c), answer'[c][k] = 1, answer[c][k] # 1
        PROVE  Confirmed(c)'
    <3>1. r.client = c /\ num[c] = r.num
      BY <1>2, <2>1, <2>2, <2>3
    <3>2. HasRun(m, c)' /\ m # Home[c]
      BY <2>1, <3>1 DEF HasRun
    <3> QED
      BY <3>2 DEF Confirmed
  <2> QED
    BY <1>1, <2>1, <2>3, VotedFrame
<1>6. ASSUME NEW m \in Nodes, NEW r \in serving[m], RejectSync(m, r)
      PROVE  Voted(c)'
  <2>1. /\ UNCHANGED <<pc, op, num, result, outcome, ran>>
        /\ r.client \in Clients /\ r.task \in Tasks(r.client)
        /\ \/ answer' = answer
           \/ answer' = [answer EXCEPT ![r.client][r.task] = Failed]
    BY <1>1, <1>6, QueueTyping DEF RejectSync, Reply, request, Pending
  <2>2. \A k \in Tasks(c) : answer'[c][k] = 1 => answer[c][k] = 1
    BY <1>2, <2>1 DEF Failed
  <2> QED
    BY <1>1, <2>1, <2>2, VotedFrame
<1> QED
  BY <1>3, <1>4, <1>5, <1>6 DEF Peer

LEMMA ReadStep ==
  ASSUME ReadInv, [Next]_vars
  PROVE  ReadInv'
<1>1. NumberedInv'
  BY NumberedStep DEF ReadInv
<1>2. ASSUME NEW c \in Clients
      PROVE  Voted(c)'
  <2>1. CASE UNCHANGED vars
    BY <2>1 DEF ReadInv, Voted, HasRun, Confirmed, Tasks, vars, request, tasks, history
  <2> QED
    BY <2>1, SessionVoted, AnswerVoted DEF Next
<1> QED
  BY <1>1, <1>2 DEF ReadInv

\* A FREAD answered OK was executed by the server that answers and by one of
\* the others, however many there are, whichever the tasks asked.
ReadConfirmed ==
  \A c \in Clients :
    op[c] = "FREAD" /\ outcome[c] = "OK" => HasRun(Home[c], c) /\ Confirmed(c)

\* The vote of HandleSync takes no error, timeout or empty answer for a
\* server that has read.
THEOREM ReadsAreConfirmed == Spec => []ReadConfirmed
<1>1. ReadInv => ReadConfirmed
  BY DEF ReadInv, Voted, ReadConfirmed
<1>2. ReadInv /\ [Next]_vars => ReadInv'
  BY ReadStep
<1> QED
  BY <1>1, <1>2, ReadInit, PTL DEF Spec

\* Among up to three servers those two are a majority.  Among more, tasks that
\* the loop has overtaken ask one server several times, and count its votes.
THEOREM MajoritiesRead ==
  ASSUME IsFiniteSet(Nodes), Cardinality(Nodes) <= 3
  PROVE  Spec => []MajorityRead
<1>1. ASSUME ReadConfirmed, NEW c \in Clients, op[c] = "FREAD", outcome[c] = "OK"
      PROVE  2 * Cardinality({m \in Nodes : <<m, c, num[c]>> \in ran}) > Cardinality(Nodes)
  <2> DEFINE S == {m \in Nodes : <<m, c, num[c]>> \in ran}
  <2>1. PICK q \in Nodes : q # Home[c] /\ HasRun(q, c)
    BY <1>1 DEF ReadConfirmed, Confirmed
  <2>2. Home[c] \in Nodes /\ HasRun(Home[c], c)
    BY <1>1, PeersType DEF ReadConfirmed
  <2>3. {q} \cup {Home[c]} \subseteq S
    BY <2>1, <2>2 DEF HasRun
  <2>4. Cardinality({q} \cup {Home[c]}) = 2
    <3>1. IsFiniteSet({q}) /\ Cardinality({q}) = 1
      BY FS_Singleton
    <3>2. Cardinality({q} \cup {Home[c]}) =
            IF Home[c] \in {q} THEN Cardinality({q}) ELSE Cardinality({q}) + 1
      BY <3>1, FS_AddElement
    <3> QED
      BY <2>1, <3>1, <3>2
  <2>5. IsFiniteSet(S) /\ Cardinality(S) \in Nat /\ Cardinality(Nodes) \in Nat
    BY FS_Subset, FS_CardinalityType
  <2>6. Cardinality({q} \cup {Home[c]}) <= Cardinality(S)
    BY <2>3, <2>5, FS_Subset
  <2> QED
    BY <2>4, <2>5, <2>6
<1>2. ReadConfirmed => MajorityRead
  BY <1>1 DEF MajorityRead
<1> QED
  BY <1>2, ReadsAreConfirmed, PTL

-----------------------------------------------------------------------------
(* The tasks of one command.                                               *)

LEMMA StartedProgress ==
  ASSUME TypeInv, [Next]_vars, NEW c \in Clients, num'[c] = num[c], pc'[c] # "idle"
  PROVE  /\ pc[c] # "idle"
         /\ \A t \in Tasks(c) : task[c][t] \in {"sent", "done"} =>
              task'[c][t] \in {"sent", "done"}
<1> DEFINE Goal == /\ pc[c] # "idle"
                   /\ \A t \in Tasks(c) : task[c][t] \in {"sent", "done"} =>
                        task'[c][t] \in {"sent", "done"}
<1>0. /\ pc \in [Clients -> {"idle", "build", "spawn", "gather", "close", "respond"}]
      /\ num \in [Clients -> Nat] /\ DOMAIN task = Clients
      /\ \A x \in Clients : task[x] \in [Tasks(x) -> {"none", "created", "sent", "done"}]
  BY SessionTyping, TaskTyping
<1>1. UNCHANGED <<pc, task>> => Goal
  BY <1>0
<1>2. ASSUME NEW x \in Clients, RunLocal(x)
      PROVE  Goal
  <2>1. PICK o \in Ops : RunsLocal(x, o)
    BY <1>2, RunLocalIs
  <2>2. x # c
    BY <1>0, <2>1 DEF RunsLocal
  <2>3. pc'[c] = pc[c] /\ task' = task
    BY <1>0, <1>2, <2>1, <2>2 DEF RunsLocal, RunLocal, tasks
  <2> QED
    BY <2>3
<1>3. ASSUME NEW x \in Clients, SyncRequestBuilder(x) \/ GatherAnswers(x) \/ CloseLocal(x)
      PROVE  Goal
  <2>1. task' = task /\ pc[x] # "idle" /\ \E s : pc' = [pc EXCEPT ![x] = s]
    BY <1>3 DEF SyncRequestBuilder, GatherAnswers, CloseLocal, SessionStep, Set, tasks
  <2> QED
    BY <1>0, <2>1
<1>4. ASSUME NEW x \in Clients, SpawnTask(x)
      PROVE  Goal
  <2>1. /\ pc[x] # "idle" /\ \E s : pc' = [pc EXCEPT ![x] = s]
        /\ task' = [task EXCEPT ![x] = [task[x] EXCEPT ![next[x] + 1] = "created"]]
    BY <1>4 DEF SpawnTask, SessionStep, Set
  <2>2. task[c][next[c] + 1] \notin {"sent", "done"} \/ next[c] + 1 \notin Tasks(c)
    BY TaskTyping DEF Placed
  <2> QED
    BY <1>0, <2>1, <2>2
<1>5. ASSUME NEW x \in Clients, Respond(x)
      PROVE  Goal
  <2>1. /\ pc[x] = "respond" /\ pc' = [pc EXCEPT ![x] = "idle"]
        /\ \E s : task' = [task EXCEPT ![x] = s]
    BY <1>5 DEF Respond, SessionStep, Set
  <2> QED
    BY <1>0, <2>1
<1>6. ASSUME NEW x \in Clients, NEW t \in Tasks(x), Async(x, t)
      PROVE  Goal
  <2>1. /\ pc' = pc
        /\ \E s \in {"sent", "done"} :
             task' = [task EXCEPT ![x] = [task[x] EXCEPT ![t] = s]]
    BY <1>6 DEF Async, Connect, ConnectFails, Timeout, TaskStep
  <2> QED
    BY <1>0, <2>1
<1>7. ASSUME NEW m \in Nodes, NEW r \in serving[m],
             ExecuteSync(m, r) \/ RejectSync(m, r)
      PROVE  Goal
  <2>1. /\ pc' = pc
        /\ \/ task' = task
           \/ task' = [task EXCEPT ![r.client] = [task[r.client] EXCEPT ![r.task] = "done"]]
    BY <1>7 DEF ExecuteSync, RejectSync, Reply
  <2> QED
    BY <1>0, <2>1
<1>8. ASSUME NEW m \in Nodes, AcceptSync(m)
      PROVE  UNCHANGED <<pc, task>>
  BY <1>8 DEF AcceptSync, tasks
<1>9. UNCHANGED vars => UNCHANGED <<pc, task>>
  BY DEF vars, tasks
<1> HIDE DEF Goal
<1>10. Goal
  BY <1>1, <1>2, <1>3, <1>4, <1>5, <1>6, <1>7, <1>8, <1>9 DEF Next, Session, Peer
<1> QED
  BY <1>10 DEF Goal

LEMMA OneConnects ==
  ASSUME TypeInv, [Next]_vars
  PROVE  \/ \A m \in Nodes : Pending(m)' \subseteq Pending(m)
         \/ \E c \in Clients : \E t \in Tasks(c) : Connect(c, t)
<1>1. UNCHANGED <<serving, backlog>> => \A m \in Nodes : Pending(m)' \subseteq Pending(m)
  BY DEF Pending
<1>2. ASSUME NEW c \in Clients, RunLocal(c) \/ Session(c)
      PROVE  UNCHANGED <<serving, backlog>>
  BY <1>2 DEF RunLocal, Session, SyncRequestBuilder, SpawnTask, GatherAnswers,
     CloseLocal, Respond, servers
<1>3. ASSUME NEW c \in Clients, NEW t \in Tasks(c), ConnectFails(c, t) \/ Timeout(c, t)
      PROVE  UNCHANGED <<serving, backlog>>
  BY <1>3 DEF ConnectFails, Timeout, servers
<1>4. ASSUME NEW q \in Nodes, AcceptSync(q)
      PROVE  \A m \in Nodes : Pending(m)' \subseteq Pending(m)
  BY <1>4, AcceptIs
<1>5. ASSUME NEW q \in Nodes, NEW r \in serving[q], ExecuteSync(q, r) \/ RejectSync(q, r)
      PROVE  \A m \in Nodes : Pending(m)' \subseteq Pending(m)
  <2>1. /\ serving' = [serving EXCEPT ![q] = serving[q] \ {r}]
        /\ backlog' = backlog /\ DOMAIN serving = Nodes
    BY <1>5, QueueTyping DEF ExecuteSync, RejectSync, Reply
  <2>2. \A m \in Nodes : serving'[m] \subseteq serving[m]
    BY <2>1
  <2> QED
    BY <2>1, <2>2 DEF Pending
<1>6. UNCHANGED vars => UNCHANGED <<serving, backlog>>
  BY DEF vars, servers
<1> QED
  BY <1>1, <1>2, <1>3, <1>4, <1>5, <1>6 DEF Next, Async, Peer

\* A task sends one request, to one server.
Posted ==
  /\ \A m \in Nodes : \A r \in Pending(m) :
       r.num = num[r.client] /\ pc[r.client] # "idle" =>
         task[r.client][r.task] \in {"sent", "done"}
  /\ \A m, q \in Nodes : \A r \in Pending(m), s \in Pending(q) :
       r.client = s.client /\ r.num = s.num /\ r.task = s.task => m = q

PostedInv == NumberedInv /\ Posted

LEMMA PostedInit == Init => PostedInv
<1> SUFFICES ASSUME Init
             PROVE  Posted
  BY NumberedInit DEF PostedInv
<1>1. \A m \in Nodes : Pending(m) = {}
  BY ToSetEmpty DEF Init, Pending
<1> QED
  BY <1>1 DEF Posted

LEMMA PostedStep ==
  ASSUME PostedInv, [Next]_vars
  PROVE  PostedInv'
<1>1. TypeInv /\ NumberedInv' /\ Posted
  BY NumberedStep DEF PostedInv, NumberedInv
<1>2. CASE \A m \in Nodes : Pending(m)' \subseteq Pending(m)
  <2>1. ASSUME NEW m \in Nodes, NEW r \in Pending(m)',
               r.num = num'[r.client], pc'[r.client] # "idle"
        PROVE  task'[r.client][r.task] \in {"sent", "done"}
    <3>1. /\ r \in Pending(m) /\ r.client \in Clients /\ r.task \in Tasks(r.client)
          /\ r.num \in Nat /\ r.num <= num[r.client]
      BY <1>1, <1>2, <2>1, QueueTyping
    <3>2. num[r.client] = num'[r.client]
      BY <1>1, <2>1, <3>1, RanStep
    <3> QED
      BY <1>1, <2>1, <3>1, <3>2, StartedProgress DEF Posted
  <2>2. \A m, q \in Nodes : \A r \in Pending(m)', s \in Pending(q)' :
          r.client = s.client /\ r.num = s.num /\ r.task = s.task => m = q
    BY <1>1, <1>2 DEF Posted
  <2>3. \A m \in Nodes : \A r \in Pending(m)' :
          r.num = num'[r.client] /\ pc'[r.client] # "idle" =>
            task'[r.client][r.task] \in {"sent", "done"}
    BY <2>1
  <2> QED
    BY <1>1, <2>2, <2>3 DEF PostedInv, Posted
<1>3. ASSUME NEW c \in Clients, NEW t \in Tasks(c), Connect(c, t)
      PROVE  Posted'
  <2>1. PICK p \in Nodes :
         /\ Pending(p)' = Pending(p) \cup {Request(c, t)}
         /\ \A m \in Nodes : m # p => Pending(m)' = Pending(m)
         /\ task[c][t] = "created" /\ pc[c] \in {"spawn", "gather"}
         /\ task' = [task EXCEPT ![c] = [task[c] EXCEPT ![t] = "sent"]]
         /\ UNCHANGED <<pc, num>>
    BY <1>1, <1>3, ConnectIs
  <2>2. /\ Request(c, t).client = c /\ Request(c, t).task = t
        /\ Request(c, t).num = num[c]
    BY DEF Request
  <2>3. \A m \in Nodes : \A r \in Pending(m)' :
          r \in Pending(m) \/ (m = p /\ r = Request(c, t))
    BY <2>1
  <2>4. \A m \in Nodes : \A r \in Pending(m) :
          ~(r.client = c /\ r.num = num[c] /\ r.task = t)
    BY <1>1, <2>1 DEF Posted
  <2>5. \A m, q \in Nodes : \A r \in Pending(m)', s \in Pending(q)' :
          r.client = s.client /\ r.num = s.num /\ r.task = s.task => m = q
    BY <1>1, <2>2, <2>3, <2>4 DEF Posted
  <2>6. ASSUME NEW m \in Nodes, NEW r \in Pending(m)',
               r.num = num[r.client], pc[r.client] # "idle"
        PROVE  task'[r.client][r.task] \in {"sent", "done"}
    <3>1. \A x \in Clients : task[x] \in [Tasks(x) -> {"none", "created", "sent", "done"}]
      BY <1>1, TaskTyping
    <3>2. DOMAIN task = Clients
      BY <1>1, TaskTyping
    <3>3. CASE r \in Pending(m)
      <4>1. /\ r.client \in Clients /\ r.task \in Tasks(r.client)
            /\ task[r.client][r.task] \in {"sent", "done"}
        BY <1>1, <2>6, <3>3, QueueTyping DEF Posted
      <4> QED
        BY <2>1, <3>1, <3>2, <4>1
    <3>4. CASE r = Request(c, t)
      BY <2>1, <2>2, <3>1, <3>2, <3>4
    <3> QED
      BY <2>3, <3>3, <3>4
  <2>7. \A m \in Nodes : \A r \in Pending(m)' :
          r.num = num'[r.client] /\ pc'[r.client] # "idle" =>
            task'[r.client][r.task] \in {"sent", "done"}
    BY <2>1, <2>6
  <2> QED
    BY <2>5, <2>7 DEF Posted
<1> QED
  BY <1>1, <1>2, <1>3, OneConnects DEF PostedInv

\* The tasks of a command that have called their peer.
Started(c) == {t \in Tasks(c) : task[c][t] \in {"sent", "done"}}

\* A command asks no more peers than it has started tasks; one peer for each
\* task only as long as no task finds another one's peer in the variable.
Asked(c) ==
  /\ asked[c] \subseteq ToSet(Peers[Home[c]])
  /\ IsFiniteSet(asked[c]) /\ Cardinality(asked[c]) <= Cardinality(Started(c))
  /\ pc[c] \notin {"spawn", "gather"} => asked[c] = {}

Distinct(c) == Cardinality(asked[c]) = Cardinality(Started(c))

LEMMA StartedFinite ==
  ASSUME NEW c \in Clients
  PROVE  IsFiniteSet(Started(c)) /\ Cardinality(Started(c)) \in Nat
<1>1. Tasks(c) = 1 .. Len(Peers[Home[c]]) /\ Len(Peers[Home[c]]) \in Nat
  BY PeersType
<1>2. IsFiniteSet(Tasks(c))
  BY <1>1, FS_Interval
<1>3. Started(c) \subseteq Tasks(c)
  BY DEF Started
<1> QED
  BY <1>2, <1>3, FS_Subset, FS_CardinalityType

LEMMA AskedInit ==
  ASSUME Init, NEW c \in Clients
  PROVE  Asked(c)
<1>1. asked[c] = {} /\ pc[c] = "idle"
  BY DEF Init
<1>2. IsFiniteSet({}) /\ Cardinality({}) = 0
  BY FS_EmptySet
<1> QED
  BY <1>1, <1>2, StartedFinite DEF Asked

LEMMA AskedFrame ==
  ASSUME NEW c \in Clients, Asked(c), asked'[c] = asked[c], Started(c)' = Started(c),
         pc'[c] \in {"spawn", "gather"} \/ pc[c] \notin {"spawn", "gather"}
  PROVE  Asked(c)' /\ (Distinct(c)' <=> Distinct(c))
BY DEF Asked, Distinct

\* What a task that starts does to both sets.
LEMMA AskedGrows ==
  ASSUME TypeInv, NEW c \in Clients, NEW t \in Tasks(c), Asked(c),
         task[c][t] = "created", NEW p \in ToSet(Peers[Home[c]]),
         Started(c)' = Started(c) \cup {t}, asked'[c] = asked[c] \cup {p},
         pc'[c] \in {"spawn", "gather"}
  PROVE  /\ Asked(c)'
         /\ Distinct(c)' => Distinct(c) /\ p \notin asked[c]
<1>1. t \notin Started(c)
  BY DEF Started
<1>2. /\ IsFiniteSet(Started(c)) /\ Cardinality(Started(c)) \in Nat
      /\ IsFiniteSet(asked[c]) /\ Cardinality(asked[c]) \in Nat
      /\ Cardinality(asked[c]) <= Cardinality(Started(c))
  BY StartedFinite, FS_CardinalityType DEF Asked
<1>3. Cardinality(Started(c) \cup {t}) = Cardinality(Started(c)) + 1
  BY <1>1, <1>2, FS_AddElement
<1>4. /\ IsFiniteSet(asked[c] \cup {p})
      /\ Cardinality(asked[c] \cup {p}) =
           IF p \in asked[c] THEN Cardinality(asked[c]) ELSE Cardinality(asked[c]) + 1
  BY <1>2, FS_AddElement
<1>5. Cardinality(asked'[c]) <= Cardinality(Started(c)')
  BY <1>2, <1>3, <1>4
<1>6. Distinct(c)' => Distinct(c) /\ p \notin asked[c]
  BY <1>2, <1>3, <1>4 DEF Distinct
<1> QED
  BY <1>4, <1>5, <1>6 DEF Asked

AskedInv == PostedInv /\ \A c \in Clients : Asked(c)

LEMMA SessionAsked ==
  ASSUME AskedInv, NEW x \in Clients, RunLocal(x) \/ Session(x), NEW c \in Clients
  PROVE  /\ Asked(c)'
         /\ RunLocal(x) \/ SyncRequestBuilder(x) \/ SpawnTask(x) =>
              (Distinct(c)' <=> Distinct(c))
<1>1. TypeInv /\ Asked(c)
  BY DEF AskedInv, PostedInv, NumberedInv
<1>2. /\ pc \in [Clients -> {"idle", "build", "spawn", "gather", "close", "respond"}]
      /\ DOMAIN task = Clients /\ asked \in [Clients -> SUBSET Nodes]
      /\ \A y \in Clients :
           /\ task[y] \in [Tasks(y) -> {"none", "created", "sent", "done"}]
           /\ Placed(y)
  BY <1>1, SessionTyping, TaskTyping, HistoryTyping
<1>3. CASE RunLocal(x)
  <2>1. PICK o \in Ops : RunsLocal(x, o)
    BY <1>1, <1>3, RunLocalIs
  <2>2. UNCHANGED <<task, asked>>
    BY <1>3 DEF RunLocal, tasks
  <2>3. pc'[c] \in {"spawn", "gather"} \/ pc[c] \notin {"spawn", "gather"}
    BY <1>2, <2>1 DEF RunsLocal
  <2>4. Started(c)' = Started(c)
    BY <2>2 DEF Started, Tasks
  <2> QED
    BY <1>1, <2>2, <2>3, <2>4, AskedFrame
<1>4. CASE SyncRequestBuilder(x) \/ SpawnTask(x)
  <2>1. /\ asked' = asked /\ pc[x] \in {"build", "spawn"}
        /\ pc' = [pc EXCEPT ![x] = "spawn"] \/ pc' = [pc EXCEPT ![x] = "gather"]
        /\ \/ task' = task
           \/ task' = [task EXCEPT ![x] = [task[x] EXCEPT ![next[x] + 1] = "created"]]
    BY <1>4 DEF SyncRequestBuilder, SpawnTask, SessionStep, Set, tasks, history
  <2>2. task[x][next[x] + 1] \notin {"sent", "done"} \/ next[x] + 1 \notin Tasks(x)
    BY <1>1, TaskTyping DEF Placed
  <2>3. \A t \in Tasks(c) : task'[c][t] \in {"sent", "done"} <=> task[c][t] \in {"sent", "done"}
    BY <1>2, <2>1, <2>2
  <2>4. Started(c)' = Started(c)
    BY <2>3 DEF Started, Tasks
  <2>5. pc'[c] \in {"spawn", "gather"} \/ pc[c] \notin {"spawn", "gather"}
    BY <1>2, <2>1
  <2> QED
    BY <1>1, <2>1, <2>4, <2>5, AskedFrame
<1>5. CASE GatherAnswers(x) \/ CloseLocal(x) \/ Respond(x)
  <2>0. ~(RunLocal(x) \/ SyncRequestBuilder(x) \/ SpawnTask(x))
    <3>1. pc[x] \in {"gather", "close", "respond"}
      BY <1>5 DEF GatherAnswers, CloseLocal, Respond, SessionStep
    <3> QED
      BY <3>1 DEF RunLocal, SyncRequestBuilder, SpawnTask, SessionStep
  <2>1. CASE c # x
    <3>1. pc'[c] = pc[c] /\ asked'[c] = asked[c] /\ task'[c] = task[c]
      BY <1>2, <1>5, <2>1 DEF GatherAnswers, CloseLocal, Respond, SessionStep, Set,
         tasks, history
    <3>2. Started(c)' = Started(c)
      BY <3>1 DEF Started, Tasks
    <3> QED
      BY <1>1, <2>0, <3>1, <3>2, AskedFrame
  <2>2. CASE c = x
    <3>1. asked'[c] = {}
      BY <1>1, <1>2, <1>5, <2>2 DEF GatherAnswers, CloseLocal, Respond, SessionStep,
         Set, history, Asked
    <3>2. IsFiniteSet({}) /\ Cardinality({}) = 0
      BY FS_EmptySet
    <3>3. Cardinality(Started(c)') \in Nat
      <4>1. Tasks(c) = 1 .. Len(Peers[Home[c]]) /\ Len(Peers[Home[c]]) \in Nat
        BY PeersType
      <4>2. IsFiniteSet(Tasks(c))
        BY <4>1, FS_Interval
      <4>3. Started(c)' \subseteq Tasks(c)
        BY DEF Started, Tasks
      <4> QED
        BY <4>2, <4>3, FS_Subset, FS_CardinalityType
    <3> QED
      BY <2>0, <3>1, <3>2, <3>3 DEF Asked
  <2> QED
    BY <2>1, <2>2
<1> QED
  BY <1>3, <1>4, <1>5 DEF Session

LEMMA AsyncAsked ==
  ASSUME AskedInv, NEW x \in Clients, NEW t \in Tasks(x), Async(x, t), NEW c \in Clients
  PROVE  /\ Asked(c)'
         /\ Distinct(c)' => Distinct(c) /\ (x = c /\ Connect(x, t) =>
                                              PeerAddress(x, t) \notin asked[c])
<1>1. TypeInv /\ Asked(c)
  BY DEF AskedInv, PostedInv, NumberedInv
<1>2. /\ DOMAIN task = Clients /\ asked \in [Clients -> SUBSET Nodes]
      /\ \A y \in Clients :
           task[y] \in [Tasks(y) -> {"none", "created", "sent", "done"}]
  BY <1>1, TaskTyping, HistoryTyping
<1>3. CASE x # c
  <2>1. pc'[c] = pc[c] /\ asked'[c] = asked[c] /\ task'[c] = task[c]
    BY <1>2, <1>3 DEF Async, Connect, ConnectFails, Timeout, TaskStep
  <2>2. Started(c)' = Started(c)
    BY <2>1 DEF Started, Tasks
  <2> QED
    BY <1>1, <1>3, <2>1, <2>2, AskedFrame
<1>4. CASE x = c /\ (Connect(x, t) \/ ConnectFails(x, t))
  <2>1. /\ task[c][t] = "created" /\ pc' = pc
        /\ asked' = [asked EXCEPT ![c] = asked[c] \cup {PeerAddress(c, t)}]
        /\ \E s \in {"sent", "done"} : task' = [task EXCEPT ![c] = [task[c] EXCEPT ![t] = s]]
    BY <1>4 DEF Connect, ConnectFails, TaskStep
  <2>2. next[c] \in Tasks(c) /\ pc[c] \in {"spawn", "gather"}
    BY <1>1, <1>4, <2>1, TaskTyping DEF Placed
  <2>3. PICK p \in ToSet(Peers[Home[c]]) : p = PeerAddress(c, t)
    BY <2>2, PeersType DEF PeerAddress
  <2>4. Started(c)' = Started(c) \cup {t}
    <3>1. \A k \in Tasks(c) : task'[c][k] \in {"sent", "done"} <=>
                              task[c][k] \in {"sent", "done"} \/ k = t
      BY <1>2, <1>4, <2>1
    <3> QED
      BY <1>4, <3>1 DEF Started, Tasks
  <2>5. asked'[c] = asked[c] \cup {p}
    BY <1>2, <2>1, <2>3
  <2>6. Asked(c)' /\ (Distinct(c)' => Distinct(c) /\ p \notin asked[c])
    BY <1>1, <1>4, <2>1, <2>2, <2>4, <2>5, AskedGrows
  <2> QED
    BY <1>4, <2>3, <2>6
<1>5. CASE x = c /\ Timeout(x, t)
  <2>1. /\ task[c][t] = "sent" /\ UNCHANGED <<pc, asked>>
        /\ task' = [task EXCEPT ![c] = [task[c] EXCEPT ![t] = "done"]]
    BY <1>5 DEF Timeout, TaskStep
  <2>2. \A k \in Tasks(c) : task'[c][k] \in {"sent", "done"} <=>
                            task[c][k] \in {"sent", "done"}
    BY <1>2, <1>5, <2>1
  <2>3. Started(c)' = Started(c)
    BY <2>2 DEF Started, Tasks
  <2>4. ~Connect(x, t)
    BY <1>5, <2>1 DEF Connect, TaskStep
  <2> QED
    BY <1>1, <2>1, <2>3, <2>4, AskedFrame
<1> QED
  BY <1>3, <1>4, <1>5 DEF Async

LEMMA PeerAsked ==
  ASSUME AskedInv, NEW m \in Nodes, Peer(m), NEW c \in Clients
  PROVE  Asked(c)' /\ (Distinct(c)' <=> Distinct(c))
<1>1. TypeInv /\ Asked(c)
  BY DEF AskedInv, PostedInv, NumberedInv
<1>2. /\ DOMAIN task = Clients
      /\ \A y \in Clients :
           task[y] \in [Tasks(y) -> {"none", "created", "sent", "done"}]
  BY <1>1, TaskTyping
<1>3. /\ UNCHANGED <<pc, asked>>
      /\ \/ task' = task
         \/ \E x, t : /\ task[x][t] = "sent"
                      /\ task' = [task EXCEPT ![x] = [task[x] EXCEPT ![t] = "done"]]
  BY DEF Peer, AcceptSync, ExecuteSync, RejectSync, Reply, tasks, history
<1>4. \A k \in Tasks(c) : task'[c][k] \in {"sent", "done"} <=>
                          task[c][k] \in {"sent", "done"}
  BY <1>2, <1>3
<1>5. Started(c)' = Started(c)
  BY <1>4 DEF Started, Tasks
<1> QED
  BY <1>1, <1>3, <1>5, AskedFrame

LEMMA AskedStep ==
  ASSUME AskedInv, [Next]_vars
  PROVE  AskedInv'
<1>1. PostedInv'
  BY PostedStep DEF AskedInv
<1>2. ASSUME NEW c \in Clients
      PROVE  Asked(c)'
  <2>1. CASE UNCHANGED vars
    BY <2>1 DEF AskedInv, Asked, Started, Tasks, vars, tasks, history
  <2> QED
    BY <2>1, SessionAsked, AsyncAsked, PeerAsked DEF Next
<1> QED
  BY <1>1, <1>2 DEF AskedInv

-----------------------------------------------------------------------------
(* The copies.                                                             *)

\* Every server repeats the commands of every other one's clients: option -p
\* names each of the others once.
FullMesh ==
  \A c \in Clients :
    /\ ToSet(Peers[Home[c]]) = Nodes \ {Home[c]}
    /\ \A i, j \in Tasks(c) : Peers[Home[c]][i] = Peers[Home[c]][j] => i = j

\* Commands see a copy as Open leaves it.
LEMMA OpenIs ==
  ASSUME NEW f \in Copies
  PROVE  /\ Open(f) = [open |-> TRUE, pos |-> IF f.open THEN f.pos ELSE 0, data |-> f.data]
         /\ Open(Open(f)) = Open(f)
BY DEF Copies, Open

\* The copy, as commands see it, after one more command.
Executed(o, f, v) == Open(After(o, Open(f), v))

LEMMA ExecutedIs ==
  ASSUME NEW f \in Copies, NEW o \in Ops, NEW v \in Cells
  PROVE  /\ Open(After(o, IF o = "FCLOSE" THEN f ELSE Open(f), v)) = Executed(o, f, v)
         /\ Executed("FCLOSE", f, v) = [open |-> TRUE, pos |-> 0, data |-> f.data]
         /\ Executed("FCLOSE", f, v) = Open(Close(f))
         /\ Executed("FOPEN", f, v) = Open(f)
<1>1. /\ Close(f).open = FALSE /\ Close(f).data = f.data
      /\ Close(f) \in Copies
  BY CopyType DEF Close, Copies
<1>2. Open(f) \in Copies /\ Open(f).data = f.data
  BY OpenIs, CopyType
<1>3. /\ Close(Open(f)).open = FALSE /\ Close(Open(f)).data = f.data
      /\ Close(Open(f)) \in Copies
  <2> PICK g \in Copies : g = Open(f)
    BY <1>2
  <2>1. Close(g).open = FALSE /\ Close(g).data = g.data /\ Close(g) \in Copies
    BY CopyType DEF Close, Copies
  <2> QED
    BY <1>2, <2>1
<1>4. /\ Open(Close(f)) = [open |-> TRUE, pos |-> 0, data |-> f.data]
      /\ Open(Close(Open(f))) = [open |-> TRUE, pos |-> 0, data |-> f.data]
  BY <1>1, <1>3, OpenIs
<1>5. \A g : After("FCLOSE", g, v) = Close(g)
  BY DEF After
<1>6. Executed("FCLOSE", f, v) = Open(Close(Open(f)))
  BY <1>5 DEF Executed
<1>7. Executed("FOPEN", f, v) = Open(f)
  BY OpenIs DEF Executed, After
<1>8. Open(After(o, IF o = "FCLOSE" THEN f ELSE Open(f), v)) = Executed(o, f, v)
  <2>1. CASE o = "FCLOSE"
    BY <1>4, <1>5, <1>6, <2>1
  <2>2. CASE o # "FCLOSE"
    BY <2>2 DEF Executed
  <2> QED
    BY <2>1, <2>2
<1> QED
  BY <1>4, <1>6, <1>7, <1>8

Agreed == \A m, q \in Nodes : Open(file[m]) = Open(file[q])

Quiet(m) == serving[m] = {} /\ backlog[m] = <<>>

Resting == \A m \in Nodes : Quiet(m)

\* The current command of a client is on its way to a server.
Waiting(m, c) ==
  \E r \in SyncRequests :
    /\ r.client = c /\ r.num = num[c] /\ r.op = op[c] /\ r.task \in Tasks(c)
    /\ task[c][r.task] = "sent"
    /\ \/ serving[m] = {r} /\ backlog[m] = <<>>
       \/ serving[m] = {} /\ backlog[m] = <<r>>

\* The copies differ by that command, where it has run.
Apart(c) ==
  \A m, q \in Nodes :
    /\ (HasRun(m, c) <=> HasRun(q, c)) => Open(file[m]) = Open(file[q])
    /\ HasRun(m, c) /\ ~HasRun(q, c) =>
         Open(file[m]) = Executed(op[c], file[q], <<c, num[c]>>)

\* It has run, or is waiting, on the peers asked; and on the own server,
\* except for a FCLOSE.
Repeated(m, c) ==
  \/ Quiet(m) /\ (HasRun(m, c) <=> m \in asked[c])
  \/ Waiting(m, c) /\ ~HasRun(m, c) /\ m \in asked[c]

Command(c) ==
  /\ Quiet(Home[c]) /\ (op[c] = "FCLOSE" <=> ~HasRun(Home[c], c))
  /\ \A m \in Nodes : m # Home[c] => Repeated(m, c)
  /\ Apart(c)

\* The peers have closed their copies.
Closing(c) ==
  /\ \A m, q \in Nodes : file[m].data = file[q].data
  /\ \A m \in Nodes : m # Home[c] => Open(file[m]).pos = 0

\* One command at a time.
Busy(c) ==
  /\ pc[c] # "idle" /\ \A x \in Clients : x # c => pc[x] = "idle"
  /\ pc[c] \in {"build", "spawn", "gather"} => (Distinct(c) => Command(c))
  /\ pc[c] = "close" => Closing(c) /\ Resting
  /\ pc[c] = "respond" => Agreed /\ Resting

AllIdle == (\A c \in Clients : pc[c] = "idle") /\ Agreed /\ Resting

AgreeInv ==
  AskedInv /\ (clean => AllIdle \/ \E c \in Clients : Busy(c))

LEMMA AgreeTyping ==
  ASSUME AgreeInv
  PROVE  AskedInv /\ PostedInv /\ NumberedInv /\ TypeInv
BY DEF AgreeInv, AskedInv, PostedInv, NumberedInv

LEMMA AgreeInit == Init => AgreeInv
<1> SUFFICES ASSUME Init
             PROVE  AgreeInv
  OBVIOUS
<1>1. AskedInv
  BY PostedInit, AskedInit DEF AskedInv
<1>2. AllIdle
  <2>1. \A m, q \in Nodes : Open(file[m]) = Open(file[q])
    <3> TAKE m \in Nodes
    <3> TAKE q \in Nodes
    <3>1. /\ file[m] \in Copies /\ file[m].data = Content /\ file[m].pos = 0
          /\ file[q] \in Copies /\ file[q].data = Content /\ file[q].pos = 0
      BY ReplicaAssumption DEF Init, Copies
    <3> QED
      BY <3>1, OpenIs
  <2> QED
    BY <2>1 DEF Init, AllIdle, Agreed, Resting, Quiet
<1> QED
  BY <1>1, <1>2 DEF AgreeInv

\* A command begins: it has not run anywhere else.
LEMMA RunLocalAgrees ==
  ASSUME NumberedInv, \A x \in Clients : Asked(x), NEW c \in Clients, RunLocal(c), AllIdle
  PROVE  Busy(c)'
<1>1. PICK o \in Ops : RunsLocal(c, o)
  BY RunLocalIs DEF NumberedInv
<1> DEFINE m == Home[c]  v == <<c, num[c] + 1>>
<1>2. /\ UNCHANGED <<serving, backlog, asked>> /\ asked[c] = {}
      /\ Resting' /\ \A q \in Nodes : Quiet(q)'
  BY <1>1 DEF RunLocal, RunsLocal, tasks, AllIdle, Asked, Resting, Quiet
<1>3. /\ TypeInv /\ m \in Nodes /\ file \in [Nodes -> Copies] /\ v \in Cells
      /\ \A q \in Nodes : file[q] \in Copies
  BY CopyTyping, RequestTyping DEF NumberedInv, Cells
<1>4. /\ pc' = [pc EXCEPT ![c] = pc'[c]] /\ pc'[c] # "idle"
      /\ \A x \in Clients : x # c => pc'[x] = "idle"
      /\ op'[c] = o /\ num'[c] = num[c] + 1
  BY <1>1, <1>3, SessionTyping DEF RunsLocal, AllIdle
<1>5. \A q \in Nodes : <<q, c, num[c] + 1>> \notin ran
  <2>1. \A x \in ran : x[3] <= num[x[2]]
    BY DEF NumberedInv, Numbered
  <2>2. num[c] \in Nat
    BY <1>3, SessionTyping
  <2> QED
    BY <2>1, <2>2
<1>6. CASE o = "FOPEN" \/ file[m].open
  <2>1. CASE o = "FOPEN"
    <3>1. /\ pc'[c] = "respond"
          /\ file' = [file EXCEPT ![m] = After("FOPEN", Open(file[m]), v)]
      BY <1>1, <1>3, <2>1, SessionTyping DEF RunsLocal
    <3>2. After("FOPEN", Open(file[m]), v) = Open(file[m])
      BY DEF After
    <3>3. Open(After("FOPEN", Open(file[m]), v)) = Open(file[m])
      BY <1>3, <3>2, OpenIs
    <3>4. \A q \in Nodes : Open(file'[q]) = Open(file[q])
      BY <1>3, <3>1, <3>3
    <3>5. Agreed'
      BY <3>4 DEF AllIdle, Agreed
    <3> QED
      BY <1>2, <1>4, <3>1, <3>5 DEF Busy
  <2>2. CASE o = "FCLOSE" /\ file[m].open
    <3>1. pc'[c] = "build" /\ file' = file /\ ran' = ran
      BY <1>1, <1>3, <2>2, SessionTyping DEF RunsLocal
    <3>2. \A q \in Nodes : ~HasRun(q, c)'
      BY <1>4, <1>5, <3>1 DEF HasRun
    <3>3. Apart(c)'
      BY <3>1, <3>2 DEF Apart, AllIdle, Agreed
    <3>4. Command(c)'
      BY <1>2, <1>3, <1>4, <2>2, <3>2, <3>3 DEF Command, Repeated
    <3> QED
      BY <1>4, <3>1, <3>4 DEF Busy
  <2>3. CASE o # "FOPEN" /\ o # "FCLOSE" /\ file[m].open
    <3>1. /\ pc'[c] = "build" /\ file' = [file EXCEPT ![m] = After(o, Open(file[m]), v)]
          /\ ran' = ran \cup {<<m, c, num[c] + 1>>}
      BY <1>1, <1>3, <2>3, SessionTyping DEF RunsLocal
    <3>2. \A q \in Nodes : HasRun(q, c)' <=> q = m
      BY <1>4, <1>5, <3>1 DEF HasRun
    <3>3. \A q \in Nodes : q # m => file'[q] = file[q]
      BY <1>3, <3>1
    <3>4. \A q \in Nodes : Open(file'[m]) = Executed(o, file[q], v)
      <4>1. Open(file'[m]) = Executed(o, file[m], v)
        BY <1>3, <3>1 DEF Executed
      <4> QED
        BY <1>3, <4>1 DEF Executed, AllIdle, Agreed
    <3>5. Apart(c)'
      BY <1>4, <3>2, <3>3, <3>4 DEF Apart, AllIdle, Agreed
    <3>6. Command(c)'
      BY <1>2, <1>3, <1>4, <2>3, <3>2, <3>5 DEF Command, Repeated
    <3> QED
      BY <1>4, <3>1, <3>6 DEF Busy
  <2> QED
    BY <1>6, <2>1, <2>2, <2>3
<1>7. CASE ~(o = "FOPEN" \/ file[m].open)
  <2>1. /\ pc'[c] = IF o = "FCLOSE" THEN "close" ELSE "respond"
        /\ file' = file
    BY <1>1, <1>3, <1>7, SessionTyping DEF RunsLocal
  <2>2. Agreed'
    BY <2>1 DEF Agreed, AllIdle
  <2>3. Closing(c)'
    <3>1. Open(file[m]).pos = 0
      BY <1>3, <1>7, OpenIs
    <3>2. \A q \in Nodes : Open(file[q]) = Open(file[m]) /\ Open(file[q]).data = file[q].data
      BY <1>3, OpenIs DEF AllIdle, Agreed
    <3> QED
      BY <2>1, <3>1, <3>2 DEF Closing
  <2> QED
    BY <1>2, <1>4, <2>1, <2>2, <2>3 DEF Busy
<1> QED
  BY <1>6, <1>7

\* A waiting request stays where it is unless its task ends.
LEMMA WaitingFrame ==
  ASSUME NEW c \in Clients, NEW m \in Nodes, Waiting(m, c),
         serving'[m] = serving[m], backlog'[m] = backlog[m],
         num'[c] = num[c], op'[c] = op[c],
         \A r \in Pending(m) : r.client = c /\ r.num = num[c] /\ r.task \in Tasks(c) /\
           task[c][r.task] = "sent" => task'[c][r.task] = "sent"
  PROVE  Waiting(m, c)'
<1>1. PICK r \in SyncRequests :
        /\ r.client = c /\ r.num = num[c] /\ r.op = op[c] /\ r.task \in Tasks(c)
        /\ task[c][r.task] = "sent"
        /\ \/ serving[m] = {r} /\ backlog[m] = <<>>
           \/ serving[m] = {} /\ backlog[m] = <<r>>
  BY DEF Waiting
<1>2. r \in Pending(m)
  <2>1. \A k : ToSet(<<k>>) = {k}
    BY DEF ToSet
  <2> QED
    BY <1>1, <2>1 DEF Pending
<1>3. task'[c][r.task] = "sent"
  BY <1>1, <1>2
<1> QED
  BY <1>1, <1>3 DEF Waiting, Tasks

LEMMA CommandFrame ==
  ASSUME NEW c \in Clients, Command(c), UNCHANGED <<serving, backlog, file, ran>>,
         num'[c] = num[c], op'[c] = op[c], asked'[c] = asked[c],
         \A t \in Tasks(c) : task[c][t] = "sent" => task'[c][t] = "sent"
  PROVE  Command(c)'
<1>1. \A m \in Nodes : (Waiting(m, c) => Waiting(m, c)') /\ (Quiet(m) => Quiet(m)')
  BY WaitingFrame DEF Quiet
<1>2. \A m : HasRun(m, c)' <=> HasRun(m, c)
  BY DEF HasRun
<1>3. \A m \in Nodes : Repeated(m, c) => Repeated(m, c)'
  BY <1>1, <1>2 DEF Repeated
<1>4. Apart(c)'
  BY <1>2 DEF Command, Apart
<1> QED
  BY <1>1, <1>2, <1>3, <1>4, PeersType DEF Command

\* All peers asked and all tasks done: the command has run on every peer.
LEMMA AllAsked ==
  ASSUME FullMesh, TypeInv, NEW c \in Clients, Busy(c), pc[c] = "gather",
         Gathered(c), asked[c] = ToSet(Peers[Home[c]])
  PROVE  /\ Apart(c) /\ Resting
         /\ op[c] = "FCLOSE" <=> ~HasRun(Home[c], c)
         /\ \A m \in Nodes : m # Home[c] => HasRun(m, c)
<1> DEFINE s == Peers[Home[c]]
<1>1. /\ Tasks(c) = 1 .. Len(s) /\ Len(s) \in Nat
      /\ \A t \in Tasks(c) : s[t] \in ToSet(s) /\ task[c][t] = "done"
      /\ s \in Seq(Nodes)
  BY PeersType DEF Gathered
<1>2. Started(c) = Tasks(c)
  BY <1>1 DEF Started
<1>3. Cardinality(ToSet(s)) = Cardinality(Tasks(c))
  <2>1. IsFiniteSet(Tasks(c))
    <3>1. IsFiniteSet(1 .. Len(s))
      BY <1>1, FS_Interval
    <3> QED
      BY <1>1, <3>1
  <2>2. DOMAIN s = Tasks(c) /\ s \in [Tasks(c) -> ToSet(s)]
    <3>1. s = [t \in 1 .. Len(s) |-> s[t]]
      BY <1>1, SeqDef, LenProperties
    <3> QED
      BY <1>1, <3>1
  <2>3. s \in Bijection(Tasks(c), ToSet(s))
    <3>1. s \in Injection(Tasks(c), ToSet(s))
      BY <1>1, <2>2 DEF FullMesh, Injection, IsInjective
    <3>2. s \in Surjection(Tasks(c), ToSet(s))
      BY <2>2 DEF ToSet, Surjection
    <3> QED
      BY <3>1, <3>2 DEF Bijection
  <2> QED
    BY <2>1, <2>3, FS_Bijection DEF ExistsBijection
<1>4. Command(c)
  BY <1>2, <1>3 DEF Busy, Distinct
<1>5. ASSUME NEW m \in Nodes, m # Home[c]
      PROVE  Quiet(m) /\ HasRun(m, c)
  <2>1. m \in asked[c]
    BY <1>5 DEF FullMesh
  <2>2. ~Waiting(m, c)
    BY <1>1 DEF Waiting
  <2> QED
    BY <1>4, <1>5, <2>1, <2>2 DEF Command, Repeated
<1> QED
  BY <1>4, <1>5 DEF Command, Resting

LEMMA GatherAgrees ==
  ASSUME FullMesh, TypeInv, NEW c \in Clients, Busy(c), GatherAnswers(c), clean'
  PROVE  Busy(c)'
<1>1. /\ pc[c] = "gather" /\ Gathered(c) /\ asked[c] = ToSet(Peers[Home[c]])
      /\ pc' = [pc EXCEPT ![c] = IF op[c] = "FCLOSE" THEN "close" ELSE "respond"]
      /\ UNCHANGED <<file, serving, backlog>>
  BY DEF GatherAnswers, SessionStep, Set, servers
<1>2. /\ pc'[c] = IF op[c] = "FCLOSE" THEN "close" ELSE "respond"
      /\ \A x \in Clients : x # c => pc'[x] = "idle"
  BY <1>1, SessionTyping DEF Busy
<1>3. /\ Apart(c) /\ Resting
      /\ op[c] = "FCLOSE" <=> ~HasRun(Home[c], c)
      /\ \A m \in Nodes : m # Home[c] => HasRun(m, c)
  BY <1>1, AllAsked
<1>4. Resting'
  BY <1>1, <1>3 DEF Resting, Quiet
<1>5. CASE op[c] # "FCLOSE"
  <2>1. \A m \in Nodes : HasRun(m, c)
    BY <1>3, <1>5
  <2>2. Agreed'
    BY <1>1, <1>3, <2>1 DEF Apart, Agreed
  <2> QED
    BY <1>2, <1>4, <1>5, <2>2 DEF Busy
<1>6. CASE op[c] = "FCLOSE"
  <2>1. Home[c] \in Nodes /\ \A m \in Nodes : file[m] \in Copies
    BY PeersType, CopyTyping
  <2>2. <<c, num[c]>> \in Cells
    BY SessionTyping DEF Cells
  <2>3. Executed("FCLOSE", file[Home[c]], <<c, num[c]>>)
          = [open |-> TRUE, pos |-> 0, data |-> file[Home[c]].data]
    BY <2>1, <2>2, ExecutedIs DEF Ops
  <2>4. \A m \in Nodes : m # Home[c] =>
          Open(file[m]) = [open |-> TRUE, pos |-> 0, data |-> file[Home[c]].data]
    BY <1>3, <1>6, <2>1, <2>3 DEF Apart
  <2>5. \A m \in Nodes : Open(file[m]).data = file[m].data
    BY <2>1, OpenIs
  <2>6. \A m \in Nodes : m # Home[c] =>
          Open(file[m]).pos = 0 /\ file[m].data = file[Home[c]].data
    BY <2>4, <2>5
  <2>7. \A m \in Nodes : file[m].data = file[Home[c]].data
    BY <2>6
  <2>8. Closing(c)'
    BY <1>1, <2>6, <2>7 DEF Closing
  <2> QED
    BY <1>2, <1>4, <1>6, <2>8 DEF Busy
<1> QED
  BY <1>5, <1>6

LEMMA CloseAgrees ==
  ASSUME TypeInv, NEW c \in Clients, Busy(c), CloseLocal(c)
  PROVE  Busy(c)'
<1>1. /\ pc[c] = "close" /\ pc' = [pc EXCEPT ![c] = "respond"]
      /\ file' = [file EXCEPT ![Home[c]] = Close(file[Home[c]])]
      /\ UNCHANGED <<serving, backlog>>
  BY DEF CloseLocal, SessionStep, Set
<1>2. pc'[c] = "respond" /\ \A x \in Clients : x # c => pc'[x] = "idle"
  BY <1>1, SessionTyping DEF Busy
<1>3. Resting' /\ Closing(c)
  BY <1>1 DEF Busy, Resting, Quiet
<1>4. /\ Home[c] \in Nodes /\ file \in [Nodes -> Copies]
      /\ \A m \in Nodes : file[m] \in Copies
  BY PeersType, CopyTyping
<1> DEFINE closed == [open |-> TRUE, pos |-> 0, data |-> file[Home[c]].data]
<1>5. Open(file'[Home[c]]) = closed
  <2>1. PICK v : v \in Cells
    BY DEF Cells
  <2>2. Open(Close(file[Home[c]])) = closed
    BY <1>4, <2>1, ExecutedIs DEF Ops
  <2> QED
    BY <1>1, <1>4, <2>2
<1>6. ASSUME NEW m \in Nodes, m # Home[c]
      PROVE  Open(file'[m]) = closed
  <2>1. file'[m] = file[m]
    BY <1>1, <1>4, <1>6
  <2>2. Open(file[m]).pos = 0 /\ file[m].data = file[Home[c]].data
    BY <1>3, <1>4, <1>6 DEF Closing
  <2>3. Open(file[m]) = [open |-> TRUE, pos |-> IF file[m].open THEN file[m].pos ELSE 0,
                         data |-> file[m].data]
    BY <1>4, OpenIs
  <2>4. (IF file[m].open THEN file[m].pos ELSE 0) = 0
    BY <2>2, <2>3
  <2>5. Open(file[m]) = [open |-> TRUE, pos |-> 0, data |-> file[Home[c]].data]
    BY <2>2, <2>3, <2>4, Zenon
  <2> QED
    BY <2>1, <2>5
<1>7. Agreed'
  <2>1. \A m \in Nodes : Open(file'[m]) = closed
    BY <1>5, <1>6
  <2> QED
    BY <2>1 DEF Agreed
<1> QED
  BY <1>2, <1>3, <1>7 DEF Busy

LEMMA SessionAgrees ==
  ASSUME FullMesh, AgreeInv, NEW c \in Clients, Session(c), clean'
  PROVE  AllIdle' \/ Busy(c)'
<1>1. AskedInv /\ TypeInv
  BY AgreeTyping
<1>2. pc[c] # "idle" /\ clean
  BY DEF Session, SyncRequestBuilder, SpawnTask, GatherAnswers, CloseLocal, Respond,
     SessionStep, history
<1>3. Busy(c)
  BY <1>2 DEF AgreeInv, AllIdle, Busy
<1>4. CASE SyncRequestBuilder(c) \/ SpawnTask(c)
  <2>1. /\ pc[c] \in {"build", "spawn"}
        /\ pc' = [pc EXCEPT ![c] = "spawn"] \/ pc' = [pc EXCEPT ![c] = "gather"]
        /\ UNCHANGED <<serving, backlog, file, ran, num, op, asked>>
        /\ \/ task' = task
           \/ task' = [task EXCEPT ![c] = [task[c] EXCEPT ![next[c] + 1] = "created"]]
    BY <1>4 DEF SyncRequestBuilder, SpawnTask, SessionStep, Set, servers, request,
       tasks, history
  <2>2. pc'[c] \in {"spawn", "gather"} /\ \A x \in Clients : x # c => pc'[x] = "idle"
    BY <1>1, <1>3, <2>1, SessionTyping DEF Busy
  <2>3. task[c][next[c] + 1] # "sent" \/ next[c] + 1 \notin Tasks(c)
    BY <1>1, TaskTyping DEF Placed
  <2>4. \A t \in Tasks(c) : task[c][t] = "sent" => task'[c][t] = "sent"
    BY <1>1, <2>1, <2>3, TaskTyping
  <2>5. Distinct(c)' => Distinct(c)
    BY <1>1, <1>4, SessionAsked DEF Session
  <2>6. Distinct(c)' => Command(c)'
    BY <1>3, <2>1, <2>4, <2>5, CommandFrame DEF Busy
  <2> QED
    BY <2>2, <2>6 DEF Busy
<1>5. CASE GatherAnswers(c)
  BY <1>1, <1>3, <1>5, GatherAgrees
<1>6. CASE CloseLocal(c)
  BY <1>1, <1>3, <1>6, CloseAgrees
<1>7. CASE Respond(c)
  <2>1. /\ pc[c] = "respond" /\ pc' = [pc EXCEPT ![c] = "idle"]
        /\ UNCHANGED <<file, serving, backlog>>
    BY <1>7 DEF Respond, SessionStep, Set, servers
  <2>2. \A x \in Clients : pc'[x] = "idle"
    BY <1>1, <1>3, <2>1, SessionTyping DEF Busy
  <2> QED
    BY <1>3, <2>1, <2>2 DEF Busy, AllIdle, Agreed, Resting, Quiet
<1> QED
  BY <1>4, <1>5, <1>6, <1>7 DEF Session

LEMMA ConnectAgrees ==
  ASSUME AgreeInv, NEW c \in Clients, NEW t \in Tasks(c), Connect(c, t), clean'
  PROVE  Busy(c)'
<1>1. AskedInv /\ TypeInv
  BY AgreeTyping
<1>2. PICK p \in Nodes :
         /\ p = PeerAddress(c, t)
         /\ p \in ToSet(Peers[Home[c]]) /\ p # Home[c]
         /\ Request(c, t) \in SyncRequests
         /\ backlog' = [backlog EXCEPT ![p] = Append(backlog[p], Request(c, t))]
         /\ backlog' \in [Nodes -> Seq(SyncRequests)]
         /\ Pending(p)' = Pending(p) \cup {Request(c, t)}
         /\ \A m \in Nodes : m # p => Pending(m)' = Pending(m)
         /\ task[c][t] = "created" /\ pc[c] \in {"spawn", "gather"}
         /\ task' = [task EXCEPT ![c] = [task[c] EXCEPT ![t] = "sent"]]
         /\ asked' = [asked EXCEPT ![c] = asked[c] \cup {p}]
         /\ UNCHANGED <<file, serving, pc, op, num, result, named, next, answer,
                        outcome, ran, clean>>
  BY <1>1, ConnectIs
<1>3. Busy(c)
  BY <1>2 DEF AgreeInv, AllIdle, Busy
<1>4. pc'[c] \in {"spawn", "gather"} /\ \A x \in Clients : x # c => pc'[x] = "idle"
  BY <1>2, <1>3 DEF Busy
<1>5. ASSUME Distinct(c)'
      PROVE  Command(c)'
  <2>1. Distinct(c) /\ p \notin asked[c]
    BY <1>1, <1>2, <1>5, AsyncAsked DEF Async
  <2>2. Command(c)
    BY <1>2, <1>3, <2>1 DEF Busy
  <2>3. Quiet(p) /\ ~HasRun(p, c)
    BY <1>2, <2>1, <2>2 DEF Command, Repeated
  <2>4. \A m \in Nodes : HasRun(m, c)' <=> HasRun(m, c)
    BY <1>2 DEF HasRun
  <2>5. /\ DOMAIN backlog = Nodes /\ DOMAIN asked = Clients /\ DOMAIN task = Clients
        /\ DOMAIN task[c] = Tasks(c) /\ Home[c] \in Nodes
    BY <1>1, QueueTyping, HistoryTyping, TaskTyping, PeersType
  <2>6. asked'[c] = asked[c] \cup {p}
    BY <1>2, <2>5
  <2>7. Waiting(p, c)'
    <3>1. Append(<<>>, Request(c, t)) = <<Request(c, t)>>
      OBVIOUS
    <3>2. backlog'[p] = <<Request(c, t)>> /\ serving'[p] = {}
      BY <1>2, <2>3, <2>5, <3>1 DEF Quiet
    <3>3. /\ Request(c, t).client = c /\ Request(c, t).num = num[c]
          /\ Request(c, t).op = op[c] /\ Request(c, t).task = t
      BY DEF Request
    <3>4. task'[c][t] = "sent"
      BY <1>2, <2>5
    <3> QED
      BY <1>2, <3>2, <3>3, <3>4 DEF Waiting, Tasks
  <2>8. ASSUME NEW m \in Nodes, m # p
        PROVE  (Quiet(m) => Quiet(m)') /\ (Waiting(m, c) => Waiting(m, c)')
    <3>1. serving'[m] = serving[m] /\ backlog'[m] = backlog[m]
      BY <1>2, <2>5, <2>8
    <3>2. \A k \in Tasks(c) : task[c][k] = "sent" => task'[c][k] = "sent"
      BY <1>2, <2>5
    <3> QED
      BY <1>2, <3>1, <3>2, WaitingFrame DEF Quiet
  <2>9. ASSUME NEW m \in Nodes, m # Home[c]
        PROVE  Repeated(m, c)'
    <3>1. CASE m = p
      BY <2>3, <2>4, <2>6, <2>7, <3>1 DEF Repeated
    <3>2. CASE m # p
      BY <2>2, <2>4, <2>6, <2>8, <2>9, <3>2 DEF Repeated, Command
    <3> QED
      BY <3>1, <3>2
  <2>10. Apart(c)'
    BY <1>2, <2>2, <2>4 DEF Command, Apart
  <2>11. Quiet(Home[c])'
    BY <1>2, <2>2, <2>5, <2>8 DEF Command
  <2> QED
    BY <1>2, <2>2, <2>4, <2>5, <2>9, <2>10, <2>11 DEF Command
<1> QED
  BY <1>4, <1>5 DEF Busy

\* The requests of a clean command are those of its client.
LEMMA PeerBusy ==
  ASSUME AgreeInv, clean, NEW m \in Nodes, serving[m] # {} \/ backlog[m] # <<>>
  PROVE  \E c \in Clients :
           /\ Busy(c) /\ pc[c] \in {"build", "spawn", "gather"}
           /\ Distinct(c) => Command(c) /\ m # Home[c] /\ Waiting(m, c) /\ ~HasRun(m, c)
                             /\ m \in asked[c]
<1>1. TypeInv /\ ~Resting
  BY AgreeTyping DEF Resting, Quiet
<1>2. PICK c \in Clients : Busy(c)
  BY <1>1 DEF AgreeInv, AllIdle
<1>3. pc[c] \in {"build", "spawn", "gather"}
  BY <1>1, <1>2, SessionTyping DEF Busy
<1>4. Distinct(c) => Command(c)
  BY <1>2, <1>3 DEF Busy
<1>5. Command(c) => m # Home[c] /\ Waiting(m, c) /\ ~HasRun(m, c) /\ m \in asked[c]
  BY DEF Command, Repeated, Quiet
<1> QED
  BY <1>2, <1>3, <1>4, <1>5

LEMMA AcceptAgrees ==
  ASSUME AgreeInv, clean, NEW m \in Nodes, AcceptSync(m)
  PROVE  \E c \in Clients : Busy(c)'
<1>1. AskedInv /\ TypeInv
  BY AgreeTyping
<1>2. /\ backlog[m] # <<>>
      /\ serving' = [serving EXCEPT ![m] = serving[m] \cup {Head(backlog[m])}]
      /\ backlog' = [backlog EXCEPT ![m] = Tail(backlog[m])]
      /\ UNCHANGED <<file, pc, op, num, task, asked, ran, clean>>
  BY <1>1, AcceptIs
<1>3. DOMAIN backlog = Nodes /\ DOMAIN serving = Nodes
  BY <1>1, QueueTyping
<1>4. PICK c \in Clients :
           /\ Busy(c) /\ pc[c] \in {"build", "spawn", "gather"}
           /\ Distinct(c) => Command(c) /\ m # Home[c] /\ Waiting(m, c) /\ ~HasRun(m, c)
                             /\ m \in asked[c]
  BY <1>2, PeerBusy
<1>5. Distinct(c)' <=> Distinct(c)
  BY <1>1, PeerAsked DEF Peer
<1>6. ASSUME Distinct(c)
      PROVE  Command(c)'
  <2>1. PICK r \in SyncRequests :
          /\ r.client = c /\ r.num = num[c] /\ r.op = op[c] /\ r.task \in Tasks(c)
          /\ task[c][r.task] = "sent" /\ serving[m] = {} /\ backlog[m] = <<r>>
    BY <1>2, <1>4, <1>6 DEF Waiting
  <2>2. Head(<<r>>) = r /\ Tail(<<r>>) = <<>>
    OBVIOUS
  <2>3. serving'[m] = {r} /\ backlog'[m] = <<>>
    BY <1>2, <1>3, <2>1, <2>2
  <2>4. Waiting(m, c)'
    BY <1>2, <2>1, <2>3 DEF Waiting, Tasks
  <2>5. ASSUME NEW q \in Nodes, q # m
        PROVE  (Quiet(q) => Quiet(q)') /\ (Waiting(q, c) => Waiting(q, c)')
    <3>1. serving'[q] = serving[q] /\ backlog'[q] = backlog[q]
      BY <1>2, <1>3, <2>5
    <3> QED
      BY <1>2, <3>1, WaitingFrame DEF Quiet
  <2>6. \A q : HasRun(q, c)' <=> HasRun(q, c)
    BY <1>2 DEF HasRun
  <2>7. ASSUME NEW q \in Nodes, q # Home[c]
        PROVE  Repeated(q, c)'
    <3>1. CASE q = m
      BY <1>2, <1>4, <1>6, <2>4, <2>6, <3>1 DEF Repeated
    <3>2. CASE q # m
      BY <1>2, <1>4, <1>6, <2>5, <2>6, <2>7, <3>2 DEF Repeated, Command
    <3> QED
      BY <3>1, <3>2
  <2>8. Apart(c)'
    BY <1>2, <1>4, <1>6, <2>6 DEF Command, Apart
  <2>9. Home[c] \in Nodes
    BY PeersType
  <2> QED
    BY <1>2, <1>4, <1>6, <2>5, <2>6, <2>7, <2>8, <2>9 DEF Command
<1> QED
  BY <1>2, <1>4, <1>5, <1>6 DEF Busy

\* A peer executes the command: its copy takes the step the others took.
LEMMA ExecuteAgrees ==
  ASSUME AgreeInv, clean, NEW m \in Nodes, NEW r \in serving[m], ExecuteSync(m, r)
  PROVE  \E c \in Clients : Busy(c)'
<1>1. AskedInv /\ TypeInv /\ Posted
  BY AgreeTyping DEF PostedInv
<1>2. PICK c \in Clients :
           /\ Busy(c) /\ pc[c] \in {"build", "spawn", "gather"}
           /\ Distinct(c) => Command(c) /\ m # Home[c] /\ Waiting(m, c) /\ ~HasRun(m, c)
                             /\ m \in asked[c]
  BY PeerBusy
<1>3. Distinct(c)' <=> Distinct(c)
  BY <1>1, PeerAsked DEF Peer
<1>4. /\ UNCHANGED <<backlog, pc, op, num, asked, clean>>
      /\ serving' = [serving EXCEPT ![m] = serving[m] \ {r}]
      /\ ran' = ran \cup {<<m, r.client, r.num>>}
  BY DEF ExecuteSync, Reply, request
<1>5. ASSUME Distinct(c)
      PROVE  Command(c)'
  <2>1. /\ r.client = c /\ r.num = num[c] /\ r.op = op[c] /\ r.task \in Tasks(c)
        /\ task[c][r.task] = "sent" /\ serving[m] = {r} /\ backlog[m] = <<>>
    BY <1>2, <1>5 DEF Waiting
  <2>2. /\ DOMAIN serving = Nodes /\ DOMAIN task = Clients
        /\ DOMAIN task[c] = Tasks(c) /\ file \in [Nodes -> Copies]
        /\ \A q \in Nodes : file[q] \in Copies
        /\ op[c] \in Ops /\ <<c, num[c]>> \in Cells /\ Home[c] \in Nodes
    BY <1>1, QueueTyping, TaskTyping, CopyTyping, SessionTyping, PeersType DEF Cells
  <2>3. /\ file' = [file EXCEPT ![m] =
             After(op[c], IF op[c] = "FCLOSE" THEN file[m] ELSE Open(file[m]), <<c, num[c]>>)]
        /\ task' = [task EXCEPT ![c] = [task[c] EXCEPT ![r.task] = "done"]]
    BY <2>1 DEF ExecuteSync, Reply, Set
  <2>4. Open(file'[m]) = Executed(op[c], file[m], <<c, num[c]>>)
    BY <2>2, <2>3, ExecutedIs
  <2>5. \A q \in Nodes : q # m => file'[q] = file[q]
    BY <2>2, <2>3
  <2>6. \A q \in Nodes : HasRun(q, c)' <=> HasRun(q, c) \/ q = m
    BY <1>4, <2>1 DEF HasRun
  <2>7. Quiet(m)'
    BY <1>4, <2>1, <2>2 DEF Quiet
  <2>8. ASSUME NEW q \in Nodes, q # m
        PROVE  (Quiet(q) => Quiet(q)') /\ (Waiting(q, c) => Waiting(q, c)')
    <3>1. serving'[q] = serving[q] /\ backlog'[q] = backlog[q]
      BY <1>4, <2>2, <2>8
    <3>2. r \in Pending(m)
      BY DEF Pending
    <3>3. ASSUME NEW s \in Pending(q), s.client = c, s.num = num[c], s.task \in Tasks(c),
                 task[c][s.task] = "sent"
          PROVE  task'[c][s.task] = "sent"
      <4>1. s.task # r.task
        BY <1>1, <2>1, <2>8, <3>2, <3>3 DEF Posted
      <4> QED
        BY <2>2, <2>3, <3>3, <4>1
    <3> QED
      BY <1>4, <3>1, <3>3, WaitingFrame DEF Quiet
  <2>9. ASSUME NEW q \in Nodes, q # Home[c]
        PROVE  Repeated(q, c)'
    <3>1. CASE q = m
      BY <1>2, <1>4, <1>5, <2>6, <2>7, <3>1 DEF Repeated
    <3>2. CASE q # m
      BY <1>2, <1>4, <1>5, <2>6, <2>8, <2>9, <3>2 DEF Repeated, Command
    <3> QED
      BY <3>1, <3>2
  <2>10. ~HasRun(m, c) /\ Apart(c)
    BY <1>2, <1>5 DEF Command
  <2>11. \A q \in Nodes : HasRun(q, c) => Open(file[q]) = Open(file'[m])
    BY <2>4, <2>10 DEF Apart
  <2>12. \A q \in Nodes : ~HasRun(q, c) =>
           Open(file'[m]) = Executed(op[c], file[q], <<c, num[c]>>)
    BY <2>4, <2>10 DEF Apart, Executed
  <2>13. Apart(c)'
    <3> SUFFICES ASSUME NEW q \in Nodes, NEW z \in Nodes
                 PROVE  /\ (HasRun(q, c)' <=> HasRun(z, c)') => Open(file'[q]) = Open(file'[z])
                        /\ HasRun(q, c)' /\ ~HasRun(z, c)' =>
                             Open(file'[q]) = Executed(op[c], file'[z], <<c, num[c]>>)
      BY <1>4 DEF Apart
    <3>1. CASE q = m /\ z = m
      BY <2>6, <3>1
    <3>2. CASE q = m /\ z # m
      BY <2>5, <2>6, <2>11, <2>12, <3>2
    <3>3. CASE q # m /\ z = m
      BY <2>5, <2>6, <2>11, <3>3
    <3>4. CASE q # m /\ z # m
      BY <2>5, <2>6, <2>10, <3>4 DEF Apart
    <3> QED
      BY <3>1, <3>2, <3>3, <3>4
  <2>14. Quiet(Home[c])' /\ (op[c] = "FCLOSE" <=> ~HasRun(Home[c], c)')
    BY <1>2, <1>5, <2>2, <2>6, <2>8 DEF Command
  <2> QED
    BY <1>4, <2>9, <2>13, <2>14 DEF Command
<1> QED
  BY <1>2, <1>3, <1>4, <1>5 DEF Busy

LEMMA AgreeStep ==
  ASSUME FullMesh, AgreeInv, [Next]_vars
  PROVE  AgreeInv'
<1>1. AskedInv /\ PostedInv /\ NumberedInv /\ TypeInv
  BY AgreeTyping
<1>2. AskedInv'
  BY <1>1, AskedStep
<1> SUFFICES ASSUME clean'
             PROVE  AllIdle' \/ \E c \in Clients : Busy(c)'
  BY <1>2 DEF AgreeInv
<1>3. ASSUME NEW c \in Clients, RunLocal(c)
      PROVE  Busy(c)'
  <2>1. clean /\ \A x \in Clients : pc[x] = "idle"
    BY <1>3 DEF RunLocal, Idle
  <2>2. AllIdle
    BY <2>1 DEF AgreeInv, Busy
  <2> QED
    BY <1>1, <1>3, <2>2, RunLocalAgrees DEF AskedInv
<1>4. ASSUME NEW c \in Clients, Session(c)
      PROVE  AllIdle' \/ Busy(c)'
  BY <1>4, SessionAgrees
<1>5. ASSUME NEW c \in Clients, NEW t \in Tasks(c), Async(c, t)
      PROVE  Busy(c)'
  BY <1>5, ConnectAgrees DEF Async, ConnectFails, Timeout
<1>6. ASSUME NEW m \in Nodes, Peer(m)
      PROVE  \E c \in Clients : Busy(c)'
  <2>1. CASE AcceptSync(m)
    <3>1. clean
      BY <2>1 DEF AcceptSync, history
    <3> QED
      BY <2>1, <3>1, AcceptAgrees
  <2>2. ASSUME NEW r \in serving[m], ExecuteSync(m, r)
        PROVE  \E c \in Clients : Busy(c)'
    <3>1. clean
      BY <2>2 DEF ExecuteSync
    <3> QED
      BY <2>2, <3>1, ExecuteAgrees
  <2>3. ASSUME NEW r \in serving[m], RejectSync(m, r)
        PROVE  FALSE
    BY <2>3 DEF RejectSync
  <2> QED
    BY <1>6, <2>1, <2>2, <2>3 DEF Peer
<1>7. CASE UNCHANGED vars
  <2>1. UNCHANGED <<file, backlog, serving, pc, op, num, task, asked, ran, clean>>
    BY <1>7 DEF vars, servers, request, tasks, history
  <2>2. /\ Agreed => Agreed'
        /\ Resting => Resting'
    BY <2>1 DEF Agreed, Resting, Quiet
  <2>3. ASSUME NEW c \in Clients, Busy(c)
        PROVE  Busy(c)'
    <3>1. Distinct(c)' <=> Distinct(c)
      BY <2>1 DEF Distinct, Started, Tasks
    <3>2. Command(c) => Command(c)'
      BY <2>1, CommandFrame
    <3>3. Closing(c) => Closing(c)'
      BY <2>1 DEF Closing
    <3> QED
      BY <2>1, <2>2, <2>3, <3>1, <3>2, <3>3 DEF Busy
  <2> QED
    BY <2>1, <2>2, <2>3 DEF AgreeInv, AllIdle
<1> QED
  BY <1>3, <1>4, <1>5, <1>6, <1>7 DEF Next

\* Where every server is told of every other one, the copies agree whenever no
\* command is being executed, pointers included, as long as commands do not
\* overlap, each peer is asked, and nothing fails or times out.
THEOREM CopiesStayEqual ==
  ASSUME FullMesh
  PROVE  Spec => []CopiesAgree
<1>1. ASSUME AgreeInv, clean, \A c \in Clients : Idle(c), NEW m \in Nodes, NEW q \in Nodes
      PROVE  file[m].data = file[q].data /\ Pointer(m) = Pointer(q)
  <2>1. Open(file[m]) = Open(file[q])
    BY <1>1 DEF AgreeInv, AllIdle, Agreed, Busy, Idle
  <2>2. file[m] \in Copies /\ file[q] \in Copies
    BY <1>1, AgreeTyping, CopyTyping
  <2>3. /\ Open(file[m]).data = file[m].data /\ Open(file[m]).pos = Pointer(m)
        /\ Open(file[q]).data = file[q].data /\ Open(file[q]).pos = Pointer(q)
    BY <2>2, OpenIs DEF Pointer
  <2> QED
    BY <2>1, <2>3
<1>2. AgreeInv => CopiesAgree
  BY <1>1 DEF CopiesAgree
<1>3. AgreeInv /\ [Next]_vars => AgreeInv'
  BY AgreeStep
<1> QED
  BY <1>2, <1>3, AgreeInit, PTL DEF Spec

-----------------------------------------------------------------------------
(* One file.                                                               *)

\* A command has a number of its own; FCLOSE has not run on its own server
\* before CloseLocal.
OneCommand(c) ==
  /\ pc[c] # "idle" => num[c] \in DOMAIN Requests[c]
  /\ pc[c] = "close" => op[c] = "FCLOSE"
  /\ pc[c] \in {"build", "spawn", "gather", "close"} /\ op[c] = "FCLOSE" =>
       ~HasRun(Home[c], c)

\* What peers have still to do belongs to the client in a command.
OwnRequests ==
  \A c \in Clients : pc[c] # "idle" =>
    \A m \in Nodes : \A r \in Pending(m) : r.client = c

OneInv ==
  /\ AgreeInv
  /\ \A c \in Clients : OneCommand(c)
  /\ clean => OwnRequests

LEMMA OneCommandFrame ==
  ASSUME NEW c, OneCommand(c), pc'[c] = pc[c], op'[c] = op[c], num'[c] = num[c],
         \A x \in ran' : x \in ran \/ x[2] # c \/ x[1] # Home[c]
  PROVE  OneCommand(c)'
BY DEF OneCommand, HasRun

LEMMA OneCommandStep ==
  ASSUME NumberedInv, NEW c \in Clients, OneCommand(c), [Next]_vars
  PROVE  OneCommand(c)'
<1>1. TypeInv /\ Numbered
  BY DEF NumberedInv
<1>2. /\ pc \in [Clients -> {"idle", "build", "spawn", "gather", "close", "respond"}]
      /\ op \in [Clients -> Ops] /\ num \in [Clients -> Nat]
  BY <1>1, SessionTyping
<1>3. ASSUME NEW x \in Clients, RunLocal(x)
      PROVE  OneCommand(c)'
  <2>1. PICK o \in Ops : RunsLocal(x, o)
    BY <1>1, <1>3, RunLocalIs
  <2>2. CASE x # c
    <3>1. \A y \in ran' : y \in ran \/ y[2] # c
      BY <2>1, <2>2 DEF RunsLocal
    <3>2. pc'[c] = pc[c] /\ op'[c] = op[c] /\ num'[c] = num[c]
      BY <1>2, <2>1, <2>2 DEF RunsLocal
    <3> QED
      BY <3>1, <3>2, OneCommandFrame
  <2>3. CASE x = c
    <3>1. /\ num[c] \in Nat /\ num'[c] = num[c] + 1 /\ num[c] < Len(Requests[c])
          /\ op'[c] = o /\ (o = "FCLOSE" => ran' = ran)
          /\ pc'[c] = "close" => o = "FCLOSE"
      BY <1>2, <2>1, <2>3 DEF RunsLocal
    <3>2. <<Home[c], c, num[c] + 1>> \notin ran
      BY <1>1, <3>1 DEF Numbered
    <3>3. num'[c] \in DOMAIN Requests[c]
      <4>1. Requests[c] \in Seq(SUBSET Ops)
        BY ReplicaAssumption
      <4>2. num'[c] \in 1 .. Len(Requests[c])
        BY <3>1, <4>1, LenProperties
      <4> QED
        BY <4>1, <4>2, LenProperties
    <3> QED
      BY <3>1, <3>2, <3>3 DEF OneCommand, HasRun
  <2> QED
    BY <2>2, <2>3
<1>4. ASSUME NEW x \in Clients, Session(x)
      PROVE  OneCommand(c)'
  <2>1. /\ \E from \in {"build", "spawn", "gather", "close", "respond"} : \E to :
             /\ pc[x] = from /\ pc' = [pc EXCEPT ![x] = to]
             /\ to \in {"build", "spawn", "gather"} => from \in {"build", "spawn", "gather"}
             /\ to = "close" => from = "gather" /\ op[x] = "FCLOSE"
             /\ to \in {"idle", "build", "spawn", "gather", "close", "respond"}
        /\ op' = op /\ num' = num
        /\ \A y \in ran' : \/ y \in ran
                           \/ y = <<Home[x], x, num[x]>> /\ pc'[x] = "respond"
    <3>1. CASE SyncRequestBuilder(x)
      BY <1>2, <3>1 DEF SyncRequestBuilder, SessionStep, Set, history
    <3>2. CASE SpawnTask(x)
      BY <1>2, <3>2 DEF SpawnTask, SessionStep, Set, history, request
    <3>3. CASE GatherAnswers(x)
      BY <1>2, <3>3 DEF GatherAnswers, SessionStep, Set, request
    <3>4. CASE CloseLocal(x)
      BY <1>2, <3>4 DEF CloseLocal, SessionStep, Set
    <3>5. CASE Respond(x)
      BY <1>2, <3>5 DEF Respond, SessionStep, Set, history
    <3> QED
      BY <1>4, <3>1, <3>2, <3>3, <3>4, <3>5 DEF Session
  <2>2. CASE x # c
    <3>1. pc'[c] = pc[c]
      BY <1>2, <2>1, <2>2
    <3>2. \A y \in ran' : y \in ran \/ y[2] # c
      BY <2>1, <2>2
    <3> QED
      BY <2>1, <3>1, <3>2, OneCommandFrame
  <2>3. CASE x = c
    BY <1>2, <2>1, <2>3 DEF OneCommand, HasRun
  <2> QED
    BY <2>2, <2>3
<1>5. ASSUME NEW x \in Clients, NEW t \in Tasks(x), Async(x, t)
      PROVE  OneCommand(c)'
  BY <1>5, OneCommandFrame DEF Async, Connect, ConnectFails, Timeout, request
<1>6. ASSUME NEW m \in Nodes, AcceptSync(m)
      PROVE  OneCommand(c)'
  BY <1>6, OneCommandFrame DEF AcceptSync, request, history
<1>7. ASSUME NEW m \in Nodes, NEW r \in serving[m], ExecuteSync(m, r)
      PROVE  OneCommand(c)'
  <2>1. r \in Pending(m) /\ ran' = ran \cup {<<m, r.client, r.num>>}
    BY <1>1, <1>7, ExecuteIs
  <2>2. m # Home[r.client]
    BY <1>1, <2>1 DEF Numbered
  <2>3. UNCHANGED <<pc, op, num>>
    BY <1>7 DEF ExecuteSync, Reply, request
  <2> QED
    BY <2>1, <2>2, <2>3, OneCommandFrame
<1>8. ASSUME NEW m \in Nodes, NEW r \in serving[m], RejectSync(m, r)
      PROVE  OneCommand(c)'
  BY <1>8, OneCommandFrame DEF RejectSync, Reply, request
<1>9. CASE UNCHANGED vars
  BY <1>9, OneCommandFrame DEF vars, request, history
<1> QED
  BY <1>3, <1>4, <1>5, <1>6, <1>7, <1>8, <1>9 DEF Next, Peer

\* With no command under way nothing is pending; with one, only its own
\* requests are sent.
LEMMA OwnRequestsStep ==
  ASSUME OneInv, [Next]_vars, clean'
  PROVE  OwnRequests'
<1>1. TypeInv
  BY AgreeTyping DEF OneInv
<1>2. /\ pc \in [Clients -> {"idle", "build", "spawn", "gather", "close", "respond"}]
  BY <1>1, SessionTyping
<1>3. clean
  BY DEF Next, RunLocal, Session, SyncRequestBuilder, SpawnTask, GatherAnswers,
     CloseLocal, Respond, Async, Connect, ConnectFails, Timeout, Peer, AcceptSync,
     ExecuteSync, RejectSync, history, vars
<1>4. OwnRequests
  BY <1>3 DEF OneInv
<1>5. ASSUME NEW x \in Clients, RunLocal(x)
      PROVE  OwnRequests'
  <2>1. \A c \in Clients : pc[c] = "idle"
    BY <1>5 DEF RunLocal, Idle
  <2>2. Resting
    BY <1>3, <2>1 DEF OneInv, AgreeInv, AllIdle, Busy
  <2>3. serving' = serving /\ backlog' = backlog
    BY <1>5 DEF RunLocal
  <2>4. \A m \in Nodes : Pending(m)' = {}
    BY <2>2, <2>3, ToSetEmpty DEF Resting, Quiet, Pending
  <2> QED
    BY <2>4 DEF OwnRequests
<1>6. ASSUME NEW x \in Clients, NEW t \in Tasks(x), Connect(x, t)
      PROVE  OwnRequests'
  <2> PICK p \in Nodes :
         /\ p = PeerAddress(x, t)
         /\ p \in ToSet(Peers[Home[x]]) /\ p # Home[x]
         /\ Request(x, t) \in SyncRequests
         /\ backlog' = [backlog EXCEPT ![p] = Append(backlog[p], Request(x, t))]
         /\ backlog' \in [Nodes -> Seq(SyncRequests)]
         /\ Pending(p)' = Pending(p) \cup {Request(x, t)}
         /\ \A m \in Nodes : m # p => Pending(m)' = Pending(m)
         /\ task[x][t] = "created" /\ pc[x] \in {"spawn", "gather"}
         /\ task' = [task EXCEPT ![x] = [task[x] EXCEPT ![t] = "sent"]]
         /\ asked' = [asked EXCEPT ![x] = asked[x] \cup {p}]
         /\ UNCHANGED <<file, serving, pc, op, num, result, named, next, answer,
                        outcome, ran, clean>>
    BY <1>1, <1>6, ConnectIs
  <2>1. /\ Pending(p)' = Pending(p) \cup {Request(x, t)}
        /\ \A m \in Nodes : m # p => Pending(m)' = Pending(m)
        /\ pc[x] \in {"spawn", "gather"} /\ pc' = pc
    OBVIOUS
  <2>2. \A c \in Clients : pc[c] # "idle" => c = x
    BY <1>3, <2>1 DEF OneInv, AgreeInv, AllIdle, Busy
  <2>3. Request(x, t).client = x
    BY DEF Request
  <2> QED
    BY <1>4, <2>1, <2>2, <2>3 DEF OwnRequests
<1>7. ASSUME \A m \in Nodes : Pending(m)' \subseteq Pending(m),
             \A c \in Clients : pc'[c] # "idle" => pc[c] # "idle"
      PROVE  OwnRequests'
  BY <1>4, <1>7 DEF OwnRequests
<1>8. ASSUME NEW x \in Clients, Session(x)
      PROVE  OwnRequests'
  <2>1. serving' = serving /\ backlog' = backlog
    BY <1>8 DEF Session, SyncRequestBuilder, SpawnTask, GatherAnswers, CloseLocal,
       Respond, servers
  <2>2. pc[x] # "idle" /\ \E s : pc' = [pc EXCEPT ![x] = s]
    BY <1>8 DEF Session, SyncRequestBuilder, SpawnTask, GatherAnswers, CloseLocal,
       Respond, SessionStep, Set
  <2>3. \A m \in Nodes : Pending(m)' = Pending(m)
    BY <2>1 DEF Pending
  <2> QED
    BY <1>2, <1>7, <2>2, <2>3
<1>9. ASSUME NEW x \in Clients, NEW t \in Tasks(x), ConnectFails(x, t) \/ Timeout(x, t)
      PROVE  FALSE
  BY <1>9 DEF ConnectFails, Timeout
<1>10. ASSUME NEW q \in Nodes, Peer(q)
       PROVE  OwnRequests'
  <2>1. pc' = pc
    BY <1>10 DEF Peer, AcceptSync, ExecuteSync, RejectSync, Reply
  <2>2. ASSUME NEW m \in Nodes
        PROVE  Pending(m)' \subseteq Pending(m)
    <3>1. backlog \in [Nodes -> Seq(SyncRequests)] /\ serving \in [Nodes -> SUBSET SyncRequests]
      BY <1>1, QueueTyping
    <3>2. CASE AcceptSync(q)
      <4>1. /\ backlog[q] # <<>> /\ Head(backlog[q]) \in ToSet(backlog[q])
            /\ serving' = [serving EXCEPT ![q] = serving[q] \cup {Head(backlog[q])}]
            /\ backlog' = [backlog EXCEPT ![q] = Tail(backlog[q])]
        BY <1>1, <3>2, AcceptIs
      <4>2. ToSet(Tail(backlog[q])) \subseteq ToSet(backlog[q])
        BY <3>1, <4>1, ToSetTail
      <4>3. CASE m = q
        BY <3>1, <4>1, <4>2, <4>3 DEF Pending
      <4>4. CASE m # q
        BY <3>1, <4>1, <4>4 DEF Pending
      <4> QED
        BY <4>3, <4>4
    <3>3. ASSUME NEW r \in serving[q], ExecuteSync(q, r) \/ RejectSync(q, r)
          PROVE  Pending(m)' \subseteq Pending(m)
      <4>1. serving' = [serving EXCEPT ![q] = serving[q] \ {r}] /\ backlog' = backlog
        BY <3>3 DEF ExecuteSync, RejectSync, Reply
      <4> QED
        BY <3>1, <4>1 DEF Pending
    <3> QED
      BY <1>10, <3>2, <3>3 DEF Peer
  <2> QED
    BY <1>7, <2>1, <2>2
<1>11. CASE UNCHANGED vars
  BY <1>4, <1>11 DEF vars, servers, OwnRequests, Pending
<1> QED
  BY <1>5, <1>6, <1>8, <1>9, <1>10, <1>11 DEF Next, Async

LEMMA OneInvStep ==
  ASSUME FullMesh, OneInv, [Next]_vars
  PROVE  OneInv'
<1>1. AgreeInv'
  BY AgreeStep DEF OneInv
<1>2. ASSUME NEW c \in Clients
      PROVE  OneCommand(c)'
  BY OneCommandStep, AgreeTyping DEF OneInv
<1>3. clean' => OwnRequests'
  BY OwnRequestsStep
<1> QED
  BY <1>1, <1>2, <1>3 DEF OneInv

LEMMA OneInvInit == Init => OneInv
<1> SUFFICES ASSUME Init PROVE OneInv
  OBVIOUS
<1>1. \A c \in Clients : pc[c] = "idle"
  BY DEF Init
<1>2. \A c \in Clients : OneCommand(c)
  BY <1>1 DEF OneCommand
<1> QED
  BY <1>1, <1>2, AgreeInit DEF OneInv, OwnRequests

\* What a command does to the copy as it is seen, its pointer and its cells.
Seen(f) == IF f.open THEN f.pos ELSE 0

Written(p, d, v) ==
  [k \in 1 .. (IF p < Len(d) THEN Len(d) ELSE p + 1) |->
     CASE k = p + 1                    -> v
       [] k # p + 1 /\ k \in DOMAIN d  -> d[k]
       [] OTHER                        -> Hole]

LEMMA EffectIs ==
  ASSUME NEW f \in Copies, NEW o \in Ops \ {"FCLOSE"}, NEW v \in Cells
  PROVE  LET g == After(o, Open(f), v) IN
         \/ Seen(g) = Seen(f) /\ g.data = f.data
         \/ Seen(g) = Seen(f) + 1 /\ g.data = f.data
         \/ Seen(g) = Seen(f) + 1 /\ g.data = Written(Seen(f), f.data, v)
<1> DEFINE p == Seen(f)  d == f.data  h == [open |-> TRUE, pos |-> p, data |-> d]
<1>1. /\ Open(f) = h /\ h \in Copies /\ p \in Nat /\ d \in Seq(Cells)
  BY OpenIs DEF Copies, Seen
<1>2. h.open = TRUE /\ h.pos = p /\ h.data = d
  OBVIOUS
<1> HIDE DEF p, d, h
<1>3. CASE o = "FOPEN" \/ (o = "FREAD" /\ AtEnd(h))
  BY <1>1, <1>2, <1>3 DEF After, Seen, p, d
<1>4. CASE o = "FSEEK" \/ (o = "FREAD" /\ ~AtEnd(h))
  <2>1. After(o, h, v) = [h EXCEPT !.pos = h.pos + 1]
    BY <1>4 DEF After
  <2>2. /\ After(o, h, v).open = TRUE /\ After(o, h, v).pos = p + 1
        /\ After(o, h, v).data = d
    BY <1>1, <1>2, <2>1 DEF h
  <2> QED
    BY <1>1, <2>2 DEF Seen, p, d
<1>5. CASE o = "FWRITE"
  <2>1. After(o, h, v) = [h EXCEPT !.pos = h.pos + 1, !.data = Overwrite(h, v)]
    BY <1>5 DEF After
  <2>2. /\ After(o, h, v).open = TRUE /\ After(o, h, v).pos = p + 1
        /\ After(o, h, v).data = Overwrite(h, v)
    BY <1>1, <1>2, <2>1 DEF h
  <2>3. Overwrite(h, v) = Written(p, d, v)
    <3>1. /\ Len(d) \in Nat /\ DOMAIN d = 1 .. Len(d)
          /\ (AtEnd(h) <=> ~(p < Len(d)))
      BY <1>1, <1>2, LenProperties DEF AtEnd
    <3>2. (IF AtEnd(h) THEN h.pos + 1 ELSE Len(h.data))
            = (IF p < Len(d) THEN Len(d) ELSE p + 1)
      BY <1>2, <3>1
    <3>3. \A k \in 1 .. (IF p < Len(d) THEN Len(d) ELSE p + 1) :
            (IF k = h.pos + 1 THEN v ELSE IF k <= Len(h.data) THEN h.data[k] ELSE Hole)
              = (CASE k = p + 1                    -> v
                   [] k # p + 1 /\ k \in DOMAIN d  -> d[k]
                   [] OTHER                        -> Hole)
      BY <1>1, <1>2, <3>1
    <3> QED
      BY <3>2, <3>3 DEF Overwrite, Written
  <2> QED
    BY <1>1, <2>2, <2>3 DEF Seen, p, d
<1> QED
  BY <1>3, <1>4, <1>5 DEF Ops

\* Which copy the clients see, before a step and after it.
LEMMA CurrentIs ==
  /\ (\A x \in Clients : pc[x] = "idle") => Current \in Nodes
  /\ (\A x \in Clients : pc'[x] = "idle") => Current' \in Nodes
  /\ \A c \in Clients :
       /\ (\A x \in Clients : pc[x] # "idle" <=> x = c) => Current = Home[c]
       /\ (\A x \in Clients : pc'[x] # "idle" <=> x = c) => Current' = Home[c]
<1>1. Nodes # {}
  BY ReplicaAssumption
<1>2. \A S : S # {} => (CHOOSE x \in S : TRUE) \in S
  OBVIOUS
<1>3. (\A x \in Clients : pc[x] = "idle") => Current \in Nodes
  BY <1>1, <1>2 DEF Current, Idle
<1>4. (\A x \in Clients : pc'[x] = "idle") => Current' \in Nodes
  BY <1>1, <1>2 DEF Current, Idle
<1>5. ASSUME NEW c \in Clients, \A x \in Clients : pc[x] # "idle" <=> x = c
      PROVE  Current = Home[c]
  <2> DEFINE S == {x \in Clients : ~Idle(x)}
  <2>1. S = {c}
    BY <1>5 DEF Idle
  <2>2. (CHOOSE x \in S : TRUE) \in S
    BY <1>2, <2>1
  <2> QED
    BY <2>1, <2>2 DEF Current
<1>6. ASSUME NEW c \in Clients, \A x \in Clients : pc'[x] # "idle" <=> x = c
      PROVE  Current' = Home[c]
  <2> DEFINE S == {x \in Clients : pc'[x] # "idle"}
  <2>1. S = {c}
    BY <1>6
  <2>2. (CHOOSE x \in S : TRUE) \in S
    BY <1>2, <2>1
  <2>3. Current' = Home[CHOOSE x \in S : TRUE]
    BY <2>1 DEF Current, Idle
  <2> QED
    BY <2>1, <2>2, <2>3
<1> QED
  BY <1>3, <1>4, <1>5, <1>6

LEMMA SameView ==
  ASSUME TypeInv, Agreed, NEW m \in Nodes, NEW q \in Nodes
  PROVE  file[m].data = file[q].data /\ Pointer(m) = Pointer(q)
<1>1. file[m] \in Copies /\ file[q] \in Copies
  BY CopyTyping
<1>2. Open(file[m]) = Open(file[q])
  BY DEF Agreed
<1> QED
  BY <1>1, <1>2, OpenIs DEF Pointer

\* A step of the servers that is a command's one step in OneFile.
LEMMA EffectStep ==
  ASSUME NEW x \in AllCommands, x \notin Done, Done' = Done \cup {x},
         \/ Pointer(Current)' = Pointer(Current) /\ UNCHANGED (file[Current].data)
         \/ Pointer(Current)' = Pointer(Current) + 1 /\ UNCHANGED (file[Current].data)
         \/ /\ Pointer(Current)' = Pointer(Current) + 1
            /\ (file[Current].data)' = Written(Pointer(Current), file[Current].data, x)
         \/ Pointer(Current)' = 0 /\ UNCHANGED (file[Current].data)
  PROVE  One!Next
<1>1. One!Once(x)
  BY DEF One!Once
<1>2. One!Look(x) \/ One!Advance(x) \/ One!Write(x) \/ One!Rewind(x)
  BY <1>1 DEF One!Look, One!Advance, One!Write, One!Rewind, Written
<1> QED
  BY <1>2 DEF One!Next

\* What a command executed by its own server adds to Done, and by another.
LEMMA DoneIs ==
  ASSUME NEW m \in Nodes, NEW c \in Clients, NEW k,
         ran' = ran \cup {<<m, c, k>>}
  PROVE  /\ m # Home[c] => Done' = Done
         /\ m = Home[c] /\ k \in DOMAIN Requests[c] =>
              <<c, k>> \in AllCommands /\ Done' = Done \cup {<<c, k>>}
<1>1. ASSUME m # Home[c]
      PROVE  Done' = Done
  BY <1>1 DEF Done
<1>2. ASSUME m = Home[c], k \in DOMAIN Requests[c]
      PROVE  <<c, k>> \in AllCommands /\ Done' = Done \cup {<<c, k>>}
  <2>1. <<c, k>> \in AllCommands
    BY <1>2 DEF AllCommands
  <2>2. \A x \in AllCommands : \E a \in Clients : \E b \in DOMAIN Requests[a] : x = <<a, b>>
    BY DEF AllCommands
  <2>3. \A x \in AllCommands :
          <<Home[x[1]], x[1], x[2]>> \in ran' <=>
            <<Home[x[1]], x[1], x[2]>> \in ran \/ x = <<c, k>>
    BY <1>2, <2>2
  <2> QED
    BY <2>1, <2>3 DEF Done
<1> QED
  BY <1>1, <1>2

SeenSame == UNCHANGED <<file[Current].data, Pointer(Current), Done>>

\* While a command is under way, the copy seen is that of its own server.
LEMMA OneBusy ==
  ASSUME OneInv, clean, NEW c \in Clients, pc[c] # "idle"
  PROVE  Busy(c) /\ Current = Home[c] /\ \A x \in Clients : x # c => pc[x] = "idle"
<1>1. PICK y \in Clients : Busy(y)
  BY DEF OneInv, AgreeInv, AllIdle
<1>2. y = c
  BY <1>1 DEF Busy
<1>3. \A x \in Clients : pc[x] # "idle" <=> x = c
  BY <1>1, <1>2 DEF Busy
<1> QED
  BY <1>1, <1>2, <1>3, CurrentIs

LEMMA RunLocalOne ==
  ASSUME OneInv, NEW c \in Clients, RunLocal(c), clean'
  PROVE  One!Next \/ SeenSame
<1>1. TypeInv /\ Numbered
  BY AgreeTyping DEF OneInv, NumberedInv
<1>2. PICK o \in Ops : RunsLocal(c, o)
  BY <1>1, RunLocalIs
<1> DEFINE m == Home[c]  k == num[c] + 1  v == <<c, k>>
           g == After(o, Open(file[m]), v)
<1>3. /\ m \in Nodes /\ num[c] \in Nat /\ k \in DOMAIN Requests[c] /\ v \in Cells
  <2>1. num[c] \in Nat /\ num[c] < Len(Requests[c])
    BY <1>1, <1>2, SessionTyping DEF RunsLocal
  <2> QED
    <3>1. m \in Nodes /\ k \in Nat /\ v \in Cells
      <4>1. m \in Nodes /\ k \in Nat
        BY <2>1, ReplicaAssumption
      <4>2. v \in Clients \X Nat
        BY <4>1
      <4> QED
        BY <4>1, <4>2 DEF Cells
    <3>2. Requests[c] \in Seq(SUBSET Ops)
      BY ReplicaAssumption
    <3>3. k \in 1 .. Len(Requests[c])
      BY <2>1, <3>2, LenProperties
    <3> QED
      BY <2>1, <3>1, <3>2, <3>3, LenProperties
<1>4. /\ \A x \in Clients : pc[x] = "idle"
      /\ Agreed
  BY <1>2 DEF RunsLocal, OneInv, AgreeInv, AllIdle, Busy
<1>5. Current' = m
  <2>1. pc'[c] # "idle" /\ \A x \in Clients : x # c => pc'[x] = "idle"
    BY <1>1, <1>2, <1>4, SessionTyping DEF RunsLocal
  <2> QED
    BY <2>1, CurrentIs
<1>6. /\ file[Current].data = file[m].data /\ Pointer(Current) = Pointer(m)
      /\ file[m] \in Copies /\ DOMAIN file = Nodes
  <2>1. Current \in Nodes
    BY <1>4, CurrentIs
  <2> QED
    BY <1>1, <1>3, <1>4, <2>1, SameView, CopyTyping
<1>7. CASE (o = "FOPEN" \/ file[m].open) /\ o # "FCLOSE"
  <2>1. /\ file' = [file EXCEPT ![m] = g]
        /\ ran' = ran \cup {<<m, c, k>>}
    BY <1>2, <1>7 DEF RunsLocal
  <2>2. v \in AllCommands /\ Done' = Done \cup {v}
    BY <1>3, <2>1, DoneIs
  <2>3. v \notin Done
    BY <1>1, <1>3 DEF Numbered, Done
  <2>4. file'[m] = g
    BY <1>3, <1>6, <2>1
  <2>5. /\ (file[Current].data)' = g.data /\ Pointer(Current)' = Seen(g)
        /\ file[Current].data = file[m].data /\ Pointer(Current) = Seen(file[m])
    BY <1>5, <1>6, <2>4 DEF Pointer, Seen
  <2>6. \/ Seen(g) = Seen(file[m]) /\ g.data = file[m].data
        \/ Seen(g) = Seen(file[m]) + 1 /\ g.data = file[m].data
        \/ Seen(g) = Seen(file[m]) + 1 /\ g.data = Written(Seen(file[m]), file[m].data, v)
    BY <1>3, <1>6, <1>7, EffectIs
  <2> HIDE DEF v, g, m, k
  <2> QED
    BY <2>2, <2>3, <2>5, <2>6, EffectStep
<1>8. CASE ~((o = "FOPEN" \/ file[m].open) /\ o # "FCLOSE")
  <2>1. file' = file /\ ran' = ran
    BY <1>2, <1>8 DEF RunsLocal
  <2>2. Done' = Done /\ (file[Current].data)' = file[m].data /\ Pointer(Current)' = Pointer(m)
    BY <1>5, <2>1 DEF Done, Pointer
  <2> QED
    BY <1>6, <2>2 DEF SeenSame
<1> QED
  BY <1>7, <1>8

LEMMA CloseOne ==
  ASSUME OneInv, NEW c \in Clients, CloseLocal(c), clean
  PROVE  One!Next \/ SeenSame
<1>1. TypeInv
  BY AgreeTyping DEF OneInv
<1> DEFINE m == Home[c]  k == num[c]  v == <<c, k>>
<1>2. /\ pc[c] = "close" /\ pc' = [pc EXCEPT ![c] = "respond"]
      /\ file' = [file EXCEPT ![m] = Close(file[m])]
      /\ ran' = IF file[m].open THEN ran \cup {<<m, c, k>>} ELSE ran
  BY DEF CloseLocal, SessionStep, Set
<1>3. /\ Current = m /\ \A x \in Clients : x # c => pc[x] = "idle"
  BY <1>2, OneBusy
<1>4. Current' = m
  <2>1. pc'[c] # "idle" /\ \A x \in Clients : x # c => pc'[x] = "idle"
    BY <1>1, <1>2, <1>3, SessionTyping
  <2> QED
    BY <2>1, CurrentIs
<1>5. /\ m \in Nodes /\ file[m] \in Copies /\ DOMAIN file = Nodes
  BY <1>1, ReplicaAssumption, CopyTyping
<1>6. file'[m].open = FALSE /\ file'[m].data = file[m].data
  BY <1>2, <1>5 DEF Close, Copies
<1>7. Pointer(Current)' = 0 /\ UNCHANGED (file[Current].data)
  BY <1>3, <1>4, <1>6 DEF Pointer
<1>8. CASE file[m].open
  <2>1. op[c] = "FCLOSE" /\ ~HasRun(m, c) /\ k \in DOMAIN Requests[c]
    BY <1>2 DEF OneInv, OneCommand
  <2>2. v \in AllCommands /\ Done' = Done \cup {v}
    BY <1>2, <1>5, <1>8, <2>1, DoneIs
  <2>3. v \notin Done
    BY <2>1 DEF HasRun, Done
  <2> HIDE DEF v
  <2> QED
    BY <1>7, <2>2, <2>3, EffectStep
<1>9. CASE ~file[m].open
  <2>1. Done' = Done /\ Pointer(Current) = 0
    BY <1>2, <1>3, <1>9 DEF Done, Pointer
  <2> QED
    BY <1>7, <2>1 DEF SeenSame
<1> QED
  BY <1>8, <1>9

LEMMA SessionOne ==
  ASSUME OneInv, NEW c \in Clients, Session(c), clean, ~CloseLocal(c)
  PROVE  SeenSame
<1>1. TypeInv
  BY AgreeTyping DEF OneInv
<1>2. /\ file' = file /\ ran' = ran
      /\ pc[c] # "idle" /\ \E to : pc' = [pc EXCEPT ![c] = to]
      /\ pc'[c] = "idle" => pc[c] = "respond"
  BY <1>1, SessionTyping DEF Session, SyncRequestBuilder, SpawnTask, GatherAnswers, Respond,
     SessionStep, Set, servers, history
<1>3. /\ Busy(c) /\ Current = Home[c] /\ \A x \in Clients : x # c => pc[x] = "idle"
  BY <1>2, OneBusy
<1>4. \A x \in Clients : x # c => pc'[x] = "idle"
  BY <1>1, <1>2, <1>3, SessionTyping
<1>5. Done' = Done /\ \A m : Pointer(m)' = Pointer(m)
  BY <1>2 DEF Done, Pointer
<1>6. CASE pc'[c] # "idle"
  <2>1. Current' = Home[c]
    BY <1>4, <1>6, CurrentIs
  <2> QED
    BY <1>2, <1>3, <1>5, <2>1 DEF SeenSame, Pointer
<1>7. CASE pc'[c] = "idle"
  <2>1. Agreed /\ Home[c] \in Nodes
    BY <1>2, <1>3, <1>7, ReplicaAssumption DEF Busy
  <2> PICK m \in Nodes : m = Current'
    BY <1>4, <1>7, CurrentIs
  <2>2. file[m].data = file[Home[c]].data /\ Pointer(m) = Pointer(Home[c])
    BY <1>1, <2>1, SameView
  <2>3. (file[Current].data)' = file[m].data /\ Pointer(Current)' = Pointer(m)
    BY <1>2 DEF Pointer
  <2> QED
    BY <1>3, <1>5, <2>2, <2>3 DEF SeenSame
<1> QED
  BY <1>6, <1>7

\* A peer repeats a command that has taken effect where it was sent.
LEMMA ExecuteOne ==
  ASSUME OneInv, NEW m \in Nodes, NEW r \in serving[m], ExecuteSync(m, r), clean
  PROVE  SeenSame
<1>1. TypeInv /\ Numbered
  BY AgreeTyping DEF OneInv, NumberedInv
<1>2. /\ r \in Pending(m) /\ r.client \in Clients /\ m # Home[r.client]
      /\ ran' = ran \cup {<<m, r.client, r.num>>}
  BY <1>1, ExecuteIs DEF Numbered
<1>3. ~Resting
  BY DEF Resting, Quiet
<1>4. PICK c \in Clients : pc[c] # "idle"
  BY <1>3 DEF OneInv, AgreeInv, AllIdle, Busy
<1>5. r.client = c
  BY <1>2, <1>4 DEF OneInv, OwnRequests
<1>6. Current = Home[c] /\ Home[c] \in Nodes
  BY <1>4, OneBusy, ReplicaAssumption
<1>7. pc' = pc /\ \E f : file' = [file EXCEPT ![m] = f]
  BY DEF ExecuteSync, Reply, Set
<1>8. Current' = Current
  BY <1>7 DEF Current, Idle
<1>9. file'[Home[c]] = file[Home[c]]
  BY <1>2, <1>5, <1>7
<1>10. Done' = Done
  BY <1>2, DoneIs
<1> QED
  BY <1>6, <1>8, <1>9, <1>10 DEF SeenSame, Pointer

LEMMA OneStep ==
  ASSUME FullMesh, OneInv, [Next]_vars, clean'
  PROVE  One!Next \/ SeenSame
<1>1. TypeInv
  BY AgreeTyping DEF OneInv
<1>2. clean
  BY DEF Next, RunLocal, Session, SyncRequestBuilder, SpawnTask, GatherAnswers,
     CloseLocal, Respond, Async, Connect, ConnectFails, Timeout, Peer, AcceptSync,
     ExecuteSync, RejectSync, history, vars
<1>3. ASSUME NEW c \in Clients, RunLocal(c)
      PROVE  One!Next \/ SeenSame
  BY <1>3, RunLocalOne
<1>4. ASSUME NEW c \in Clients, Session(c)
      PROVE  One!Next \/ SeenSame
  BY <1>2, <1>4, CloseOne, SessionOne
<1>5. ASSUME UNCHANGED <<file, pc, ran>>
      PROVE  SeenSame
  BY <1>5 DEF SeenSame, Current, Idle, Pointer, Done
<1>6. ASSUME NEW c \in Clients, NEW t \in Tasks(c), Async(c, t)
      PROVE  SeenSame
  <2>1. ~ConnectFails(c, t) /\ ~Timeout(c, t)
    BY DEF ConnectFails, Timeout
  <2>2. Connect(c, t)
    BY <1>6, <2>1 DEF Async
  <2> QED
    BY <1>5, <2>2 DEF Connect
<1>7. ASSUME NEW m \in Nodes, AcceptSync(m)
      PROVE  SeenSame
  BY <1>5, <1>7 DEF AcceptSync, history
<1>8. ASSUME NEW m \in Nodes, NEW r \in serving[m], ExecuteSync(m, r)
      PROVE  SeenSame
  BY <1>2, <1>8, ExecuteOne
<1>9. ASSUME NEW m \in Nodes, NEW r \in serving[m], RejectSync(m, r)
      PROVE  FALSE
  BY <1>9 DEF RejectSync
<1>10. CASE UNCHANGED vars
  BY <1>5, <1>10 DEF vars, servers, history
<1> QED
  BY <1>3, <1>4, <1>6, <1>7, <1>8, <1>9, <1>10 DEF Next, Peer

LEMMA OneBegins == Init => One!Init
<1> SUFFICES ASSUME Init PROVE One!Init
  OBVIOUS
<1>1. \A x \in Clients : pc[x] = "idle"
  BY DEF Init
<1> PICK m \in Nodes : m = Current
  BY <1>1, CurrentIs
<1>2. file[m].data = Content /\ file[m].pos = 0
  BY DEF Init
<1>3. Pointer(m) = 0
  BY <1>2 DEF Pointer
<1>4. Done = {}
  BY DEF Init, Done
<1> QED
  BY <1>2, <1>3, <1>4 DEF One!Init

\* The servers together implement OneFile: as long as commands do not overlap
\* and nothing fails or times out, FileCallback with HandleSync makes what the
\* clients of all servers see one file with one pointer, each command taking
\* effect once, at the step in which its own server executes it.
THEOREM ReplicasActAsOneFile ==
  ASSUME FullMesh
  PROVE  Spec => ActsAsOneFile
<1>1. OneInv /\ [Next]_vars => OneInv'
  BY OneInvStep
<1>2. OneInv /\ [Next]_vars =>
        [clean' => One!Next]_<<file[Current].data, Pointer(Current), Done>>
  BY OneStep DEF SeenSame
<1> QED
  BY <1>1, <1>2, OneInvInit, OneBegins, PTL DEF Spec, ActsAsOneFile
=============================================================================
