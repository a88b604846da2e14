--------------------------- MODULE PoolSockets_proofs ---------------------------
(***************************************************************************)
(* Sockets, SSocksRef and ActiveThreads in ThreadPool: what ties the list  *)
(* and the count to the workers that serve, for any number of them.        *)
(***************************************************************************)
EXTENDS ThreadPool_proofs

-----------------------------------------------------------------------------
(* SSocksRef lists every session, restarts and double owners included.     *)

InSession(w) == pc[w] \in {"active", "notify", "session", "unref"}
Listed(f) == {w \in Workers : fd[w] = f /\ InSession(w)}

\* Only addSScokRef brings a worker into a session, and nothing else but
\* removeSScokRef changes the list.
LEMMA SessionFrame ==
  ASSUME TypeOK, [Next]_vars,
         \A w \in Workers : ~addSScokRef(w) /\ ~removeSScokRef(w)
  PROVE  /\ SSocksRef' = SSocksRef
         /\ \A w \in Workers : InSession(w)' => InSession(w) /\ fd'[w] = fd[w]
<1> USE DEF InSession, Goto
<1>1. CASE \E w \in Workers : Quit(w) \/ Serve(w)
  <2> SUFFICES ASSUME NEW w \in Workers, Quit(w) \/ Serve(w)
               PROVE  /\ SSocksRef' = SSocksRef
                      /\ \A v \in Workers :
                           InSession(v)' => InSession(v) /\ fd'[v] = fd[v]
    BY <1>1
  <2>1. CASE Local(w)
    BY <2>1 DEF Local, Top, TryQuitting, SwitchQuitting, TestFull, ClearSwitch,
       PollThrows, PollReady, EndSession, SessionThrows, TestKill, ReadCount,
       TestIdle, TypeOK, sockets, locals
  <2>2. CASE Socket(w)
    BY <2>2 DEF Socket, Accept, AcceptFails, CloseSocket, ShutdownSocket, TypeOK,
       sockets, locals
  <2>3. CASE Counting(w)
    BY <2>3 DEF Counting, CountQuitting, Uncount, ResetQuitting, SetActive,
       NotifyMain, notActive, TypeOK, sockets, locals
  <2> QED
    BY <2>1, <2>2, <2>3, WorkerCases
<1>2. CASE Main
  BY <1>2 DEF Main, MainLoop, MainStep, CheckCount, CheckActive, trySighupFlag,
     CheckLimit, MainSleeps, MainWakesSpuriously, SpawnWorker, ThreadCreated,
     SpawningDone, TypeOK, sockets, locals
<1>3. CASE HandleSIGHUP
  BY <1>3 DEF HandleSIGHUP, ReceiveSIGHUP, CloseMaster, ListSSocks,
     CloseSSock, ResetThreadsCount, ResetActiveThreads, StopKillIdles, StartServer, setSigHupFlag, NotifySelf,
     SignalStep, TypeOK, sockets, locals
<1>4. CASE (\E s \in Servers : Connect(s)) \/ UNCHANGED vars
  BY <1>4 DEF Connect, vars, sockets, locals
<1> QED
  BY <1>1, <1>2, <1>3, <1>4 DEF Next

LEMMA StepListed ==
  ASSUME IsFiniteSet(Workers), TypeOK, SessionsListed, [Next]_vars
  PROVE  SessionsListed'
<1> SUFFICES ASSUME NEW f \in Fds
             PROVE  SSocksRef'[f] >= Cardinality(Listed(f)')
  BY DEF SessionsListed, Listed, InSession
<1>1. SSocksRef[f] >= Cardinality(Listed(f))
  BY DEF SessionsListed, Listed, InSession
<1>2. /\ IsFiniteSet(Listed(f)) /\ Cardinality(Listed(f)) \in Nat
      /\ SSocksRef[f] \in Nat /\ f # NoFd
  BY FS_Subset, FS_CardinalityType, PoolAssumption DEF Listed, TypeOK
<1>3. ASSUME NEW w \in Workers, addSScokRef(w)
      PROVE  SSocksRef'[f] >= Cardinality(Listed(f)')
  <2>1. /\ pc[w] = "ref" /\ fd' = fd
        /\ pc' = [pc EXCEPT ![w] = IF fd[w] = NoFd THEN "kill" ELSE "active"]
        /\ SSocksRef'[f] = SSocksRef[f] + (IF f = fd[w] THEN 1 ELSE 0)
    BY <1>3 DEF addSScokRef, Goto, locals
  <2>2. CASE f = fd[w]
    <3>1. w \notin Listed(f) /\ Listed(f)' = Listed(f) \cup {w}
      BY <1>2, <2>1, <2>2 DEF Listed, InSession, TypeOK
    <3>2. Cardinality(Listed(f) \cup {w}) = Cardinality(Listed(f)) + 1
      BY <1>2, <3>1, FS_AddElement
    <3> QED
      BY <1>1, <1>2, <2>1, <2>2, <3>1, <3>2
  <2>3. CASE f # fd[w]
    <3>1. Listed(f)' = Listed(f)
      BY <2>1, <2>3 DEF Listed, InSession, TypeOK
    <3> QED
      BY <1>1, <1>2, <2>1, <2>3, <3>1
  <2> QED
    BY <2>2, <2>3
<1>4. ASSUME NEW w \in Workers, removeSScokRef(w)
      PROVE  SSocksRef'[f] >= Cardinality(Listed(f)')
  <2>1. /\ pc[w] = "unref" /\ fd' = fd
        /\ pc' = [pc EXCEPT ![w] = "close"]
        /\ SSocksRef' = [SSocksRef EXCEPT ![fd[w]] = IF @ > 0 THEN @ - 1 ELSE 0]
    BY <1>4 DEF removeSScokRef, Goto, locals
  <2>2. CASE f = fd[w]
    <3>1. w \in Listed(f) /\ Listed(f)' = Listed(f) \ {w}
      BY <2>1, <2>2 DEF Listed, InSession, TypeOK
    <3>2. Cardinality(Listed(f) \ {w}) = Cardinality(Listed(f)) - 1
      BY <1>2, <3>1, FS_RemoveElement
    <3>3. Listed(f)' = Listed(f) \ {w} /\ Cardinality(Listed(f) \ {w}) \in Nat
      BY <1>2, <3>1, FS_Subset, FS_CardinalityType
    <3>4. SSocksRef'[f] = SSocksRef[f] - 1
      BY <1>1, <1>2, <2>1, <2>2, <3>2, <3>3 DEF TypeOK
    <3> QED
      BY <1>1, <1>2, <3>2, <3>3, <3>4
  <2>3. CASE f # fd[w]
    <3>1. Listed(f)' = Listed(f)
      BY <2>1, <2>3 DEF Listed, InSession, TypeOK
    <3>2. SSocksRef'[f] = SSocksRef[f]
      BY <2>1, <2>3 DEF TypeOK
    <3> QED
      BY <1>1, <3>1, <3>2
  <2> QED
    BY <2>2, <2>3
<1>5. ASSUME \A w \in Workers : ~addSScokRef(w) /\ ~removeSScokRef(w)
      PROVE  SSocksRef'[f] >= Cardinality(Listed(f)')
  <2>1. /\ SSocksRef' = SSocksRef
        /\ \A w \in Workers : InSession(w)' => InSession(w) /\ fd'[w] = fd[w]
    BY <1>5, SessionFrame
  <2>2. Listed(f)' \subseteq Listed(f)
    BY <2>1 DEF Listed
  <2>3. Cardinality(Listed(f)') <= Cardinality(Listed(f)) /\ Cardinality(Listed(f)') \in Nat
    BY <1>2, <2>2, FS_Subset, FS_CardinalityType
  <2> QED
    BY <1>1, <1>2, <2>1, <2>3
<1> QED
  BY <1>3, <1>4, <1>5

\* SSocksRef lists a socket at least once for each session on it, whatever
\* restarts do to the sockets: HandleSIGHUP and HandleSIGQUIT miss none.
THEOREM SessionsAreListed == IsFiniteSet(Workers) => (Spec => []SessionsListed)
<1> SUFFICES ASSUME IsFiniteSet(Workers)
             PROVE  Spec => []SessionsListed
  OBVIOUS
<1>1. Init => SessionsListed
  <2> SUFFICES ASSUME Init, NEW f \in Fds
               PROVE  SSocksRef[f] >= Cardinality(Listed(f))
    BY DEF SessionsListed, Listed, InSession
  <2>1. SSocksRef[f] = 0
    BY DEF Init
  <2>2. Listed(f) = {}
    BY Zenon DEF Init, Listed, InSession
  <2> QED
    BY <2>1, <2>2, FS_EmptySet
<1>2. TypeOK /\ SessionsListed /\ [Next]_vars => SessionsListed'
  BY StepListed
<1> QED
  BY <1>1, <1>2, TypeCorrect, PTL DEF Spec

-----------------------------------------------------------------------------
(* Until a restart, every open socket has one owner at most.               *)

\* The worker is between accept and close on a socket.
Owns(w) == pc[w] \in {"ref"} \cup Serving /\ fd[w] # NoFd

\* A worker has a socket exactly while it serves (when accept failed, it
\* goes through addSScokRef without one; shutdown comes after close).
ServingHasSocket ==
  \A w \in Workers :
    /\ fd[w] # NoFd => pc[w] \in {"ref", "shutdown"} \cup Serving
    /\ pc[w] \in Serving \cup {"shutdown"} => fd[w] # NoFd

SoleOwner ==
  \A v, w \in Workers : Owns(v) /\ Owns(w) /\ fd[v] = fd[w] => v = w

\* The owner keeps the socket open and has it on the list once, from
\* addSScokRef to removeSScokRef.
OwnerListed ==
  \A w \in Workers : Owns(w) =>
    /\ sock[fd[w]] # "closed"
    /\ SSocksRef[fd[w]] = IF pc[w] \in {"ref", "close"} THEN 0 ELSE 1

OpenListed == \A f \in Fds : SSocksRef[f] > 0 => sock[f] # "closed"

SocketState == ServingHasSocket /\ SoleOwner /\ OwnerListed /\ OpenListed
SocketInv == hups = 0 => SocketState

\* The steps that change who has a socket, or which sockets are listed.
Transfer(w) == Socket(w) \/ SessionThrows(w)

LEMMA OwnerFrame ==
  ASSUME TypeOK, ServingHasSocket, ~HandleSIGHUP, [Next]_vars,
         \A w \in Workers : ~Transfer(w)
  PROVE  /\ SSocksRef' = SSocksRef /\ sock' = sock /\ fd' = fd
         /\ \A w \in Workers :
              \/ pc'[w] = pc[w]
              \/ InSession(w) /\ InSession(w)'
              \/ fd[w] = NoFd /\ pc'[w] \notin {"shutdown"} \cup Serving
<1> USE DEF InSession, Goto, Serving, Transfer
<1>1. CASE \E w \in Workers : Quit(w) \/ Serve(w)
  <2> PICK w \in Workers : Quit(w) \/ Serve(w)
    BY <1>1
  <2> SUFFICES /\ SSocksRef' = SSocksRef /\ sock' = sock /\ fd' = fd
               /\ \A v \in Workers : v # w => pc'[v] = pc[v]
               /\ \/ pc'[w] = pc[w]
                  \/ InSession(w) /\ InSession(w)'
                  \/ fd[w] = NoFd /\ pc'[w] \notin {"shutdown"} \cup Serving
    OBVIOUS
  <2>1. CASE EndSession(w) \/ SetActive(w) \/ NotifyMain(w)
    BY <2>1 DEF EndSession, SetActive, NotifyMain, TypeOK, sockets, locals
  <2>2. CASE Local(w) /\ ~EndSession(w)
    BY <2>2 DEF Local, Top, TryQuitting, SwitchQuitting, TestFull, ClearSwitch,
       PollThrows, PollReady, TestKill, ReadCount, TestIdle, ServingHasSocket,
       TypeOK, sockets, locals
  <2>3. CASE Counting(w) /\ ~SetActive(w) /\ ~NotifyMain(w)
    BY <2>3 DEF Counting, CountQuitting, Uncount, ResetQuitting, notActive,
       ServingHasSocket, TypeOK, sockets, locals
  <2> QED
    BY <2>1, <2>2, <2>3, WorkerCases
<1>2. CASE Main
  BY <1>2 DEF Main, MainLoop, MainStep, CheckCount, CheckActive, trySighupFlag,
     CheckLimit, MainSleeps, MainWakesSpuriously, SpawnWorker, ThreadCreated,
     SpawningDone, ServingHasSocket, TypeOK, sockets, locals
<1>3. CASE (\E s \in Servers : Connect(s)) \/ UNCHANGED vars
  BY <1>3 DEF Connect, vars, sockets, locals
<1> QED
  BY <1>1, <1>2, <1>3 DEF Next

LEMMA FrameState ==
  ASSUME TypeOK, SocketState, ~HandleSIGHUP, [Next]_vars,
         \A w \in Workers : ~Transfer(w)
  PROVE  SocketState'
<1>1. /\ SSocksRef' = SSocksRef /\ sock' = sock /\ fd' = fd
      /\ \A w \in Workers :
           \/ pc'[w] = pc[w]
           \/ InSession(w) /\ InSession(w)'
           \/ fd[w] = NoFd /\ pc'[w] \notin {"shutdown"} \cup Serving
  BY OwnerFrame DEF SocketState
<1>2. ASSUME NEW w \in Workers
      PROVE  /\ Owns(w)' <=> Owns(w)
             /\ Owns(w) => (pc'[w] \in {"ref", "close"} <=> pc[w] \in {"ref", "close"})
             /\ fd'[w] # NoFd => pc'[w] \in {"ref", "shutdown"} \cup Serving
             /\ pc'[w] \in Serving \cup {"shutdown"} => fd'[w] # NoFd
  BY <1>1 DEF SocketState, ServingHasSocket, Owns, InSession, Serving
<1> QED
  BY <1>1, <1>2 DEF SocketState, ServingHasSocket, SoleOwner, OwnerListed, OpenListed

\* A step that gives a socket away: the others keep theirs.
LEMMA TransferState ==
  ASSUME TypeOK, SocketState, NEW w \in Workers, Transfer(w)
  PROVE  SocketState'
<1> USE DEF SocketState, ServingHasSocket, SoleOwner, OwnerListed, OpenListed, Owns,
        Serving, Goto
<1>0. /\ pc \in [Workers -> Steps] /\ fd \in [Workers -> Fds \cup {NoFd}]
      /\ SSocksRef \in [Fds -> Nat] /\ sock \in [Fds -> {"closed", "open", "shut"}]
      /\ NoFd \notin Fds
  BY PoolAssumption DEF TypeOK
<1>1. CASE Accept(w)
  <2>1. PICK f \in Fds : /\ sock[f] = "closed"
                         /\ sock' = [sock EXCEPT ![f] = "open"]
                         /\ fd' = [fd EXCEPT ![w] = f]
    BY <1>1 DEF Accept
  <2>2. pc[w] = "accept" /\ pc' = [pc EXCEPT ![w] = "ref"] /\ SSocksRef' = SSocksRef
    BY <1>1 DEF Accept
  <2>3. SSocksRef[f] = 0 /\ \A v \in Workers : Owns(v) => fd[v] # f
    BY <1>0, <2>1
  <2> QED
    BY <1>0, <2>1, <2>2, <2>3
<1>2. CASE AcceptFails(w)
  BY <1>0, <1>2 DEF AcceptFails, sockets
<1>3. CASE addSScokRef(w)
  <2>1. /\ pc[w] = "ref" /\ fd' = fd /\ sock' = sock
        /\ pc' = [pc EXCEPT ![w] = IF fd[w] = NoFd THEN "kill" ELSE "active"]
        /\ \A f \in Fds : SSocksRef'[f] = SSocksRef[f] + (IF f = fd[w] THEN 1 ELSE 0)
    BY <1>3 DEF addSScokRef, locals
  <2>2. CASE fd[w] = NoFd
    BY <1>0, <2>1, <2>2
  <2>3. CASE fd[w] # NoFd
    BY <1>0, <2>1, <2>3
  <2> QED
    BY <2>2, <2>3
<1>4. CASE removeSScokRef(w)
  <2>1. /\ pc[w] = "unref" /\ fd' = fd /\ sock' = sock
        /\ pc' = [pc EXCEPT ![w] = "close"]
        /\ SSocksRef' = [SSocksRef EXCEPT ![fd[w]] = IF @ > 0 THEN @ - 1 ELSE 0]
    BY <1>4 DEF removeSScokRef, locals
  <2>2. fd[w] \in Fds /\ SSocksRef[fd[w]] = 1
    BY <1>0, <2>1
  <2>3. SSocksRef' = [SSocksRef EXCEPT ![fd[w]] = 0]
    BY <1>0, <2>1, <2>2
  <2> QED
    BY <1>0, <2>1, <2>2, <2>3
<1>5. CASE CloseSocket(w)
  <2>1. /\ pc[w] = "close" /\ fd' = fd /\ SSocksRef' = SSocksRef /\ fd[w] \in Fds
        /\ pc' = [pc EXCEPT ![w] = "shutdown"]
        /\ sock' = [sock EXCEPT ![fd[w]] = "closed"]
    BY <1>0, <1>5 DEF CloseSocket, locals
  <2> QED
    BY <1>0, <2>1
<1>6. CASE ShutdownSocket(w)
  <2>1. /\ pc[w] = "shutdown" /\ SSocksRef' = SSocksRef
        /\ pc' = [pc EXCEPT ![w] = "inactive"] /\ fd' = [fd EXCEPT ![w] = NoFd]
        /\ \A f \in Fds : sock'[f] = "closed" <=> sock[f] = "closed"
    BY <1>0, <1>6 DEF ShutdownSocket
  <2> QED
    BY <1>0, <2>1
<1>7. CASE SessionThrows(w)
  <2>1. /\ pc[w] = "session" /\ SSocksRef' = SSocksRef /\ sock' = sock
        /\ pc' = [pc EXCEPT ![w] = "kill"] /\ fd' = [fd EXCEPT ![w] = NoFd]
    BY <1>7 DEF SessionThrows, sockets
  <2> QED
    BY <1>0, <2>1
<1> QED
  BY <1>1, <1>2, <1>3, <1>4, <1>5, <1>6, <1>7 DEF Transfer, Socket

LEMMA InitSockets == Init => SocketState /\ RunInv
<1> SUFFICES ASSUME Init
             PROVE  SocketState /\ RunInv
  OBVIOUS
<1>1. /\ \A w \in Workers : pc[w] = "none" /\ fd[w] = NoFd
      /\ \A f \in Fds : SSocksRef[f] = 0
  BY Zenon DEF Init
<1>2. RunInv
  BY Zenon DEF Init, RunInv
<1> QED
  BY <1>1, <1>2 DEF SocketState, ServingHasSocket, SoleOwner, OwnerListed, OpenListed,
     Owns, Serving

LEMMA StepSockets ==
  ASSUME TypeOK, RunInv, SocketInv, [Next]_vars
  PROVE  SocketInv'
<1> SUFFICES ASSUME hups' = 0
             PROVE  SocketState'
  BY DEF SocketInv
<1>1. ~HandleSIGHUP /\ SocketState
  BY BeforeRestart DEF SocketInv
<1> QED
  BY <1>1, FrameState, TransferState

LEMMA SocketsKept == Spec => [](TypeOK /\ RunInv /\ SocketInv)
<1>1. Init => RunInv /\ SocketInv
  BY InitSockets DEF SocketInv
<1>2. TypeOK /\ RunInv /\ SocketInv /\ [Next]_vars => RunInv' /\ SocketInv'
  BY StepRun, StepSockets
<1> QED
  BY <1>1, <1>2, TypeCorrect, PTL DEF Spec

\* Until a restart, no socket on the list is closed: what HandleSIGHUP closes
\* by the list is not a descriptor that belongs to somebody else by then.
THEOREM ListedAreOpen == Spec => []RefsOpen
<1>1. SocketInv => RefsOpen
  BY DEF SocketInv, SocketState, OpenListed, RefsOpen
<1> QED
  BY <1>1, SocketsKept, PTL
-----------------------------------------------------------------------------
(* ActiveThreads counts who serves, and each session that threw.           *)

Active == {w \in Workers : pc[w] \in Counted}
ActiveCounted == ActiveThreads = Cardinality(Active) + Cardinality(Orphans)

\* Besides setActive and notActive, only an exception takes a worker out of
\* those counted, and that leaves the count alone.
LEMMA ActiveFrame ==
  ASSUME TypeOK, ~HandleSIGHUP, [Next]_vars,
         \A w \in Workers : ~SetActive(w) /\ ~notActive(w) /\ ~SessionThrows(w)
  PROVE  ActiveThreads' = ActiveThreads /\ Active' = Active
<1> SUFFICES /\ ActiveThreads' = ActiveThreads
             /\ \A w \in Workers : pc'[w] \in Counted <=> pc[w] \in Counted
  BY DEF Active
<1> USE DEF Counted, Goto
<1>1. CASE \E w \in Workers : Quit(w) \/ Serve(w)
  <2> PICK w \in Workers : Quit(w) \/ Serve(w)
    BY <1>1
  <2>1. CASE Local(w)
    BY <2>1 DEF Local, Top, TryQuitting, SwitchQuitting, TestFull, ClearSwitch,
       PollThrows, PollReady, EndSession, TestKill, ReadCount, TestIdle, TypeOK,
       counters
  <2>2. CASE Socket(w)
    BY <2>2 DEF Socket, Accept, AcceptFails, addSScokRef, removeSScokRef,
       CloseSocket, ShutdownSocket, TypeOK, counters
  <2>3. CASE Counting(w)
    BY <2>3 DEF Counting, CountQuitting, Uncount, ResetQuitting, NotifyMain,
       TypeOK, counters
  <2> QED
    BY <2>1, <2>2, <2>3, WorkerCases
<1>2. CASE Main
  BY <1>2 DEF Main, MainLoop, MainStep, CheckCount, CheckActive, trySighupFlag,
     CheckLimit, MainSleeps, MainWakesSpuriously, SpawnWorker, ThreadCreated,
     SpawningDone, TypeOK, counters
<1>3. CASE (\E s \in Servers : Connect(s)) \/ UNCHANGED vars
  BY <1>3 DEF Connect, vars, counters
<1> QED
  BY <1>1, <1>2, <1>3 DEF Next

LEMMA OrphansOwned ==
  Orphans = {f \in Fds : sock[f] # "closed" /\ \A w \in Workers : Owns(w) => fd[w] # f}
BY PoolAssumption DEF Orphans, Owns

\* Only an exception leaves an open socket without an owner.
LEMMA OrphansFrame ==
  ASSUME TypeOK, SocketState, ~HandleSIGHUP, [Next]_vars,
         \A w \in Workers : ~SessionThrows(w)
  PROVE  Orphans' = Orphans
<1> USE DEF Owns, Serving, Goto
<1>0. /\ pc \in [Workers -> Steps] /\ fd \in [Workers -> Fds \cup {NoFd}]
      /\ sock \in [Fds -> {"closed", "open", "shut"}] /\ NoFd \notin Fds
      /\ SoleOwner /\ OwnerListed /\ ServingHasSocket
  BY PoolAssumption DEF TypeOK, SocketState
<1> SUFFICES ASSUME NEW f \in Fds
             PROVE  (f \in Orphans)' <=> f \in Orphans
  BY DEF Orphans
<1> DEFINE Free == sock[f] # "closed" /\ \A w \in Workers : Owns(w) => fd[w] # f
<1>1. (f \in Orphans <=> Free) /\ ((f \in Orphans)' <=> Free')
  BY <1>0 DEF Orphans
<1>2. CASE \A w \in Workers : ~Transfer(w)
  <2>1. /\ sock' = sock /\ fd' = fd
        /\ \A w \in Workers :
             \/ pc'[w] = pc[w]
             \/ InSession(w) /\ InSession(w)'
             \/ fd[w] = NoFd /\ pc'[w] \notin {"shutdown"} \cup Serving
    BY <1>0, <1>2, OwnerFrame
  <2>2. \A w \in Workers : Owns(w)' <=> Owns(w)
    BY <1>0, <2>1 DEF InSession
  <2> QED
    BY <1>1, <2>1, <2>2
<1>3. ASSUME NEW w \in Workers, Socket(w)
      PROVE  Free' <=> Free
  <2>1. CASE Accept(w)
    <3>1. PICK g \in Fds : /\ sock[g] = "closed"
                           /\ sock' = [sock EXCEPT ![g] = "open"]
                           /\ fd' = [fd EXCEPT ![w] = g]
      BY <2>1 DEF Accept
    <3>2. pc[w] = "accept" /\ pc' = [pc EXCEPT ![w] = "ref"]
      BY <2>1 DEF Accept
    <3>3. CASE f = g
      <4>1. ~Free
        BY <3>1, <3>3
      <4>2. Owns(w)' /\ fd'[w] = f
        BY <1>0, <3>1, <3>2, <3>3
      <4> QED
        BY <4>1, <4>2
    <3>4. CASE f # g
      <4>1. \A v \in Workers : Owns(v)' /\ fd'[v] = f <=> Owns(v) /\ fd[v] = f
        BY <1>0, <3>1, <3>2, <3>4
      <4> QED
        BY <1>0, <3>1, <3>4, <4>1
    <3> QED
      BY <3>3, <3>4
  <2>2. CASE AcceptFails(w) \/ addSScokRef(w) \/ removeSScokRef(w)
    <3>1. sock' = sock /\ fd' = fd
      BY <2>2 DEF AcceptFails, addSScokRef, removeSScokRef, sockets, locals
    <3>2. \A v \in Workers : Owns(v)' <=> Owns(v)
      BY <1>0, <2>2, <3>1 DEF AcceptFails, addSScokRef, removeSScokRef,
         ServingHasSocket
    <3> QED
      BY <3>1, <3>2
  <2>3. CASE CloseSocket(w)
    <3>1. /\ pc[w] = "close" /\ fd' = fd
          /\ pc' = [pc EXCEPT ![w] = "shutdown"]
          /\ sock' = [sock EXCEPT ![fd[w]] = "closed"]
      BY <2>3 DEF CloseSocket, locals
    <3>2. Owns(w)
      BY <1>0, <3>1 DEF ServingHasSocket
    <3>3. CASE f = fd[w]
      BY <1>0, <3>1, <3>2, <3>3
    <3>4. CASE f # fd[w]
      BY <1>0, <3>1, <3>4
    <3> QED
      BY <3>3, <3>4
  <2>4. CASE ShutdownSocket(w)
    <3>1. /\ pc[w] = "shutdown" /\ pc' = [pc EXCEPT ![w] = "inactive"]
          /\ fd' = [fd EXCEPT ![w] = NoFd]
          /\ sock'[f] = "closed" <=> sock[f] = "closed"
      BY <1>0, <2>4 DEF ShutdownSocket
    <3> QED
      BY <1>0, <3>1
  <2> QED
    BY <1>3, <2>1, <2>2, <2>3, <2>4 DEF Socket
<1> QED
  BY <1>1, <1>2, <1>3 DEF Transfer

\* An exception moves the session from one set to the other.
LEMMA ThrowOrphans ==
  ASSUME TypeOK, SocketState, NEW w \in Workers, SessionThrows(w)
  PROVE  /\ w \in Active /\ Active' = Active \ {w}
         /\ fd[w] \in Fds \ Orphans /\ Orphans' = Orphans \cup {fd[w]}
<1>1. /\ pc[w] = "session" /\ sock' = sock
      /\ pc' = [pc EXCEPT ![w] = "kill"] /\ fd' = [fd EXCEPT ![w] = NoFd]
  BY DEF SessionThrows, sockets, Goto
<1>2. /\ pc \in [Workers -> Steps] /\ fd \in [Workers -> Fds \cup {NoFd}]
      /\ NoFd \notin Fds
      /\ SoleOwner /\ OwnerListed /\ ServingHasSocket
  BY PoolAssumption DEF TypeOK, SocketState
<1>3. w \in Active /\ Active' = Active \ {w}
  BY <1>1, <1>2 DEF Active, Counted
<1>4. Owns(w) /\ fd[w] \in Fds /\ sock[fd[w]] # "closed"
  BY <1>1, <1>2 DEF ServingHasSocket, OwnerListed, Owns, Serving
<1>5. \A v \in Workers : Owns(v)' <=> Owns(v) /\ v # w
  BY <1>1, <1>2 DEF Owns, Serving
<1>6. \A f \in Fds : (f \in Orphans)' <=> f \in Orphans \/ f = fd[w]
  <2> TAKE f \in Fds
  <2>1. /\ f \in Orphans <=>
             sock[f] # "closed" /\ \A v \in Workers : Owns(v) => fd[v] # f
        /\ (f \in Orphans)' <=>
             sock'[f] # "closed" /\ \A v \in Workers : Owns(v)' => fd'[v] # f
    BY <1>2 DEF Orphans, Owns
  <2>2. \A v \in Workers : v # w => fd'[v] = fd[v]
    BY <1>1, <1>2
  <2>3. CASE f = fd[w]
    BY <1>1, <1>2, <1>4, <1>5, <2>1, <2>2, <2>3 DEF SoleOwner
  <2>4. CASE f # fd[w]
    BY <1>1, <1>5, <2>1, <2>2, <2>4
  <2> QED
    BY <2>3, <2>4
<1> QED
  BY <1>3, <1>4, <1>6, OrphansOwned DEF Orphans

LEMMA StepActive ==
  ASSUME IsFiniteSet(Workers), IsFiniteSet(Fds), TypeOK, SocketState,
         ActiveCounted, ~HandleSIGHUP, [Next]_vars
  PROVE  ActiveCounted'
<1>1. /\ IsFiniteSet(Active) /\ Cardinality(Active) \in Nat
      /\ IsFiniteSet(Orphans) /\ Cardinality(Orphans) \in Nat
      /\ ActiveThreads \in Int
  BY FS_Subset, FS_CardinalityType DEF Active, Orphans, TypeOK
<1>2. ActiveThreads = Cardinality(Active) + Cardinality(Orphans)
  BY DEF ActiveCounted
<1>3. ASSUME NEW w \in Workers, SetActive(w)
      PROVE  ActiveCounted'
  <2>1. /\ pc[w] = "active" /\ pc' = [pc EXCEPT ![w] = "notify"]
        /\ ActiveThreads' = ActiveThreads + 1
        /\ sock' = sock /\ fd' = fd
    BY <1>3 DEF SetActive, Goto, sockets, locals
  <2>2. w \notin Active /\ Active' = Active \cup {w}
    BY <2>1 DEF Active, Counted, TypeOK
  <2>3. Orphans' = Orphans
    BY <2>1 DEF Orphans, Serving, TypeOK
  <2>4. Cardinality(Active \cup {w}) = Cardinality(Active) + 1
    BY <1>1, <2>2, FS_AddElement
  <2> QED
    BY <1>1, <1>2, <2>1, <2>2, <2>3, <2>4 DEF ActiveCounted
<1>4. ASSUME NEW w \in Workers, notActive(w)
      PROVE  ActiveCounted'
  <2>1. /\ pc[w] = "inactive" /\ pc' = [pc EXCEPT ![w] = "kill"]
        /\ ActiveThreads' = ActiveThreads - 1
        /\ sock' = sock /\ fd' = fd
    BY <1>4 DEF notActive, Goto, sockets, locals
  <2>2. w \in Active /\ Active' = Active \ {w}
    BY <2>1 DEF Active, Counted, TypeOK
  <2>3. Orphans' = Orphans
    BY <2>1 DEF Orphans, Serving, TypeOK
  <2>4. Cardinality(Active \ {w}) = Cardinality(Active) - 1
    BY <1>1, <2>2, FS_RemoveElement
  <2> QED
    BY <1>1, <1>2, <2>1, <2>2, <2>3, <2>4 DEF ActiveCounted
<1>5. ASSUME NEW w \in Workers, SessionThrows(w)
      PROVE  ActiveCounted'
  <2>1. /\ w \in Active /\ Active' = Active \ {w}
        /\ fd[w] \notin Orphans /\ Orphans' = Orphans \cup {fd[w]}
    BY <1>5, ThrowOrphans
  <2>2. Cardinality(Active \ {w}) = Cardinality(Active) - 1
    BY <1>1, <2>1, FS_RemoveElement
  <2>3. Cardinality(Orphans \cup {fd[w]}) = Cardinality(Orphans) + 1
    BY <1>1, <2>1, FS_AddElement
  <2>4. ActiveThreads' = ActiveThreads
    BY <1>5 DEF SessionThrows, counters
  <2> QED
    BY <1>1, <1>2, <2>1, <2>2, <2>3, <2>4 DEF ActiveCounted
<1>6. CASE \A w \in Workers : ~SetActive(w) /\ ~notActive(w) /\ ~SessionThrows(w)
  BY <1>2, <1>6, ActiveFrame, OrphansFrame DEF ActiveCounted
<1> QED
  BY <1>3, <1>4, <1>5, <1>6

\* Until a restart, ActiveThreads is the number of workers that serve and of
\* sessions that an exception ended: no other interleaving leaks a count, by
\* which main and the workers decide to create and to quit.
THEOREM ActiveIsExact ==
  IsFiniteSet(Workers) /\ IsFiniteSet(Fds) => (Spec => []ActiveExact)
<1> SUFFICES ASSUME IsFiniteSet(Workers), IsFiniteSet(Fds)
             PROVE  Spec => []ActiveExact
  OBVIOUS
<1>1. Init => ActiveExact
  <2> SUFFICES ASSUME Init
               PROVE  ActiveCounted
    BY DEF ActiveExact, ActiveCounted, Active
  <2>1. ActiveThreads = 0 /\ \A w \in Workers : pc[w] = "none"
    BY Zenon DEF Init
  <2>2. \A f \in Fds : sock[f] = "closed"
    BY Zenon DEF Init
  <2>3. Active = {} /\ Orphans = {}
    BY <2>1, <2>2 DEF Active, Orphans, Counted
  <2> QED
    BY <2>1, <2>3, FS_EmptySet DEF ActiveCounted
<1>2. TypeOK /\ RunInv /\ SocketInv /\ ActiveExact /\ [Next]_vars => ActiveExact'
  <2> SUFFICES ASSUME TypeOK, RunInv, SocketInv, ActiveExact, [Next]_vars, hups' = 0
               PROVE  ActiveCounted'
    BY DEF ActiveExact, ActiveCounted, Active
  <2>1. ~HandleSIGHUP /\ SocketState /\ ActiveCounted
    BY BeforeRestart DEF SocketInv, ActiveExact, ActiveCounted, Active
  <2> QED
    BY <2>1, StepActive
<1> QED
  BY <1>1, <1>2, SocketsKept, PTL DEF Spec

-----------------------------------------------------------------------------
(* One worker for each connection.                                         *)

LEMMA ServesIs ==
  /\ Serves \subseteq Workers \X Fds
  /\ \A w \in Workers, f \in Fds : <<w, f>> \in Serves <=> Owns(w) /\ fd[w] = f
BY PoolAssumption DEF Serves, Owns

\* A set of pairs is known by its pairs.
LEMMA SamePairs ==
  ASSUME NEW S, NEW T, S \subseteq Workers \X Fds, T \subseteq Workers \X Fds,
         \A w \in Workers, f \in Fds : <<w, f>> \in S <=> <<w, f>> \in T
  PROVE  S = T
OBVIOUS

LEMMA KeptServes ==
  ASSUME \A w \in Workers : /\ Owns(w)' <=> Owns(w)
                            /\ Owns(w) => fd'[w] = fd[w],
         \A f \in Fds : sock'[f] = "closed" <=> sock[f] = "closed"
  PROVE  UNCHANGED <<Connected, Serves>>
<1>1. Connected' = Connected
  BY DEF Connected
<1>2. Serves' \subseteq Workers \X Fds /\ Serves \subseteq Workers \X Fds
  BY DEF Serves
<1>3. \A w \in Workers, f \in Fds : (<<w, f>> \in Serves)' <=> <<w, f>> \in Serves
  BY PoolAssumption DEF Serves, Owns
<1>4. Serves' = Serves
  BY <1>2, <1>3, SamePairs
<1> QED
  BY <1>1, <1>4

\* A worker gives up its connection.
LEMMA LostServes ==
  ASSUME SoleOwner, NEW w \in Workers, Owns(w), ~Owns(w)', fd[w] \in Fds,
         \A v \in Workers \ {w} : /\ Owns(v)' <=> Owns(v)
                                  /\ fd'[v] = fd[v]
  PROVE  <<w, fd[w]>> \in Serves /\ Serves' = Serves \ {<<w, fd[w]>>}
<1>1. <<w, fd[w]>> \in Serves
  BY ServesIs
<1>2. Serves' \subseteq Workers \X Fds /\ Serves \ {<<w, fd[w]>>} \subseteq Workers \X Fds
  BY DEF Serves
<1>3. \A v \in Workers, f \in Fds :
        (<<v, f>> \in Serves)' <=> <<v, f>> \in Serves \ {<<w, fd[w]>>}
  <2> SUFFICES ASSUME NEW v \in Workers, NEW f \in Fds
               PROVE  (<<v, f>> \in Serves)' <=> <<v, f>> \in Serves \ {<<w, fd[w]>>}
    OBVIOUS
  <2>1. /\ <<v, f>> \in Serves <=> Owns(v) /\ fd[v] = f
        /\ (<<v, f>> \in Serves)' <=> Owns(v)' /\ fd'[v] = f
    BY PoolAssumption DEF Serves, Owns
  <2>2. CASE v = w
    BY <2>1, <2>2
  <2>3. CASE v # w
    BY <2>1, <2>3
  <2> QED BY <2>2, <2>3
<1>4. Serves' = Serves \ {<<w, fd[w]>>}
  BY <1>2, <1>3, SamePairs
<1> QED
  BY <1>1, <1>4

LEMMA StepServed ==
  ASSUME TypeOK, SocketState, ~HandleSIGHUP, [Next]_vars
  PROVE  One!Next \/ UNCHANGED <<Connected, Serves>>
<1>1. /\ pc \in [Workers -> Steps] /\ fd \in [Workers -> Fds \cup {NoFd}]
      /\ sock \in [Fds -> {"closed", "open", "shut"}] /\ NoFd \notin Fds
      /\ SoleOwner /\ OwnerListed /\ ServingHasSocket
  BY PoolAssumption DEF TypeOK, SocketState
<1> USE DEF Goto, Serving
<1>2. CASE \A w \in Workers : ~Transfer(w)
  <2>1. /\ sock' = sock /\ fd' = fd
        /\ \A w \in Workers :
             \/ pc'[w] = pc[w]
             \/ InSession(w) /\ InSession(w)'
             \/ fd[w] = NoFd /\ pc'[w] \notin {"shutdown"} \cup Serving
    BY <1>1, <1>2, OwnerFrame
  <2>2. \A w \in Workers : Owns(w)' <=> Owns(w)
    BY <1>1, <2>1 DEF InSession, Owns
  <2> QED
    BY <2>1, <2>2, KeptServes
<1>3. ASSUME NEW w \in Workers, Accept(w)
      PROVE  One!Next
  <2>1. PICK f \in Fds : /\ sock[f] = "closed"
                         /\ sock' = [sock EXCEPT ![f] = "open"]
                         /\ fd' = [fd EXCEPT ![w] = f]
    BY <1>3 DEF Accept
  <2>2. pc[w] = "accept" /\ pc' = [pc EXCEPT ![w] = "ref"]
    BY <1>3 DEF Accept
  <2>3. Connected' = Connected \cup {f} /\ f \notin Connected
    BY <1>1, <2>1 DEF Connected
  <2>4. \A g \in Fds : <<w, g>> \notin Serves
    BY <2>2, ServesIs DEF Owns
  <2>5. Serves' = Serves \cup {<<w, f>>}
    <3>1. /\ Serves' \subseteq Workers \X Fds
          /\ Serves \cup {<<w, f>>} \subseteq Workers \X Fds
      BY DEF Serves
    <3>2. \A v \in Workers, g \in Fds :
            (<<v, g>> \in Serves)' <=> <<v, g>> \in Serves \cup {<<w, f>>}
      <4> SUFFICES ASSUME NEW v \in Workers, NEW g \in Fds
                   PROVE  (<<v, g>> \in Serves)' <=> <<v, g>> \in Serves \cup {<<w, f>>}
        OBVIOUS
      <4>1. /\ <<v, g>> \in Serves <=> Owns(v) /\ fd[v] = g
            /\ (<<v, g>> \in Serves)' <=> Owns(v)' /\ fd'[v] = g
        BY <1>1 DEF Serves, Owns
      <4>2. CASE v = w
        <5>1. Owns(w)' /\ fd'[w] = f
          BY <1>1, <2>1, <2>2 DEF Owns
        <5> QED BY <2>4, <4>1, <4>2, <5>1
      <4>3. CASE v # w
        <5>1. (Owns(v)' <=> Owns(v)) /\ fd'[v] = fd[v]
          BY <1>1, <2>1, <2>2, <4>3 DEF Owns
        <5> QED BY <4>1, <4>3, <5>1
      <4> QED BY <4>2, <4>3
    <3> QED BY <3>1, <3>2, SamePairs
  <2>6. One!Accept(w, f)
    BY <2>3, <2>4, <2>5 DEF One!Accept
  <2> QED BY <2>6 DEF One!Next
<1>4. ASSUME NEW w \in Workers,
             AcceptFails(w) \/ addSScokRef(w) \/ removeSScokRef(w) \/ ShutdownSocket(w)
      PROVE  UNCHANGED <<Connected, Serves>>
  <2>1. CASE AcceptFails(w) \/ addSScokRef(w) \/ removeSScokRef(w)
    <3>1. sock' = sock /\ fd' = fd
      BY <2>1 DEF AcceptFails, addSScokRef, removeSScokRef, sockets, locals
    <3>2. \A v \in Workers : Owns(v)' <=> Owns(v)
      BY <1>1, <2>1, <3>1 DEF AcceptFails, addSScokRef, removeSScokRef, Owns,
         ServingHasSocket
    <3> QED BY <3>1, <3>2, KeptServes
  <2>2. CASE ShutdownSocket(w)
    <3>1. /\ pc[w] = "shutdown" /\ pc' = [pc EXCEPT ![w] = "inactive"]
          /\ fd' = [fd EXCEPT ![w] = NoFd]
          /\ \A f \in Fds : sock'[f] = "closed" <=> sock[f] = "closed"
      BY <1>1, <2>2 DEF ShutdownSocket
    <3>2. \A v \in Workers : (Owns(v)' <=> Owns(v)) /\ (Owns(v) => fd'[v] = fd[v])
      BY <1>1, <3>1 DEF Owns
    <3> QED BY <3>1, <3>2, KeptServes
  <2> QED BY <1>4, <2>1, <2>2
<1>5. ASSUME NEW w \in Workers, CloseSocket(w)
      PROVE  One!Next
  <2>1. /\ pc[w] = "close" /\ fd' = fd /\ pc' = [pc EXCEPT ![w] = "shutdown"]
        /\ sock' = [sock EXCEPT ![fd[w]] = "closed"]
    BY <1>5 DEF CloseSocket, locals
  <2>2. Owns(w) /\ ~Owns(w)' /\ fd[w] \in Fds
    BY <1>1, <2>1 DEF Owns, ServingHasSocket
  <2>3. \A v \in Workers \ {w} : (Owns(v)' <=> Owns(v)) /\ fd'[v] = fd[v]
    BY <1>1, <2>1 DEF Owns
  <2>4. <<w, fd[w]>> \in Serves /\ Serves' = Serves \ {<<w, fd[w]>>}
    BY <1>1, <2>2, <2>3, LostServes
  <2>5. Connected' = Connected \ {fd[w]}
    BY <1>1, <2>1, <2>2 DEF Connected
  <2>6. One!Close(w, fd[w])
    BY <2>4, <2>5 DEF One!Close
  <2> QED BY <2>2, <2>6 DEF One!Next
<1>6. ASSUME NEW w \in Workers, SessionThrows(w)
      PROVE  One!Next
  <2>1. /\ pc[w] = "session" /\ sock' = sock
        /\ pc' = [pc EXCEPT ![w] = "kill"] /\ fd' = [fd EXCEPT ![w] = NoFd]
    BY <1>6 DEF SessionThrows, sockets
  <2>2. Owns(w) /\ ~Owns(w)' /\ fd[w] \in Fds
    BY <1>1, <2>1 DEF Owns, ServingHasSocket
  <2>3. \A v \in Workers \ {w} : (Owns(v)' <=> Owns(v)) /\ fd'[v] = fd[v]
    BY <1>1, <2>1 DEF Owns
  <2>4. <<w, fd[w]>> \in Serves /\ Serves' = Serves \ {<<w, fd[w]>>}
    BY <1>1, <2>2, <2>3, LostServes
  <2>5. Connected' = Connected
    BY <2>1 DEF Connected
  <2>6. One!Abandon(w, fd[w])
    BY <2>4, <2>5 DEF One!Abandon
  <2> QED BY <2>2, <2>6 DEF One!Next
<1> QED
  BY <1>2, <1>3, <1>4, <1>5, <1>6 DEF Transfer, Socket

NotRestarted == hups = 0

\* Without a signal the count of signals stays 0.
LEMMA NoSignal ==
  ASSUME MaxHups = 0, TypeOK, RunInv, NotRestarted, [Next]_vars
  PROVE  NotRestarted' /\ ~HandleSIGHUP
<1>0. hups = 0
  BY DEF NotRestarted
<1>1. ~HandleSIGHUP
  <2>1. hup = "off"
    BY <1>0, Zenon DEF RunInv
  <2>2. ~(hups < MaxHups)
    BY <1>0
  <2> QED
    BY <2>1, <2>2 DEF HandleSIGHUP, ReceiveSIGHUP, CloseMaster, ListSSocks,
       CloseSSock, ResetThreadsCount, ResetActiveThreads, StopKillIdles, StartServer, setSigHupFlag, NotifySelf,
       SignalStep
<1>2. hups' = hups
  BY <1>1, Zenon DEF Next, vars, signal, Quit, Serve, Main, MainLoop, MainStep,
     Top, TryQuitting, SwitchQuitting, CountQuitting,
     Uncount, TestFull, ClearSwitch, ResetQuitting, PollThrows, PollReady, Accept,
     AcceptFails, addSScokRef, SetActive, NotifyMain, EndSession, SessionThrows,
     removeSScokRef, CloseSocket, ShutdownSocket, notActive, TestKill, ReadCount,
     TestIdle, CheckCount, CheckActive, trySighupFlag, CheckLimit, MainSleeps,
     MainWakesSpuriously, SpawnWorker, ThreadCreated, SpawningDone, Connect
<1> QED
  BY <1>0, <1>1, <1>2 DEF NotRestarted

\* As long as the server is not restarted, each connection is served and
\* closed by the one worker that accepted it: whatever workers poll and accept
\* at the same time, and although descriptors are used again at once.
THEOREM ServedByOneWorker == MaxHups = 0 => (Spec => ServedByOne)
<1> SUFFICES ASSUME MaxHups = 0
             PROVE  Spec => ServedByOne
  OBVIOUS
<1>1. Init => NotRestarted /\ One!Init
  <2> SUFFICES ASSUME Init PROVE hups = 0 /\ Connected = {} /\ Serves = {}
    BY DEF NotRestarted, One!Init
  <2>1. hups = 0 /\ \A f \in Fds : sock[f] = "closed"
    BY Zenon DEF Init
  <2>2. \A w \in Workers : pc[w] = "none"
    BY Zenon DEF Init
  <2> QED
    BY <2>1, <2>2 DEF Connected, Serves, Serving
<1>2. TypeOK /\ RunInv /\ SocketInv /\ NotRestarted /\ [Next]_vars
        => NotRestarted' /\ [One!Next]_<<Connected, Serves>>
  BY NoSignal, StepServed DEF SocketInv, NotRestarted
<1> QED
  BY <1>1, <1>2, SocketsKept, PTL DEF Spec, ServedByOne, One!Spec
=============================================================================
