--------------------------- MODULE ThreadPool_proofs ---------------------------
(***************************************************************************)
(* What ThreadPool guarantees for any number of workers, sockets and       *)
(* signals, and for any values of the options -t and -T.                   *)
(***************************************************************************)
EXTENDS ThreadPool, FiniteSetTheorems, TLAPS

LEMMA InitType == Init => TypeOK
<1> SUFFICES ASSUME Init
             PROVE  TypeOK
  OBVIOUS
<1>1. /\ pending \in [Servers -> Nat] /\ SSocksRef \in [Fds -> Nat]
      /\ n \in [Workers -> Int]
  BY DEF Init
<1>2. sock \in [Fds -> {"closed", "open", "shut"}]
  BY Zenon DEF Init
<1>3. pc \in [Workers -> Steps]
  BY DEF Init, Steps
<1>4. srv \in [Workers -> Servers \cup {NoServer}] /\ fd \in [Workers -> Fds \cup {NoFd}]
  BY Zenon DEF Init
<1>5. /\ ThreadsCount = 0 /\ ActiveThreads = 0 /\ QuitingThreads = 0
      /\ bThreadQuitSwitch = FALSE /\ bThreadKillSwitch = FALSE
      /\ bSIGHUPReceived = FALSE /\ listening = Servers
      /\ mpc = "check" /\ mN = 0 /\ mWant = FALSE /\ i = 0
      /\ hup = "off" /\ hups = 0 /\ todo = {}
  BY Zenon DEF Init
<1>6. 0 \in Nat /\ 0 \in Int
  OBVIOUS
<1> QED
  BY <1>1, <1>2, <1>3, <1>4, <1>5, <1>6, Zenon DEF TypeOK

\* Worker steps, by what they do to the counters.
Local(w) ==
  \/ Top(w) \/ TryQuitting(w) \/ SwitchQuitting(w) \/ TestFull(w) \/ ClearSwitch(w)
  \/ PollThrows(w) \/ PollReady(w) \/ EndSession(w) \/ SessionThrows(w)
  \/ TestKill(w) \/ ReadCount(w) \/ TestIdle(w)

Socket(w) ==
  \/ Accept(w) \/ AcceptFails(w) \/ addSScokRef(w) \/ removeSScokRef(w)
  \/ CloseSocket(w) \/ ShutdownSocket(w)

Counting(w) ==
  \/ CountQuitting(w) \/ Uncount(w) \/ ResetQuitting(w) \/ SetActive(w)
  \/ NotifyMain(w) \/ notActive(w)

LEMMA WorkerCases ==
  ASSUME NEW w \in Workers, Quit(w) \/ Serve(w)
  PROVE  Local(w) \/ Socket(w) \/ Counting(w)
BY DEF Quit, Serve, Local, Socket, Counting

LEMMA LocalType ==
  ASSUME TypeOK, NEW w \in Workers, Local(w)
  PROVE  TypeOK'
<1> USE PoolAssumption DEF TypeOK, Steps, Quitting, Uncounted, Serving, Counted,
        Goto, counters, switches, sockets, locals, main, signal
<1>1. CASE Top(w) BY <1>1 DEF Top
<1>2. CASE TryQuitting(w) BY <1>2 DEF TryQuitting
<1>3. CASE SwitchQuitting(w) BY <1>3 DEF SwitchQuitting
<1>4. CASE TestFull(w) BY <1>4 DEF TestFull
<1>5. CASE ClearSwitch(w) BY <1>5 DEF ClearSwitch
<1>6. CASE PollThrows(w) BY <1>6 DEF PollThrows
<1>7. CASE PollReady(w) BY <1>7 DEF PollReady
<1>8. CASE EndSession(w) BY <1>8 DEF EndSession
<1>9. CASE SessionThrows(w) BY <1>9 DEF SessionThrows
<1>10. CASE TestKill(w) BY <1>10 DEF TestKill
<1>11. CASE ReadCount(w) BY <1>11 DEF ReadCount
<1>12. CASE TestIdle(w) BY <1>12 DEF TestIdle
<1> QED
  BY <1>1, <1>2, <1>3, <1>4, <1>5, <1>6, <1>7, <1>8, <1>9, <1>10, <1>11, <1>12
     DEF Local

LEMMA SocketType ==
  ASSUME TypeOK, NEW w \in Workers, Socket(w)
  PROVE  TypeOK'
<1>1. /\ ThreadsCount' \in Int /\ ActiveThreads' \in Int /\ QuitingThreads' \in Nat
      /\ bThreadQuitSwitch' = bThreadQuitSwitch
      /\ bThreadKillSwitch' = bThreadKillSwitch
      /\ bSIGHUPReceived' = bSIGHUPReceived
      /\ mpc' = mpc /\ mN' = mN /\ mWant' = mWant /\ i' = i
      /\ hup' = hup /\ hups' = hups /\ todo' \subseteq todo
      /\ listening' = listening /\ n' = n
  BY DEF Socket, Accept, AcceptFails, addSScokRef, removeSScokRef, SkipEntry,
     CloseSocket, ShutdownSocket, sockets, locals, counters, switches, main, signal,
     TypeOK
<1>2. pc' \in [Workers -> Steps]
  BY DEF Socket, Accept, AcceptFails, addSScokRef, removeSScokRef, CloseSocket,
     ShutdownSocket, Goto, Steps, Serving, Counted, TypeOK
<1>3. SSocksRef' \in [Fds -> Nat] /\ pending' \in [Servers -> Nat]
  <2>1. CASE Accept(w)
    <3>1. SSocksRef' = SSocksRef /\ pending' = [pending EXCEPT ![srv[w]] = @ - 1]
      BY <2>1 DEF Accept
    <3>2. pending[srv[w]] > 0
      BY <2>1 DEF Accept
    <3>3. SSocksRef \in [Fds -> Nat] /\ pending \in [Servers -> Nat]
      BY DEF TypeOK
    <3>4. CASE srv[w] \in Servers
      BY <3>1, <3>2, <3>3, <3>4
    <3>5. CASE srv[w] \notin Servers
      <4>1. pending' = pending
        BY <3>1, <3>3, <3>5
      <4> QED
        BY <3>1, <3>3, <4>1
    <3> QED
      BY <3>4, <3>5
  <2>2. CASE addSScokRef(w)
    BY <2>2 DEF addSScokRef, TypeOK
  <2>3. CASE removeSScokRef(w)
    <3>1. /\ SSocksRef' = [SSocksRef EXCEPT ![fd[w]] = IF @ > 0 THEN @ - 1 ELSE 0]
          /\ pending' = pending
      BY <2>3 DEF removeSScokRef
    <3>2. SSocksRef \in [Fds -> Nat] /\ pending \in [Servers -> Nat]
      BY DEF TypeOK
    <3>3. CASE fd[w] \in Fds
      BY <3>1, <3>2, <3>3
    <3>4. CASE fd[w] \notin Fds
      <4>1. SSocksRef' = SSocksRef
        BY <3>1, <3>2, <3>4
      <4> QED
        BY <3>1, <3>2, <4>1
    <3> QED
      BY <3>3, <3>4
  <2>4. CASE AcceptFails(w) \/ CloseSocket(w) \/ ShutdownSocket(w)
    BY <2>4 DEF AcceptFails, CloseSocket, ShutdownSocket, sockets, TypeOK
  <2> QED
    BY <2>1, <2>2, <2>3, <2>4 DEF Socket
<1>4. sock' \in [Fds -> {"closed", "open", "shut"}]
  <2>1. CASE Accept(w)
    BY <2>1 DEF Accept, TypeOK
  <2>2. CASE CloseSocket(w)
    BY <2>2 DEF CloseSocket, TypeOK
  <2>3. CASE ShutdownSocket(w)
    <3>1. sock' = [sock EXCEPT ![fd[w]] = IF @ = "open" THEN "shut" ELSE @]
      BY <2>3 DEF ShutdownSocket
    <3>2. sock \in [Fds -> {"closed", "open", "shut"}]
      BY DEF TypeOK
    <3> QED
      BY <3>1, <3>2
  <2>4. CASE AcceptFails(w) \/ addSScokRef(w) \/ removeSScokRef(w)
    BY <2>4 DEF AcceptFails, addSScokRef, removeSScokRef, sockets, TypeOK
  <2> QED
    BY <2>1, <2>2, <2>3, <2>4 DEF Socket
<1>5. srv' \in [Workers -> Servers \cup {NoServer}] /\ fd' \in [Workers -> Fds \cup {NoFd}]
  BY DEF Socket, Accept, AcceptFails, addSScokRef, removeSScokRef, CloseSocket,
     ShutdownSocket, locals, TypeOK
<1> QED
  BY <1>1, <1>2, <1>3, <1>4, <1>5, Zenon DEF TypeOK

LEMMA CountingType ==
  ASSUME TypeOK, NEW w \in Workers, Counting(w)
  PROVE  TypeOK'
<1> USE PoolAssumption DEF TypeOK, Steps, Quitting, Uncounted, Serving, Counted,
        Goto, counters, switches, sockets, locals, main, signal
<1>1. CASE CountQuitting(w) BY <1>1 DEF CountQuitting
<1>2. CASE Uncount(w) BY <1>2 DEF Uncount
<1>3. CASE ResetQuitting(w) BY <1>3 DEF ResetQuitting
<1>4. CASE SetActive(w) BY <1>4 DEF SetActive
<1>5. CASE NotifyMain(w) BY <1>5 DEF NotifyMain, WakeMain
<1>6. CASE notActive(w) BY <1>6 DEF notActive
<1> QED
  BY <1>1, <1>2, <1>3, <1>4, <1>5, <1>6 DEF Counting

LEMMA MainType ==
  ASSUME TypeOK, Main
  PROVE  TypeOK'
<1> USE PoolAssumption DEF TypeOK, Steps, Goto, MainStep, counters, switches,
        sockets, locals, main, signal
<1>1. CASE CheckCount BY <1>1 DEF CheckCount
<1>2. CASE CheckActive BY <1>2 DEF CheckActive
<1>3. CASE trySighupFlag BY <1>3 DEF trySighupFlag
<1>4. CASE CheckLimit
  <2>1. CASE mWant /\ ThreadsCount < MaxThread
    <3>1. /\ mpc' = "spawn" /\ i' = 1 /\ mWant' = FALSE /\ mN' = mN
          /\ UNCHANGED <<counters, switches, pc, sockets, locals, signal>>
      BY <1>4, <2>1, Zenon DEF CheckLimit, MainStep
    <3>2. 1 \in Nat
      OBVIOUS
    <3> QED
      BY <3>1, <3>2, Zenon DEF TypeOK
  <2>2. CASE ~(mWant /\ ThreadsCount < MaxThread)
    BY <1>4, <2>2 DEF CheckLimit
  <2> QED
    BY <2>1, <2>2
<1>5. CASE MainSleeps BY <1>5 DEF MainSleeps
<1>6. CASE MainWakesSpuriously BY <1>6 DEF MainWakesSpuriously
<1>7. CASE SpawnWorker BY <1>7 DEF SpawnWorker
<1>8. CASE ThreadCreated BY <1>8 DEF ThreadCreated
<1>9. CASE SpawningDone BY <1>9 DEF SpawningDone
<1> QED
  BY <1>1, <1>2, <1>3, <1>4, <1>5, <1>6, <1>7, <1>8, <1>9 DEF Main, MainLoop

LEMMA SignalType ==
  ASSUME TypeOK, HandleSIGHUP
  PROVE  TypeOK'
<1> USE PoolAssumption DEF TypeOK, Steps, SignalStep, counters, switches, sockets,
        locals, main, signal
<1>1. CASE ReceiveSIGHUP BY <1>1 DEF ReceiveSIGHUP
<1>2. CASE CloseMaster BY <1>2 DEF CloseMaster
<1>3. CASE ListSSocks BY <1>3 DEF ListSSocks
<1>4. CASE CloseSSock BY <1>4 DEF CloseSSock
<1>5. CASE ResetThreadsCount BY <1>5 DEF ResetThreadsCount
<1>6. CASE ResetActiveThreads BY <1>6 DEF ResetActiveThreads
<1>7. CASE StopKillIdles BY <1>7 DEF StopKillIdles
<1>8. CASE StartServer BY <1>8 DEF StartServer
<1>9. CASE setSigHupFlag BY <1>9 DEF setSigHupFlag
<1>10. CASE NotifySelf BY <1>10 DEF NotifySelf, WakeMain
<1> QED
  BY <1>1, <1>2, <1>3, <1>4, <1>5, <1>6, <1>7, <1>8, <1>9, <1>10 DEF HandleSIGHUP

LEMMA StepType == TypeOK /\ [Next]_vars => TypeOK'
<1> SUFFICES ASSUME TypeOK, [Next]_vars
             PROVE  TypeOK'
  OBVIOUS
<1>1. CASE \E w \in Workers : Quit(w) \/ Serve(w)
  BY <1>1, WorkerCases, LocalType, SocketType, CountingType
<1>2. CASE \E s \in Servers : Connect(s)
  BY <1>2, PoolAssumption DEF TypeOK, Connect, counters, switches, locals, main, signal
<1>3. CASE UNCHANGED vars
  BY <1>3 DEF vars, TypeOK, counters, switches, sockets, locals, main, signal
<1> QED
  BY <1>1, <1>2, <1>3, MainType, SignalType DEF Next

\* The variables keep their types.
THEOREM TypeCorrect == Spec => []TypeOK
BY InitType, StepType, PTL DEF Spec

-----------------------------------------------------------------------------
(* The limit on the number of threads.                                     *)

\* The loop of CreateThreads starts below the limit and creates T_incr
\* threads; only it raises the count.
BatchInv ==
  /\ mpc = "spawn" => i \in 1..(T_incr + 1) /\ ThreadsCount <= MaxThread + i - 2
  /\ mpc = "count" => i \in 1..T_incr /\ ThreadsCount <= MaxThread + i - 2

PoolBounded == ThreadsCount <= Limit

CountInv == TypeOK /\ PoolBounded /\ BatchInv

LEMMA InitCount == Init => PoolBounded /\ BatchInv
<1>1. Init => ThreadsCount = 0 /\ mpc = "check"
  BY Zenon DEF Init
<1> QED
  BY <1>1, PoolAssumption DEF PoolBounded, BatchInv, Limit, MaxThread

\* No worker and no signal raises the count or touches CreateThreads' loop.
LEMMA OthersCount ==
  ASSUME TypeOK, ~Main, [Next]_vars
  PROVE  /\ ThreadsCount' <= ThreadsCount \/ ThreadsCount' = 0
         /\ i' = i
         /\ mpc' = mpc \/ mpc' = "check"
<1>1. CASE \E w \in Workers : Quit(w) \/ Serve(w)
  <2> SUFFICES ASSUME NEW w \in Workers, Quit(w) \/ Serve(w)
               PROVE  /\ ThreadsCount' <= ThreadsCount
                      /\ i' = i /\ (mpc' = mpc \/ mpc' = "check")
    BY <1>1
  <2>1. CASE Local(w) \/ Socket(w)
    BY <2>1 DEF Local, Socket, Top, TryQuitting, SwitchQuitting, TestFull,
       ClearSwitch, PollThrows, PollReady, EndSession, SessionThrows, TestKill,
       ReadCount, TestIdle, Accept, AcceptFails, addSScokRef, removeSScokRef,
       CloseSocket, ShutdownSocket, counters, main, TypeOK
  <2>2. CASE Counting(w)
    BY <2>2 DEF Counting, CountQuitting, Uncount, ResetQuitting, SetActive,
       NotifyMain, WakeMain, notActive, counters, main, TypeOK
  <2> QED
    BY <2>1, <2>2, WorkerCases
<1>2. CASE HandleSIGHUP
  BY <1>2 DEF HandleSIGHUP, ReceiveSIGHUP, CloseMaster, ListSSocks,
     CloseSSock, ResetThreadsCount, ResetActiveThreads, StopKillIdles, StartServer, setSigHupFlag, NotifySelf,
     WakeMain, counters, main, TypeOK
<1>3. CASE (\E s \in Servers : Connect(s)) \/ UNCHANGED vars
  BY <1>3 DEF Connect, vars, counters, main, TypeOK
<1> QED
  BY <1>1, <1>2, <1>3 DEF Next

LEMMA StepCount == CountInv /\ [Next]_vars => PoolBounded' /\ BatchInv'
<1> SUFFICES ASSUME CountInv, [Next]_vars
             PROVE  PoolBounded' /\ BatchInv'
  OBVIOUS
<1> USE PoolAssumption DEF CountInv, PoolBounded, BatchInv, Limit, MaxThread
<1>1. ThreadsCount \in Int /\ i \in Nat
  BY DEF TypeOK
<1>2. CASE Main
  <2>1. CASE ThreadCreated
    BY <1>1, <2>1 DEF ThreadCreated
  <2>2. CASE CheckLimit
    <3>1. /\ ThreadsCount' = ThreadsCount /\ i' \in {1, i}
          /\ mpc' \in {"spawn", "block"}
          /\ mpc' = "spawn" => i' = 1 /\ ThreadsCount < MaxThread
      BY <2>2, Zenon DEF CheckLimit, counters
    <3>2. T_incr \in Nat \ {0} /\ tmax \in Nat \ {0}
      BY PoolAssumption
    <3>3. mpc' = "spawn" => i' \in 1..(T_incr + 1) /\ ThreadsCount' <= MaxThread + i' - 2
      BY <1>1, <3>1, <3>2
    <3>4. mpc' # "count"
      BY <3>1
    <3> QED
      BY <3>1, <3>3, <3>4
  <2>3. CASE SpawnWorker \/ SpawningDone
    BY <1>1, <2>3 DEF SpawnWorker, SpawningDone, MoreToCreate, counters
  <2>4. CASE \/ CheckCount \/ CheckActive \/ trySighupFlag \/ MainSleeps
             \/ MainWakesSpuriously
    BY <1>1, <2>4 DEF CheckCount, CheckActive, trySighupFlag, MainSleeps,
       MainWakesSpuriously, counters
  <2> QED
    BY <1>2, <2>1, <2>2, <2>3, <2>4 DEF Main, MainLoop
<1>3. CASE ~Main
  <2>1. /\ ThreadsCount' <= ThreadsCount \/ ThreadsCount' = 0
        /\ i' = i /\ (mpc' = mpc \/ mpc' = "check")
    BY <1>3, OthersCount
  <2>2. ThreadsCount' \in Int
    BY StepType DEF TypeOK
  <2> QED
    BY <1>1, <2>1, <2>2
<1> QED
  BY <1>2, <1>3

LEMMA CountLimited == Spec => [](TypeOK /\ PoolBounded /\ BatchInv)
<1>1. Init => CountInv
  BY InitType, InitCount DEF CountInv
<1>2. CountInv /\ [Next]_vars => CountInv'
  BY StepType, StepCount DEF CountInv
<1> QED
  BY <1>1, <1>2, PTL DEF Spec, CountInv

-----------------------------------------------------------------------------
(* The live threads, and those of them the count has forgotten.            *)

Dead == {"none"} \cup Uncounted

LEMMA AliveSame ==
  ASSUME TypeOK, NEW w \in Workers, NEW s, Goto(w, s), pc[w] \in Dead <=> s \in Dead
  PROVE  Alive' = Alive
BY DEF TypeOK, Goto, Alive, Dead

\* A worker's step, other than leaving the count, leaves the count alone; only
\* the kill switch ends a thread by it.
LEMMA WorkerAlive ==
  ASSUME TypeOK, NEW w \in Workers, Local(w) \/ Socket(w) \/ Counting(w), ~Uncount(w)
  PROVE  /\ ThreadsCount' = ThreadsCount
         /\ Alive' \subseteq Alive
         /\ bThreadKillSwitch = FALSE => Alive' = Alive
<1> USE DEF Dead, Uncounted, Goto
<1>1. CASE Local(w)
  <2>1. CASE TestKill(w) /\ bThreadKillSwitch = FALSE
    BY <2>1, AliveSame DEF TestKill, counters
  <2>2. CASE TestKill(w) /\ bThreadKillSwitch # FALSE
    <3>1. pc' = [pc EXCEPT ![w] = "none"] /\ ThreadsCount' = ThreadsCount
      BY <2>2 DEF TestKill, counters, TypeOK
    <3> QED
      BY <2>2, <3>1 DEF Alive, TypeOK
  <2>3. CASE ~TestKill(w)
    BY <1>1, <2>3, AliveSame DEF Local, Top, TryQuitting, SwitchQuitting, TestFull,
       ClearSwitch, PollThrows, PollReady, EndSession, SessionThrows, ReadCount,
       TestIdle, counters
  <2> QED
    BY <2>1, <2>2, <2>3
<1>2. CASE Socket(w)
  BY <1>2, AliveSame DEF Socket, Accept, AcceptFails, addSScokRef, removeSScokRef,
     CloseSocket, ShutdownSocket, counters
<1>3. CASE Counting(w)
  BY <1>3, AliveSame DEF Counting, CountQuitting, ResetQuitting, SetActive,
     NotifyMain, notActive, counters
<1> QED
  BY <1>1, <1>2, <1>3

\* The thread that has been created and not counted yet.
New == IF mpc = "count" THEN 1 ELSE 0

\* The live threads that are not in ThreadsCount, beside that one.
Forgotten == Cardinality(Alive) - ThreadsCount - New

LEMMA AliveFinite ==
  ASSUME IsFiniteSet(Workers), TypeOK
  PROVE  /\ IsFiniteSet(Alive) /\ Cardinality(Alive) \in Nat
         /\ Forgotten \in Int /\ New \in {0, 1}
<1>1. Alive \subseteq Workers
  BY DEF Alive
<1> QED
  BY <1>1, FS_Subset, FS_CardinalityType DEF TypeOK, Forgotten, New

LEMMA AliveFiniteNext ==
  ASSUME IsFiniteSet(Workers), TypeOK, [Next]_vars
  PROVE  Cardinality(Alive') \in Nat /\ Forgotten' \in Int /\ New' \in {0, 1}
<1>1. Alive' \subseteq Workers
  BY DEF Alive
<1>2. ThreadsCount' \in Int
  BY StepType DEF TypeOK
<1> QED
  BY <1>1, <1>2, FS_Subset, FS_CardinalityType DEF Forgotten, New

\* Only the reset of the count makes it forget threads; the kill switch may
\* end some.
LEMMA StepForgotten ==
  ASSUME IsFiniteSet(Workers), TypeOK, [Next]_vars, ~ResetThreadsCount
  PROVE  Forgotten' <= Forgotten /\ (bThreadKillSwitch = FALSE => Forgotten' = Forgotten)
<1>1. ThreadsCount \in Int /\ IsFiniteSet(Alive) /\ Cardinality(Alive) \in Nat
  BY AliveFinite DEF TypeOK
<1> USE DEF Forgotten, New
<1>2. ASSUME pc' = pc, ThreadsCount' = ThreadsCount, mpc' = "count" <=> mpc = "count"
      PROVE  Forgotten' = Forgotten
  <2>1. Alive' = Alive
    BY <1>2 DEF Alive
  <2> QED
    BY <1>1, <1>2, <2>1
<1>3. ASSUME NEW w \in Workers, Uncount(w)
      PROVE  Forgotten' = Forgotten
  <2>1. w \in Alive /\ Alive' = Alive \ {w}
    BY <1>3 DEF Uncount, Goto, Alive, Uncounted, TypeOK
  <2>2. Cardinality(Alive \ {w}) = Cardinality(Alive) - 1
    BY <1>1, <2>1, FS_RemoveElement
  <2>3. ThreadsCount' = ThreadsCount - 1 /\ mpc' = mpc
    BY <1>3 DEF Uncount, main
  <2> QED
    BY <1>1, <2>1, <2>2, <2>3
<1>4. CASE SpawnWorker
  <2>1. PICK w \in Workers : pc[w] = "none" /\ Goto(w, "top")
    BY <1>4 DEF SpawnWorker
  <2>2. w \notin Alive /\ Alive' = Alive \cup {w}
    BY <2>1 DEF Goto, Alive, Uncounted, TypeOK
  <2>3. Cardinality(Alive \cup {w}) = Cardinality(Alive) + 1
    BY <1>1, <2>2, FS_AddElement
  <2>4. ThreadsCount' = ThreadsCount /\ mpc = "spawn" /\ mpc' = "count"
    BY <1>4 DEF SpawnWorker, counters
  <2> QED
    BY <1>1, <2>2, <2>3, <2>4
<1>5. CASE ThreadCreated
  <2>1. /\ ThreadsCount' = ThreadsCount + 1 /\ mpc = "count" /\ mpc' = "spawn"
        /\ pc' = pc
    BY <1>5 DEF ThreadCreated
  <2>2. Alive' = Alive
    BY <2>1 DEF Alive
  <2> QED
    BY <1>1, <2>1, <2>2
<1>6. CASE Main /\ ~SpawnWorker /\ ~ThreadCreated
  <2>1. /\ ThreadsCount' = ThreadsCount /\ pc' = pc
        /\ mpc # "count" /\ mpc' # "count"
    BY <1>6 DEF Main, MainLoop, CheckCount, CheckActive, trySighupFlag, CheckLimit,
       MainSleeps, MainWakesSpuriously, SpawningDone, counters
  <2> QED
    BY <1>1, <1>2, <2>1
<1>7. ASSUME NEW w \in Workers, Quit(w) \/ Serve(w), ~Uncount(w)
      PROVE  Forgotten' <= Forgotten /\ (bThreadKillSwitch = FALSE => Forgotten' = Forgotten)
  <2>1. /\ ThreadsCount' = ThreadsCount /\ Alive' \subseteq Alive
        /\ bThreadKillSwitch = FALSE => Alive' = Alive
    BY <1>7, WorkerCases, WorkerAlive
  <2>2. mpc' = "count" <=> mpc = "count"
    BY <1>7, WorkerCases DEF Local, Socket, Counting, Top, TryQuitting,
       SwitchQuitting, CountQuitting, TestFull, ClearSwitch, ResetQuitting,
       PollThrows, PollReady, Accept, AcceptFails, addSScokRef, SetActive,
       NotifyMain, WakeMain, EndSession, SessionThrows, removeSScokRef, CloseSocket,
       ShutdownSocket, notActive, TestKill, ReadCount, TestIdle, main
  <2>3. Cardinality(Alive') <= Cardinality(Alive) /\ Cardinality(Alive') \in Nat
    BY <1>1, <2>1, FS_Subset, FS_CardinalityType
  <2> QED
    BY <1>1, <2>1, <2>2, <2>3
<1>8. CASE HandleSIGHUP
  <2>1. pc' = pc /\ ThreadsCount' = ThreadsCount
    BY <1>8 DEF HandleSIGHUP, ReceiveSIGHUP, CloseMaster, ListSSocks, CloseSSock,
       ResetActiveThreads, StopKillIdles, StartServer, setSigHupFlag, NotifySelf,
       counters
  <2>2. mpc' = mpc \/ (mpc = "asleep" /\ mpc' = "check")
    BY <1>8 DEF HandleSIGHUP, ReceiveSIGHUP, CloseMaster, ListSSocks, CloseSSock,
       ResetActiveThreads, StopKillIdles, StartServer, setSigHupFlag, NotifySelf,
       WakeMain, main
  <2> QED
    BY <1>1, <1>2, <2>1, <2>2
<1>9. CASE (\E s \in Servers : Connect(s)) \/ UNCHANGED vars
  <2>1. pc' = pc /\ ThreadsCount' = ThreadsCount /\ mpc' = mpc
    BY <1>9 DEF Connect, vars, counters, main
  <2> QED
    BY <1>1, <1>2, <2>1
<1>10. Forgotten \in Int
  BY <1>1
<1>11. CASE \E w \in Workers : Quit(w) \/ Serve(w)
  <2>1. PICK w \in Workers : Quit(w) \/ Serve(w)
    BY <1>11
  <2>2. CASE Uncount(w)
    <3>1. Forgotten' = Forgotten
      BY <1>3, <2>2
    <3> QED
      BY <1>10, <3>1
  <2>3. CASE ~Uncount(w)
    BY <1>7, <2>1, <2>3
  <2> QED
    BY <2>2, <2>3
<1>12. CASE Main
  BY <1>4, <1>5, <1>6, <1>10, <1>12
<1> QED
  BY <1>8, <1>9, <1>10, <1>11, <1>12 DEF Next

-----------------------------------------------------------------------------
(* The limit on the number of live threads.                                *)

\* How often the count has been reset.
Resets == hups - (IF hup \in {"masters", "clients"} THEN 1 ELSE 0)

\* Each reset forgets no more threads than the limit allows.
ForgottenInv ==
  /\ hup \in {"masters", "clients"} => hups > 0
  /\ Forgotten <= Resets * Limit

\* Only the handler changes what Resets depends on.
LEMMA StepResets ==
  ASSUME TypeOK, [Next]_vars, ~ResetThreadsCount, hup \in {"masters", "clients"} => hups > 0
  PROVE  Resets' = Resets /\ (hup' \in {"masters", "clients"} => hups' > 0)
<1>1. CASE HandleSIGHUP
  BY <1>1 DEF HandleSIGHUP, ReceiveSIGHUP, CloseMaster, ListSSocks, CloseSSock,
     ResetActiveThreads, StopKillIdles, StartServer, setSigHupFlag, NotifySelf,
     SignalStep, Resets, TypeOK
<1>2. CASE ~HandleSIGHUP
  <2>1. hup' = hup /\ hups' = hups
    BY <1>2, Zenon DEF Next, vars, signal, Quit, Serve, Main, MainLoop, MainStep,
     Top, TryQuitting, SwitchQuitting, CountQuitting,
     Uncount, TestFull, ClearSwitch, ResetQuitting, PollThrows, PollReady, Accept,
     AcceptFails, addSScokRef, SetActive, NotifyMain, EndSession, SessionThrows,
     removeSScokRef, CloseSocket, ShutdownSocket, notActive, TestKill, ReadCount,
     TestIdle, CheckCount, CheckActive, trySighupFlag, CheckLimit, MainSleeps,
     MainWakesSpuriously, SpawnWorker, ThreadCreated, SpawningDone, Connect
  <2> QED
    BY <2>1 DEF Resets
<1> QED
  BY <1>1, <1>2

LEMMA StepForgottenInv ==
  ASSUME IsFiniteSet(Workers), TypeOK, PoolBounded, ForgottenInv, [Next]_vars
  PROVE  ForgottenInv'
<1>1. /\ Forgotten \in Int /\ Resets \in Int /\ Limit \in Nat
      /\ TypeOK' /\ Forgotten' \in Int
  <2>1. TypeOK' /\ Forgotten' \in Int /\ Forgotten \in Int
    BY StepType, AliveFinite, AliveFiniteNext
  <2> QED
    BY <2>1, PoolAssumption DEF Resets, Limit, MaxThread, TypeOK
<1>2. CASE ResetThreadsCount
  <2>1. /\ hup = "clients" /\ hup' = "reset" /\ hups' = hups
        /\ ThreadsCount' = 0 /\ pc' = pc /\ mpc' = mpc
    BY <1>2 DEF ResetThreadsCount, SignalStep, main
  <2>2. Alive' = Alive
    BY <2>1 DEF Alive
  <2>3. Forgotten' = Forgotten + ThreadsCount
    BY <2>1, <2>2, AliveFinite DEF Forgotten, New, TypeOK
  <2>4. Resets' = Resets + 1
    BY <2>1 DEF Resets, TypeOK
  <2>5. Resets' * Limit = Resets * Limit + Limit
    BY <1>1, <2>4
  <2>6. Resets * Limit \in Int
    BY <1>1
  <2> QED
    BY <1>1, <2>1, <2>3, <2>5, <2>6 DEF PoolBounded, ForgottenInv, TypeOK
<1>3. CASE ~ResetThreadsCount
  <2>1. Forgotten' <= Forgotten
    BY <1>3, StepForgotten
  <2>2. Resets' = Resets /\ (hup' \in {"masters", "clients"} => hups' > 0)
    BY <1>3, StepResets DEF ForgottenInv
  <2>3. Resets * Limit \in Int /\ Forgotten <= Resets * Limit
    BY <1>1 DEF ForgottenInv
  <2>4. Forgotten' <= Resets * Limit
    BY <1>1, <2>1, <2>3
  <2>5. Limit' = Limit
    BY DEF Limit, MaxThread
  <2> QED
    BY <2>2, <2>4, <2>5 DEF ForgottenInv
<1> QED
  BY <1>2, <1>3

LEMMA LiveFollows ==
  ASSUME IsFiniteSet(Workers), TypeOK, PoolBounded, BatchInv, ForgottenInv
  PROVE  LiveBounded
<1>1. /\ Cardinality(Alive) \in Nat /\ hups \in Nat /\ Limit \in Nat
      /\ ThreadsCount \in Int
  BY AliveFinite, PoolAssumption DEF TypeOK, Limit, MaxThread
<1>2. ThreadsCount + New <= Limit
  BY <1>1, PoolAssumption DEF New, PoolBounded, BatchInv, Limit, MaxThread
<1>3. New \in {0, 1} /\ Cardinality(Alive) = Forgotten + ThreadsCount + New
  BY <1>1 DEF Forgotten, New
<1>4. hups * Limit \in Nat /\ Forgotten <= hups * Limit
  <2>1. hups * Limit \in Nat /\ (hups - 1) * Limit = hups * Limit - Limit
    BY <1>1
  <2>2. Resets = hups \/ Resets = hups - 1
    BY <1>1 DEF Resets
  <2>3. Forgotten \in Int /\ Forgotten <= Resets * Limit
    BY AliveFinite DEF ForgottenInv
  <2> QED
    BY <1>1, <2>1, <2>2, <2>3
<1>5. (hups + 1) * Limit = hups * Limit + Limit
  BY <1>1
<1> QED
  BY <1>1, <1>2, <1>3, <1>4, <1>5, AliveFinite DEF LiveBounded

\* Whatever threads, clients and signals do while main works with counts that
\* may be old: the live threads, those a restart has forgotten included, are
\* no more than the limit and a batch less one for each server there has been.
THEOREM LimitHolds == IsFiniteSet(Workers) => (Spec => []LiveBounded)
<1> SUFFICES ASSUME IsFiniteSet(Workers)
             PROVE  Spec => []LiveBounded
  OBVIOUS
<1>1. Init => ForgottenInv
  <2> SUFFICES ASSUME Init
               PROVE  ForgottenInv
    OBVIOUS
  <2>1. ThreadsCount = 0 /\ mpc = "check" /\ hup = "off" /\ hups = 0
    BY Zenon DEF Init
  <2>2. Alive = {}
    BY Zenon DEF Init, Alive
  <2>3. Limit \in Nat
    BY PoolAssumption DEF Limit, MaxThread
  <2>4. Forgotten = 0 /\ Resets * Limit = 0
    BY <2>1, <2>2, <2>3, FS_EmptySet DEF Forgotten, New, Resets
  <2> QED
    BY <2>1, <2>4 DEF ForgottenInv
<1>2. TypeOK /\ PoolBounded /\ ForgottenInv /\ [Next]_vars => ForgottenInv'
  BY StepForgottenInv
<1>3. TypeOK /\ PoolBounded /\ BatchInv /\ ForgottenInv => LiveBounded
  BY LiveFollows
<1> QED
  BY <1>1, <1>2, <1>3, CountLimited, PTL DEF Spec

-----------------------------------------------------------------------------
(* Until a restart, every thread is counted once.                          *)

RunInv == hups = 0 => hup = "off" /\ bThreadKillSwitch = FALSE

LEMMA StepRun == TypeOK /\ RunInv /\ [Next]_vars => RunInv'
<1> SUFFICES ASSUME TypeOK, RunInv, [Next]_vars, hups' = 0
             PROVE  hup' = "off" /\ bThreadKillSwitch' = FALSE
  BY DEF RunInv
<1>1. CASE HandleSIGHUP
  <2>1. ~ReceiveSIGHUP
    BY DEF ReceiveSIGHUP, TypeOK
  <2>2. hups = 0
    BY <1>1, <2>1 DEF HandleSIGHUP, CloseMaster, ListSSocks,
       CloseSSock, ResetThreadsCount, ResetActiveThreads, StopKillIdles, StartServer, setSigHupFlag, NotifySelf,
       SignalStep
  <2>3. hup = "off"
    BY <2>2, Zenon DEF RunInv
  <2> QED
    BY <1>1, <2>1, <2>3 DEF HandleSIGHUP, CloseMaster, ListSSocks,
       CloseSSock, ResetThreadsCount, ResetActiveThreads, StopKillIdles, StartServer, setSigHupFlag, NotifySelf,
       SignalStep
<1>2. CASE ~HandleSIGHUP
  <2>1. hup' = hup /\ hups' = hups /\ bThreadKillSwitch' = bThreadKillSwitch
    <3>1. CASE \E w \in Workers : Quit(w) \/ Serve(w)
      <4> SUFFICES ASSUME NEW w \in Workers, Quit(w) \/ Serve(w)
                   PROVE  hup' = hup /\ hups' = hups /\ bThreadKillSwitch' = bThreadKillSwitch
        BY <3>1
      <4>1. CASE Local(w)
        BY <4>1, Zenon DEF Local, Top, TryQuitting, SwitchQuitting, TestFull,
           ClearSwitch, PollThrows, PollReady, EndSession, SessionThrows, TestKill,
           ReadCount, TestIdle, switches, signal
      <4>2. CASE Socket(w)
        BY <4>2, Zenon DEF Socket, Accept, AcceptFails, addSScokRef, removeSScokRef,
           CloseSocket, ShutdownSocket, switches, signal
      <4>3. CASE Counting(w)
        BY <4>3, Zenon DEF Counting, CountQuitting, Uncount, ResetQuitting,
           SetActive, NotifyMain, notActive, switches, signal
      <4> QED
        BY <4>1, <4>2, <4>3, WorkerCases
    <3>2. CASE Main
      BY <3>2, Zenon DEF Main, MainLoop, MainStep, CheckCount, CheckActive, trySighupFlag,
         CheckLimit, MainSleeps, MainWakesSpuriously, SpawnWorker, ThreadCreated,
         SpawningDone, switches, signal
    <3>3. CASE (\E s \in Servers : Connect(s)) \/ UNCHANGED vars
      BY <3>3, Zenon DEF Connect, vars, switches, signal
    <3> QED
      BY <1>2, <3>1, <3>2, <3>3 DEF Next
  <2> QED
    BY <2>1, Zenon DEF RunInv
<1> QED
  BY <1>1, <1>2

\* Without a signal, HandleSIGHUP takes no step.
LEMMA BeforeRestart ==
  ASSUME TypeOK, RunInv, [Next]_vars, hups' = 0
  PROVE  hups = 0 /\ ~HandleSIGHUP
<1>1. CASE HandleSIGHUP
  <2>1. ~ReceiveSIGHUP
    BY DEF ReceiveSIGHUP, TypeOK
  <2>2. hups = 0 /\ hup # "off"
    BY <1>1, <2>1 DEF HandleSIGHUP, CloseMaster, ListSSocks,
       CloseSSock, ResetThreadsCount, ResetActiveThreads, StopKillIdles, StartServer, setSigHupFlag, NotifySelf,
       SignalStep
  <2> QED
    BY <2>2, Zenon DEF RunInv
<1>2. CASE ~HandleSIGHUP
  BY <1>2, Zenon DEF Next, vars, signal, Quit, Serve, Main, MainLoop, MainStep,
     Top, TryQuitting, SwitchQuitting, CountQuitting,
     Uncount, TestFull, ClearSwitch, ResetQuitting, PollThrows, PollReady, Accept,
     AcceptFails, addSScokRef, SetActive, NotifyMain, EndSession, SessionThrows,
     removeSScokRef, CloseSocket, ShutdownSocket, notActive, TestKill, ReadCount,
     TestIdle, CheckCount, CheckActive, trySighupFlag, CheckLimit, MainSleeps,
     MainWakesSpuriously, SpawnWorker, ThreadCreated, SpawningDone, Connect
<1> QED
  BY <1>1, <1>2

LEMMA StepExact ==
  ASSUME IsFiniteSet(Workers), TypeOK, RunInv, CountExact, [Next]_vars
  PROVE  CountExact'
<1> SUFFICES ASSUME hups' = 0
             PROVE  (ThreadsCount + New = Cardinality(Alive))'
  BY DEF CountExact, New
<1>1. hups = 0 /\ ~HandleSIGHUP
  BY BeforeRestart
<1>2. ThreadsCount + New = Cardinality(Alive) /\ bThreadKillSwitch = FALSE
  BY <1>1, Zenon DEF CountExact, New, RunInv
<1>3. Forgotten' = Forgotten
  BY <1>1, <1>2, StepForgotten DEF HandleSIGHUP
<1>4. Forgotten = 0 /\ TypeOK'
  BY <1>2, StepType, AliveFinite DEF Forgotten, TypeOK
<1> QED
  BY <1>3, <1>4, AliveFiniteNext DEF Forgotten, TypeOK

\* Until a restart, ThreadsCount is exact: no interleaving of creating and
\* quitting loses a thread or counts one twice.
THEOREM ThreadsCounted == IsFiniteSet(Workers) => (Spec => []CountExact)
<1> SUFFICES ASSUME IsFiniteSet(Workers)
             PROVE  Spec => []CountExact
  OBVIOUS
<1>1. Init => CountExact /\ RunInv
  <2> SUFFICES ASSUME Init
               PROVE  CountExact /\ RunInv
    OBVIOUS
  <2>1. ThreadsCount = 0 /\ mpc = "check" /\ RunInv
    BY Zenon DEF Init, RunInv
  <2>2. Alive = {}
    BY Zenon DEF Init, Alive
  <2>3. Cardinality({}) = 0
    BY FS_EmptySet
  <2> QED
    BY <2>1, <2>2, <2>3 DEF CountExact
<1>2. TypeOK /\ RunInv /\ CountExact /\ [Next]_vars => RunInv' /\ CountExact'
  BY StepRun, StepExact
<1> QED
  BY <1>1, <1>2, TypeCorrect, PTL DEF Spec
=============================================================================
