------------------------------ MODULE ThreadPool ------------------------------
(***************************************************************************)
(* The worker threads: class ThreadsMan, the loop in main that creates     *)
(* them, and HandleSIGHUP, which restarts the server.  The counters and    *)
(* switches are atomics; a step is one access to one of them, one system   *)
(* call, or one call under SSocksLock.  A session stands for ShellCallback *)
(* or FileCallback on one connection and may take any time.                *)
(***************************************************************************)
EXTENDS Integers, FiniteSets

CONSTANTS
  Workers,   \* threads there can be at once
  Servers,   \* the master sockets by their index: 0 the shell's, 1 the files'
  Fds,       \* descriptors accept may return
  T_incr,    \* threads created, or quitting, at a time (option -t)
  tmax,      \* option -T
  Backlog,   \* connections waiting on a master socket
  MaxHups,   \* SIGHUPs the server receives
  NoFd,      \* accept's -1
  NoServer   \* no master socket polled

ASSUME PoolAssumption ==
  /\ T_incr \in Nat \ {0} /\ tmax \in Nat \ {0}
  /\ Backlog \in Nat /\ MaxHups \in Nat
  /\ NoFd \notin Fds
  /\ Servers \subseteq Nat /\ NoServer \notin Servers

VARIABLES
  ThreadsCount, ActiveThreads, QuitingThreads,   \* std::atomic<int>
  bThreadQuitSwitch, bThreadKillSwitch,          \* std::atomic<bool>
  bSIGHUPReceived,                               \* std::atomic<bool>
  SSocksRef,   \* std::vector<int>: how often it lists each socket
  listening,   \* the master sockets that are open under the number polled
  pending,     \* connections waiting on each master socket
  sock,        \* each accepted socket: closed, open, or shut for writing
  pc, n, srv, fd,     \* per worker: step, and its locals
  mpc, mN, mWant, i,  \* the main thread: step, and its locals
  hup, hups,          \* HandleSIGHUP's step; signals received
  todo                \* the entries CloseAllSSocks has still to visit

counters == <<ThreadsCount, ActiveThreads, QuitingThreads>>
switches == <<bThreadQuitSwitch, bThreadKillSwitch, bSIGHUPReceived>>
sockets  == <<SSocksRef, listening, pending, sock>>
locals   == <<n, srv, fd>>
main     == <<mpc, mN, mWant, i>>
signal   == <<hup, hups, todo>>
vars == <<counters, switches, sockets, pc, locals, main, signal>>

MaxThread == T_incr + tmax

\* The steps of tryThreadQuitting once it has decided to quit; in the last
\* three the thread is no longer counted.
Uncounted == {"full", "clear", "reset"}
Quitting  == {"switch", "quit", "uncount"} \cup Uncounted
\* A client is connected to the worker, from accept to close.
Serving == {"active", "notify", "session", "unref", "close"}
Counted == {"notify", "session", "unref", "close", "shutdown", "inactive"}
Steps == {"none", "top", "try", "tryLate", "poll", "accept", "ref", "kill",
          "count", "end"} \cup Quitting \cup Serving \cup Counted

Goto(w, s) == pc' = [pc EXCEPT ![w] = s]

-----------------------------------------------------------------------------
(* tryThreadQuitting, from the top of the loop ("try") or from its end     *)
(* ("tryLate").                                                            *)

Top(w) ==
  /\ pc[w] = "top"
  /\ Goto(w, IF bThreadQuitSwitch THEN "try" ELSE "poll")
  /\ UNCHANGED <<counters, switches, sockets, locals, main, signal>>

TryQuitting(w) ==
  /\ pc[w] \in {"try", "tryLate"}
  /\ Goto(w, IF QuitingThreads + 1 > T_incr
             THEN IF pc[w] = "try" THEN "poll" ELSE "top"
             ELSE "switch")
  /\ UNCHANGED <<counters, switches, sockets, locals, main, signal>>

SwitchQuitting(w) ==
  /\ pc[w] = "switch"
  /\ bThreadQuitSwitch' = TRUE
  /\ Goto(w, "quit")
  /\ UNCHANGED <<counters, bThreadKillSwitch, bSIGHUPReceived, sockets, locals,
                 main, signal>>

CountQuitting(w) ==
  /\ pc[w] = "quit"
  /\ QuitingThreads' = QuitingThreads + 1
  /\ Goto(w, "uncount")
  /\ UNCHANGED <<ThreadsCount, ActiveThreads, switches, sockets, locals, main,
                 signal>>

\* Faulty variant: the thread quits without being taken off the count.
UncountForgotten(w) ==
  /\ pc[w] = "uncount"
  /\ Goto(w, "full")
  /\ UNCHANGED <<counters, switches, sockets, locals, main, signal>>

Uncount(w) ==
  /\ pc[w] = "uncount"
  /\ ThreadsCount' = ThreadsCount - 1
  /\ Goto(w, "full")
  /\ UNCHANGED <<ActiveThreads, QuitingThreads, switches, sockets, locals, main,
                 signal>>

TestFull(w) ==
  /\ pc[w] = "full"
  /\ Goto(w, IF QuitingThreads = T_incr THEN "clear" ELSE "none")
  /\ UNCHANGED <<counters, switches, sockets, locals, main, signal>>

ClearSwitch(w) ==
  /\ pc[w] = "clear"
  /\ bThreadQuitSwitch' = FALSE
  /\ Goto(w, "reset")
  /\ UNCHANGED <<counters, bThreadKillSwitch, bSIGHUPReceived, sockets, locals,
                 main, signal>>

ResetQuitting(w) ==
  /\ pc[w] = "reset"
  /\ QuitingThreads' = 0
  /\ Goto(w, "none")
  /\ UNCHANGED <<ThreadsCount, ActiveThreads, switches, sockets, locals, main,
                 signal>>

-----------------------------------------------------------------------------
(* ForeRunner: accept a connection and serve it.                           *)

Readable(s) == pending[s] > 0 \/ s \notin listening

\* A timeout, or master sockets that are closed: PollEither throws.
PollThrows(w) ==
  /\ pc[w] = "poll"
  /\ \A s \in Servers : pending[s] = 0
  /\ Goto(w, "kill")
  /\ UNCHANGED <<counters, switches, sockets, locals, main, signal>>

\* Faulty variant: any socket that is readable is taken.
PollReadyAny(w) ==
  /\ pc[w] = "poll"
  /\ \E s \in Servers : Readable(s) /\ srv' = [srv EXCEPT ![w] = s]
  /\ Goto(w, "accept")
  /\ UNCHANGED <<counters, switches, sockets, n, fd, main, signal>>

\* A socket is readable for every worker that polls it; shutting it down may
\* make it readable too.  Of two that are, the first is taken.
PollReady(w) ==
  /\ pc[w] = "poll"
  /\ \E s \in Servers :
       /\ Readable(s) /\ \A r \in Servers : pending[r] > 0 => s <= r
       /\ srv' = [srv EXCEPT ![w] = s]
  /\ Goto(w, "accept")
  /\ UNCHANGED <<counters, switches, sockets, n, fd, main, signal>>

\* Faulty variant: a connection is taken for granted after poll.
AcceptUnchecked(w) ==
  /\ pc[w] = "accept" /\ srv[w] \in listening
  /\ pending' = [pending EXCEPT ![srv[w]] = @ - 1]
  /\ \E f \in Fds :
       /\ sock[f] = "closed"
       /\ sock' = [sock EXCEPT ![f] = "open"]
       /\ fd'   = [fd   EXCEPT ![w] = f]
  /\ srv' = [srv EXCEPT ![w] = NoServer]
  /\ Goto(w, "ref")
  /\ UNCHANGED <<counters, switches, SSocksRef, listening, n, main, signal>>

\* The sockets are blocking: accept waits for a connection.
Accept(w) ==
  /\ pc[w] = "accept" /\ srv[w] \in listening
  /\ pending[srv[w]] > 0
  /\ pending' = [pending EXCEPT ![srv[w]] = @ - 1]
  /\ \E f \in Fds :
       /\ sock[f] = "closed"
       /\ sock' = [sock EXCEPT ![f] = "open"]
       /\ fd'   = [fd   EXCEPT ![w] = f]
  /\ srv' = [srv EXCEPT ![w] = NoServer]
  /\ Goto(w, "ref")
  /\ UNCHANGED <<counters, switches, SSocksRef, listening, n, main, signal>>

\* The master socket was shut down, or there is no descriptor left.
AcceptFails(w) ==
  /\ pc[w] = "accept"
  /\ srv[w] \notin listening \/ \A f \in Fds : sock[f] # "closed"
  /\ srv' = [srv EXCEPT ![w] = NoServer]
  /\ Goto(w, "ref")
  /\ UNCHANGED <<counters, switches, sockets, n, fd, main, signal>>

\* addSScokRef is called even if accept's result is -1; entries of -1, on
\* which shutdown and close fail, are left out.  Where push_back moves the
\* vector, CloseAllSSocks, which takes no lock, goes on in freed memory: any
\* of the entries it has not visited may be gone.
addSScokRef(w) ==
  /\ pc[w] = "ref"
  /\ SSocksRef' = [f \in Fds |-> SSocksRef[f] + (IF f = fd[w] THEN 1 ELSE 0)]
  /\ Goto(w, IF fd[w] = NoFd THEN "kill" ELSE "active")
  /\ todo' \in SUBSET todo
  /\ UNCHANGED <<counters, switches, listening, pending, sock, locals, main,
                 hup, hups>>

SetActive(w) ==
  /\ pc[w] = "active"
  /\ ActiveThreads' = ActiveThreads + 1
  /\ Goto(w, "notify")
  /\ UNCHANGED <<ThreadsCount, QuitingThreads, switches, sockets, locals, main,
                 signal>>

\* notify_one is lost unless main already sleeps.
WakeMain == mpc' = IF mpc = "asleep" THEN "check" ELSE mpc

NotifyMain(w) ==
  /\ pc[w] = "notify"
  /\ WakeMain
  /\ Goto(w, "session")
  /\ UNCHANGED <<counters, switches, sockets, locals, mN, mWant, i, signal>>

\* Faulty variant: the socket is closed while it is still listed.
EndSessionUnlisted(w) ==
  /\ pc[w] = "session"
  /\ sock' = [sock EXCEPT ![fd[w]] = "closed"]
  /\ Goto(w, "unref")
  /\ UNCHANGED <<counters, switches, SSocksRef, listening, pending, locals, main,
                 signal>>

EndSession(w) ==
  /\ pc[w] = "session"
  /\ Goto(w, "unref")
  /\ UNCHANGED <<counters, switches, sockets, locals, main, signal>>

\* The callback throws (a request without a word in it): the catch clause
\* skips everything that follows the call.
SessionThrows(w) ==
  /\ pc[w] = "session"
  /\ fd' = [fd EXCEPT ![w] = NoFd]
  /\ Goto(w, "kill")
  /\ UNCHANGED <<counters, switches, sockets, n, srv, main, signal>>

\* Erasing an entry shifts those behind it: CloseAllSSocks skips one.
SkipEntry == todo' \in {todo} \cup {todo \ {f} : f \in todo}

\* Faulty variant: the loop goes on after the first match.
removeAllSScokRef(w) ==
  /\ pc[w] = "unref"
  /\ SSocksRef' = [SSocksRef EXCEPT ![fd[w]] = 0]
  /\ SkipEntry
  /\ Goto(w, "close")
  /\ UNCHANGED <<counters, switches, listening, pending, sock, locals, main,
                 hup, hups>>

removeSScokRef(w) ==
  /\ pc[w] = "unref"
  /\ SSocksRef' = [SSocksRef EXCEPT ![fd[w]] = IF @ > 0 THEN @ - 1 ELSE 0]
  /\ SkipEntry
  /\ Goto(w, "close")
  /\ UNCHANGED <<counters, switches, listening, pending, sock, locals, main,
                 hup, hups>>

CloseSocket(w) ==
  /\ pc[w] = "close"
  /\ sock' = [sock EXCEPT ![fd[w]] = "closed"]
  /\ Goto(w, "shutdown")
  /\ UNCHANGED <<counters, switches, SSocksRef, listening, pending, locals, main,
                 signal>>

\* Faulty variant: the socket is closed once more.
ShutdownSocketCloses(w) ==
  /\ pc[w] = "shutdown"
  /\ sock' = [sock EXCEPT ![fd[w]] = "closed"]
  /\ fd'   = [fd   EXCEPT ![w] = NoFd]
  /\ Goto(w, "inactive")
  /\ UNCHANGED <<counters, switches, SSocksRef, listening, pending, n, srv, main,
                 signal>>

\* shutdown comes after close: it acts on whoever has the descriptor by now.
ShutdownSocket(w) ==
  /\ pc[w] = "shutdown"
  /\ sock' = [sock EXCEPT ![fd[w]] = IF @ = "open" THEN "shut" ELSE @]
  /\ fd'   = [fd   EXCEPT ![w] = NoFd]
  /\ Goto(w, "inactive")
  /\ UNCHANGED <<counters, switches, SSocksRef, listening, pending, n, srv, main,
                 signal>>

\* Faulty variant: a worker that served a client stays counted as active.
notActiveForgotten(w) ==
  /\ pc[w] = "inactive"
  /\ Goto(w, "kill")
  /\ UNCHANGED <<counters, switches, sockets, locals, main, signal>>

notActive(w) ==
  /\ pc[w] = "inactive"
  /\ ActiveThreads' = ActiveThreads - 1
  /\ Goto(w, "kill")
  /\ UNCHANGED <<ThreadsCount, QuitingThreads, switches, sockets, locals, main,
                 signal>>

\* A killed thread leaves without touching the counters.
TestKill(w) ==
  /\ pc[w] = "kill"
  /\ Goto(w, IF bThreadKillSwitch THEN "none" ELSE "count")
  /\ UNCHANGED <<counters, switches, sockets, locals, main, signal>>

ReadCount(w) ==
  /\ pc[w] = "count"
  /\ n' = [n EXCEPT ![w] = ThreadsCount]
  /\ Goto(w, "end")
  /\ UNCHANGED <<counters, switches, sockets, srv, fd, main, signal>>

\* With enough idle threads by a count that may be old, begin quitting.
TestIdle(w) ==
  /\ pc[w] = "end"
  /\ Goto(w, IF n[w] > T_incr /\ ActiveThreads < n[w] - T_incr - 1
             THEN "tryLate" ELSE "top")
  /\ n' = [n EXCEPT ![w] = 0]
  /\ UNCHANGED <<counters, switches, sockets, srv, fd, main, signal>>

-----------------------------------------------------------------------------
(* The main thread: wait until more threads are needed, then create them.  *)

MainStep == hup = "off" /\ UNCHANGED <<sockets, locals, signal>>

CheckCount ==
  /\ MainStep
  /\ mpc = "check" /\ mpc' = "active"
  /\ mN' = ThreadsCount
  /\ UNCHANGED <<counters, switches, pc, mWant, i>>

CheckActive ==
  /\ MainStep
  /\ mpc = "active" /\ mpc' = "sighup"
  /\ mWant' = (mN = ActiveThreads)
  /\ mN' = 0
  /\ UNCHANGED <<counters, switches, pc, i>>

\* The flag is consumed even if the limit then forbids any thread.
trySighupFlag ==
  /\ MainStep
  /\ mpc = "sighup" /\ mpc' = "limit"
  /\ bSIGHUPReceived' = FALSE
  /\ mWant' = (mWant \/ bSIGHUPReceived)
  /\ UNCHANGED <<counters, bThreadQuitSwitch, bThreadKillSwitch, pc, mN, i>>

\* Faulty variant: at the limit, threads are still created.
CheckLimitOff ==
  /\ MainStep
  /\ mpc = "limit"
  /\ IF mWant /\ ThreadsCount <= MaxThread
     THEN mpc' = "spawn" /\ i' = 1 ELSE mpc' = "block" /\ UNCHANGED i
  /\ mWant' = FALSE
  /\ UNCHANGED <<counters, switches, pc, mN>>

CheckLimit ==
  /\ MainStep
  /\ mpc = "limit"
  /\ IF mWant /\ ThreadsCount < MaxThread
     THEN mpc' = "spawn" /\ i' = 1 ELSE mpc' = "block" /\ UNCHANGED i
  /\ mWant' = FALSE
  /\ UNCHANGED <<counters, switches, pc, mN>>

\* Only from here on does a notification reach the main thread.
MainSleeps ==
  /\ MainStep
  /\ mpc = "block" /\ mpc' = "asleep"
  /\ UNCHANGED <<counters, switches, pc, mN, mWant, i>>

MainWakesSpuriously ==
  /\ MainStep
  /\ mpc = "asleep" /\ mpc' = "check"
  /\ UNCHANGED <<counters, switches, pc, mN, mWant, i>>

MoreToCreate == i <= T_incr

\* The thread runs as soon as it is created; it is counted afterwards.
SpawnWorker ==
  /\ MainStep
  /\ mpc = "spawn" /\ MoreToCreate
  /\ \E w \in Workers : pc[w] = "none" /\ Goto(w, "top")
  /\ mpc' = "count"
  /\ UNCHANGED <<counters, switches, mN, mWant, i>>

ThreadCreated ==
  /\ MainStep
  /\ mpc = "count" /\ mpc' = "spawn"
  /\ ThreadsCount' = ThreadsCount + 1
  /\ i' = i + 1
  /\ UNCHANGED <<ActiveThreads, QuitingThreads, switches, pc, mN, mWant>>

SpawningDone ==
  /\ MainStep
  /\ mpc = "spawn" /\ ~MoreToCreate
  /\ mpc' = "check" /\ i' = 0
  /\ UNCHANGED <<counters, switches, pc, mN, mWant>>

-----------------------------------------------------------------------------
(* HandleSIGHUP, run by the main thread wherever the signal finds it.      *)

SignalStep(from, to) == hup = from /\ hup' = to /\ UNCHANGED <<hups, locals>>

ReceiveSIGHUP ==
  /\ hup = "off" /\ hup' = "masters"
  /\ hups < MaxHups /\ hups' = hups + 1
  /\ bThreadKillSwitch' = TRUE
  /\ UNCHANGED <<counters, bThreadQuitSwitch, bSIGHUPReceived, sockets, pc,
                 locals, main, todo>>

\* The shell's first.
CloseMaster ==
  /\ SignalStep("masters", "masters")
  /\ \E s \in listening :
       /\ \A r \in listening : s <= r
       /\ listening' = listening \ {s}
       /\ pending' = [pending EXCEPT ![s] = 0]
  /\ UNCHANGED <<counters, switches, SSocksRef, sock, pc, main, todo>>

\* CloseAllSSocks: a loop over the list as it is now, without SSocksLock.
ListSSocks ==
  /\ SignalStep("masters", "clients")
  /\ listening = {}
  /\ todo' = {f \in Fds : SSocksRef[f] > 0}
  /\ UNCHANGED <<counters, switches, sockets, pc, main>>

\* An entry that is met twice is closed twice: no connection is accepted in
\* between, the master sockets being closed.
CloseSSock ==
  /\ SignalStep("clients", "clients")
  /\ \E f \in todo :
       /\ sock' = [sock EXCEPT ![f] = "closed"]
       /\ todo' = todo \ {f}
  /\ UNCHANGED <<counters, switches, SSocksRef, listening, pending, pc, main>>

\* RestThreadsCounters, after one second: whoever has not looked at the kill
\* switch by StopKillIdles goes on, uncounted.
ResetThreadsCount ==
  /\ SignalStep("clients", "reset")
  /\ todo = {}
  /\ ThreadsCount' = 0
  /\ UNCHANGED <<ActiveThreads, QuitingThreads, switches, sockets, pc, main, todo>>

ResetActiveThreads ==
  /\ SignalStep("reset", "unkill")
  /\ ActiveThreads' = 0
  /\ UNCHANGED <<ThreadsCount, QuitingThreads, switches, sockets, pc, main, todo>>

StopKillIdles ==
  /\ SignalStep("unkill", "start")
  /\ bThreadKillSwitch' = FALSE
  /\ UNCHANGED <<counters, bThreadQuitSwitch, bSIGHUPReceived, sockets, pc, main,
                 todo>>

\* The exception of a failed socket, bind or listen is only logged: the master
\* sockets after the one that failed do not exist.  The workers then poll the
\* old numbers, which a shell socket that was opened may have got again.
StartServer ==
  /\ SignalStep("start", "flag")
  /\ \E opened \in SUBSET Servers :
       /\ \A s \in opened, r \in Servers : r < s => r \in opened
       /\ listening' = opened
  /\ UNCHANGED <<counters, switches, SSocksRef, pending, sock, pc, main, todo>>

setSigHupFlag ==
  /\ SignalStep("flag", "notify")
  /\ bSIGHUPReceived' = TRUE
  /\ UNCHANGED <<counters, bThreadQuitSwitch, bThreadKillSwitch, sockets, pc, main,
                 todo>>

NotifySelf ==
  /\ SignalStep("notify", "off")
  /\ WakeMain
  /\ UNCHANGED <<counters, switches, sockets, pc, mN, mWant, i, todo>>

-----------------------------------------------------------------------------

Connect(s) ==
  /\ s \in listening
  /\ pending[s] < Backlog
  /\ pending' = [pending EXCEPT ![s] = @ + 1]
  /\ UNCHANGED <<counters, switches, SSocksRef, listening, sock, pc, locals,
                 main, signal>>

Init ==
  /\ ThreadsCount = 0 /\ ActiveThreads = 0 /\ QuitingThreads = 0
  /\ bThreadQuitSwitch = FALSE /\ bThreadKillSwitch = FALSE
  /\ bSIGHUPReceived = FALSE
  /\ SSocksRef = [f \in Fds |-> 0]
  /\ listening = Servers
  /\ pending = [s \in Servers |-> 0]
  /\ sock = [f \in Fds |-> "closed"]
  /\ pc   = [w \in Workers |-> "none"]
  /\ n    = [w \in Workers |-> 0]
  /\ srv  = [w \in Workers |-> NoServer]
  /\ fd   = [w \in Workers |-> NoFd]
  /\ mpc = "check" /\ mN = 0 /\ mWant = FALSE /\ i = 0
  /\ hup = "off" /\ hups = 0 /\ todo = {}

Quit(w) ==
  \/ Top(w) \/ TryQuitting(w) \/ SwitchQuitting(w) \/ CountQuitting(w)
  \/ Uncount(w) \/ TestFull(w) \/ ClearSwitch(w) \/ ResetQuitting(w)

Serve(w) ==
  \/ PollThrows(w) \/ PollReady(w) \/ Accept(w) \/ AcceptFails(w)
  \/ addSScokRef(w) \/ SetActive(w) \/ NotifyMain(w)
  \/ EndSession(w) \/ SessionThrows(w)
  \/ removeSScokRef(w) \/ CloseSocket(w) \/ ShutdownSocket(w) \/ notActive(w)
  \/ TestKill(w) \/ ReadCount(w) \/ TestIdle(w)

MainLoop ==
  \/ CheckCount \/ CheckActive \/ trySighupFlag \/ CheckLimit
  \/ MainSleeps \/ SpawnWorker \/ ThreadCreated \/ SpawningDone

Main == MainLoop \/ MainWakesSpuriously

HandleSIGHUP ==
  \/ ReceiveSIGHUP \/ CloseMaster \/ ListSSocks \/ CloseSSock
  \/ ResetThreadsCount \/ ResetActiveThreads \/ StopKillIdles \/ StartServer
  \/ setSigHupFlag \/ NotifySelf

Next ==
  \/ \E w \in Workers : Quit(w) \/ Serve(w)
  \/ Main
  \/ HandleSIGHUP
  \/ \E s \in Servers : Connect(s)

Spec == Init /\ [][Next]_vars

\* Every thread that can move does, sessions end because clients leave, and
\* nothing obliges the library to wake main.
Fairness ==
  /\ \A w \in Workers : WF_vars(Quit(w)) /\ WF_vars(Serve(w))
  /\ WF_vars(MainLoop)

-----------------------------------------------------------------------------
(* What should hold.                                                       *)

\* The variables keep their types.
TypeOK ==
  /\ ThreadsCount \in Int /\ ActiveThreads \in Int /\ QuitingThreads \in Nat
  /\ bThreadQuitSwitch \in BOOLEAN /\ bThreadKillSwitch \in BOOLEAN
  /\ bSIGHUPReceived \in BOOLEAN
  /\ SSocksRef \in [Fds -> Nat]
  /\ listening \subseteq Servers
  /\ pending \in [Servers -> Nat]
  /\ sock \in [Fds -> {"closed", "open", "shut"}]
  /\ pc   \in [Workers -> Steps]
  /\ n    \in [Workers -> Int]
  /\ srv  \in [Workers -> Servers \cup {NoServer}]
  /\ fd   \in [Workers -> Fds \cup {NoFd}]
  /\ mpc \in {"check", "active", "sighup", "limit", "block", "asleep", "spawn",
              "count"}
  /\ mN \in Int /\ mWant \in BOOLEAN /\ i \in Nat
  /\ hup \in {"off", "masters", "clients", "reset", "unkill", "start", "flag",
              "notify"}
  /\ hups \in Nat /\ todo \subseteq Fds

Alive == {w \in Workers : pc[w] \notin {"none"} \cup Uncounted}

Limit == MaxThread + T_incr - 1

\* However stale the counts main creates threads by, there are at most
\* MaxThread of them and a batch less one, until a restart.  Each restart may
\* add as many: it sets the count to 0 under the threads that have missed the
\* kill switch, and main creates up to the limit beside them.
LiveBounded == Cardinality(Alive) <= (hups + 1) * Limit

\* Until a restart, ThreadsCount is the number of threads that have neither
\* quit nor just been created: none is lost, none quits twice.
CountExact ==
  hups = 0 =>
    ThreadsCount + (IF mpc = "count" THEN 1 ELSE 0) = Cardinality(Alive)

\* Sockets whose session threw, which no worker will close.
Orphans ==
  {f \in Fds : /\ sock[f] # "closed"
               /\ \A w \in Workers : fd[w] = f => pc[w] \notin {"ref"} \cup Serving}

\* Until a restart, ActiveThreads counts the workers between setActive and
\* notActive, and for good each session that threw.
ActiveExact ==
  hups = 0 =>
    ActiveThreads = Cardinality({w \in Workers : pc[w] \in Counted})
                    + Cardinality(Orphans)

\* Until a restart, SSocksRef lists no socket that is closed: closing what
\* it lists never closes a descriptor that has become somebody else's.
RefsOpen == hups = 0 => \A f \in Fds : SSocksRef[f] > 0 => sock[f] # "closed"

\* As long as the server is not restarted, a connection is served and closed
\* by the worker that accepted it and by no other, although close comes before
\* shutdown and poll and accept may be raced for.
Connected == {f \in Fds : sock[f] # "closed"}
Serves == {p \in Workers \X Fds : fd[p[1]] = p[2] /\ pc[p[1]] \in {"ref"} \cup Serving}

One == INSTANCE OneWorker WITH connected <- Connected, serves <- Serves

ServedByOne == One!Spec

\* SSocksRef lists every session, also when a session of the old server and
\* one of the new have the same descriptor: a restart or SIGQUIT ends them all.
SessionsListed ==
  \A f \in Fds :
    SSocksRef[f] >= Cardinality({w \in Workers :
      fd[w] = f /\ pc[w] \in {"active", "notify", "session", "unref"}})

\* A connection to the shell server is accepted in the end, and one to the
\* file server once no shell client comes before it, although main may miss
\* the notification that every worker is busy and workers may be stuck in
\* accept on a socket another one has emptied.  (No session throws.)
ConnectionServed ==
  [](Orphans = {}) =>
    \A s \in Servers :
      <>[](\A r \in Servers : r < s => pending[r] = 0) =>
        (pending[s] > 0 ~> pending[s] = 0)

\* "Main thread handle creation while threads themselves handle accepting"
\* (main.cpp): main never sleeps without a thread left to accept.
AcceptorsRemain == mpc = "asleep" => Alive # {}

=============================================================================
