# A specification of shfd, the TCP shell and file server

`shfd` is a Linux daemon written in C++. It listens on two ports: a *shell
server* that runs commands and keeps the output of the last one, and a *file
server* with the commands FOPEN, FSEEK, FREAD, FWRITE and FCLOSE. Worker threads
accept connections by themselves; the main thread only creates workers. In
*replica mode* (option `-p`) every file command is repeated on the peers.

This directory holds TLA+ modules translated from the source, TLC
configurations that check them on small instances, and proofs checked by TLAPS.
Source paths below are relative to `src/src`.

## 1. Inventory

| Part | Where | State it keeps | Operations |
|---|---|---|---|
| File access control | `components/FileClient.*` | static, shared by all workers and protected by no lock: `OpenedFiles`, `FdToName`, `NameToFd`, `FILE_ACCESS`; per file an `AccessCtl` (`reading`, `writing`, `bIsClosing`, `writeLock`, three condition variables); the kernel's descriptor table | FOPEN, FSEEK, FREAD, FWRITE, FCLOSE, SYNCSEEK, SYNCREAD, SYNCWRITE, SYNCCLOSE, CleanUp |
| Worker pool | `threads/*`, loop of `main.cpp` | atomics `ThreadsCount`, `ActiveThreads`, `QuitingThreads`, two switches, the SIGHUP flag; `SSocksRef`; `NeedMoreThreads` | ForeRunner, tryThreadQuitting, addSScokRef, removeSScokRef, CloseAllSSocks, setActiveAndNotify, notActive, CreateThreads |
| Restart and quit | `main.cpp` 594-654 | the same, and the master sockets | HandleSIGHUP, HandleSIGQUIT |
| Replica mode | `main.cpp` 174-453, SYNC commands | `PeersAddrs`; per command the tasks, their answers and the vote | FileCallback, HandleSync, SyncRequestBuilder |
| Shell server | `main.cpp` 126-172, `components/ShellClient.*` | `ShellServerLock`, the last output; per command a pipe and a child process | RunShellCommand, CPRINT |
| Responses | `components/ServerResponse.*` | none | file, fileInUse, shell, fail, syncFail, peers |
| Line reading | `Lib.*` | none | readline, Tokenize, recv_nonblock |
| Options, daemon, log, sockets | `main.cpp`, `ServerUtils.*` | set once before the server starts | ParsOpt, daemonize, CreateSocket |

How they interact. A worker polls the two master sockets, accepts, lists the
socket, counts itself active, notifies main and calls `ShellCallback` or
`FileCallback` until the client leaves. `FileCallback` calls `FileClient`, whose
containers all workers share. In replica mode it then calls `HandleSync`, which
starts a `std::async` task per peer; the task connects to the peer's file port,
where a worker of that server accepts it like any client. Main sleeps on
`NeedMoreThreads` until all workers are active or a restart asks for new ones.
HandleSIGHUP runs on the main thread, wherever the signal finds it, and works on
everybody's state: it closes sockets the workers use, resets the counters, and
reopens the master sockets.

What is hard, and what makes each part correct:

* *File access.* The predicate of a wait and the increment it protects are up to
  13 lines apart; the mutex of each wait is a local variable, so it excludes
  nobody and notifications can be lost; FCLOSE destroys the block other commands
  hold a reference to, and descriptors are reused. Correct means: writers exclude
  writers, counters are exact, the registries and the kernel agree, no lock and
  no closing mark is left behind.
* *Worker pool.* Every decision rests on counters read one after the other.
  Correct means: the counters are the number of threads they stand for, the
  limit holds, no listed socket is closed or reused, somebody is left to accept.
* *Restart.* Old workers may outlive the kill switch, and commands of theirs run
  on while CleanUp erases the registries and destroys the blocks they hold.
  Correct means: the old and the new workers each keep to the limit, every session
  is on the list the next restart closes, no file is left with a dead identifier,
  commands under way still return.
* *Shell server.* Server and child run beside each other, joined by a bounded
  pipe whose ends every fork copies; reading may stop before the child does.
  Correct means: one program at a time, CPRINT's answer does not depend on the
  timing, every command is answered and every client served.
* *Replica mode.* Connections fail, tasks time out, peers execute late, tasks
  capture the loop's variable by reference. Correct means: undisturbed copies
  agree, a vote counts servers that read, one client's commands stay in order,
  every command is answered.

`PROJECT.json` lists each of these hazards at its line with the properties
that would catch it.

## 2. Modules

| Module | What it is |
|---|---|
| `FileAccess` | FileClient, one step per call on a container, access to a counter, or system call |
| `WriterRule` | the promise about writers of the repository's README, as a specification of its own |
| `FileAccess_proofs`, `FileNoClose_proofs`, `FileSole_proofs` | theorems about `FileAccess`: with FCLOSE, without it, and with one at a time |
| `Restart` | `FileAccess` with CleanUp, which a signal handler runs beside the commands |
| `Restart_proofs` | theorems about `Restart` |
| `ThreadPool` | ThreadsMan, the loop of main, and HandleSIGHUP, one step per access to an atomic, system call, or call under `SSocksLock` |
| `OneWorker` | what the pool promises a connection, one worker from accept to close, as a specification of its own |
| `ThreadPool_proofs`, `PoolSockets_proofs` | theorems about `ThreadPool`: its counts of threads, and its sockets and sessions |
| `Replica` | FileCallback and HandleSync in replica mode, on several servers |
| `OneFile` | what replica mode promises, one file with one pointer, as a specification of its own |
| `Replica_proofs` | theorems about `Replica` |
| `ShellServer` | ShellCallback and RunShellCommand, with the child processes, one step per character |
| `OneShell` | what `ShellServerLock` promises, as a specification of its own |
| `ShellServer_proofs` | theorems about `ShellServer` |
| `ServerResponse` | the responses, as operators that `ShellServer` and `Replica` use |
| `MCFileAccess`, `MCReplica`, `MCShellServer` | symmetry sets and the values of constants |
| `MCThreadPool` | symmetry, and `ThreadPool` as long as no SIGHUP is received |
| `MCFileClose` | the same for clients that close, with a history variable: no two FCLOSEs have overlapped |
| `MCRestart`, `MCPoolRestart` | `Restart` with a bounded number of requests, `ThreadPool` with a bounded number of clients |

### FileAccess

A thread's `pc` says which statement of its command comes next. FOPEN is the
actions from `RequestOpen` to `FdName`; the others start with `RequestById` or
`RequestSync`, check the identifier (`Check`; FWRITE does not), look up the name
and the block (`Lookup`, `FindControl`, `NewControl`), wait (`PassWait`,
`FailWait`, `Sleep`, `SpuriousWakeup`), recheck (`Recheck`; FSEEK does not), and
do their work (`Lock`, `Enter`, `FinishIO`, `NotifyAll`, `Leave`, or for FCLOSE
`SetClosing` to `CloseFd`). What `PROJECT.json` maps gives the lines of each.

Decisions a reader should know:

* A container call is atomic, but for the erase of a block. That the calls race is
  undefined behaviour; the module shows what goes wrong even if each is atomic. The
  search for the descriptor's position in `OpenedFiles` (`FindIndex`) is one step,
  what it found is used in a later one (`EraseOpened`).
* `FILE_ACCESS.erase` is several steps, as in libstdc++. It looks for the node
  (`FindNode`). A node among others is unlinked (`Unlink`) and then destroyed
  (`Destroy`); if it is the only one, `erase` is `clear()`, which destroys it
  first, in place (`Clear`), and makes the map empty afterwards (`Reset`): between
  the two the map leads to a destroyed block (`freed`). Two FCLOSEs that have found
  the same node both erase it (`EraseAgain`), which ends the process or goes
  unnoticed. That the heap may hand the same memory out twice after a second erase
  that went unnoticed is not modelled.
* `operator[]` inserts: an unnamed descriptor has the empty name `NoName`, which
  gets an `AccessCtl` of its own, value-initialised, so `bIsClosing` starts false.
* A destroyed block keeps its content and its address may be given to the next
  one; commands may go on using it. glibc's destructor of a condition variable
  waits for its sleepers, which is the guard of `Destroy`.
* `erase(begin + index)` erases whatever another FCLOSE has moved there meanwhile;
  beyond the end (`EraseBeyondEnd`) it ends the process or loses the last element.
* `std::to_string(fd).c_str()` in the SYNC commands dangles; the text is taken
  as intact. Early errors (too few words, FCLOSE's `checkOnly` call) change no
  shared state and are left out. File contents are left out.

### Restart

Extends `FileAccess`, whose steps go on unchanged, with the main thread's walk
through CleanUp: `CloseNext` for each element of `OpenedFiles`, then one step per
container (`EraseOpenedFiles`, `EraseFdToName`, `EraseNameToFd`), then the blocks
of `FILE_ACCESS`, destroyed one by one while the map still leads to them
(`DestroyNext`) and unlinked at once (`UnlinkAll`). Main comes to CleanUp by SIGHUP
or SIGQUIT (`ReceiveSignal`); after SIGQUIT the process ends. What the handlers do
before and after, to sockets, threads and counters, is in `ThreadPool`: the two
modules share no state, so neither needs the other's steps. The loop over a vector
that an FCLOSE shortens may read any former element. A block that an FCLOSE has
destroyed (`freed`) may end the process when CleanUp destroys it again. History
variable `alone`: beside CleanUp no FOPEN has been between `open(2)` and its last
registration and no FCLOSE past its second check, nor has an FCLOSE come there
since. The beginning of a CleanUp sets it again, so it forgets what FCLOSEs did
before.

### ThreadPool

A worker's `pc` walks through `ForeRunner` and `tryThreadQuitting`; the counter
reads that decide are steps of their own (`ReadCount`, then `TestIdle`), as are
the test, the switch, the increment and the decrement of quitting. Main reads
the four operands of its predicate one by one (`CheckCount` to `CheckLimit`), is
between predicate and sleep in `"block"`, and is reachable by a notification
only in `"asleep"`. A session may take any time, which covers waiting for
`ShellServerLock`; it ends (`EndSession`) or throws (`SessionThrows`: a line
without words makes `at(0)` throw). HandleSIGHUP is a sequence of steps of the
main thread, during which main's own loop does not move and workers do: the kill
switch, each master socket (`CloseMaster`), the client sockets (`ListSSocks`, then
`CloseSSock` for each), each counter (`ResetThreadsCount`, `ResetActiveThreads`), the
switch again, `StartServer`, the flag, the notification.

`listening` are the master sockets open under the number the workers poll. If
creating one fails in `StartServer`, those after it are not created either, and
`setSocketsRef` is skipped. `todo` is what the loop of CloseAllSSocks has still to
close. It takes no lock: an erase shifts the entries under it (`SkipEntry`), and a
`push_back` may move the vector, after which it reads freed memory: any of the
entries that are left may be missed.

`poll` reports all ports with a connection, and PollEither takes the first, which
is the shell's (`PollReady`).

Left out: entries of -1 in `SSocksRef`, on which `shutdown` and `close` fail;
`CleanUp`, called between two steps of the handler (see `Restart`); the reads `notActive` only
logs. New master sockets get the descriptor numbers of the old ones (the lowest
free ones).

### Replica

Each server has one copy of a file: whether it is open, the pointer (shared by
all clients, since FOPEN hands the same descriptor to everybody), and a sequence
of cells. `RunLocal` runs the command on the own copy, `SyncRequestBuilder`
looks the name up *afterwards*, `SpawnTask` is the loop of HandleSync,
`GatherAnswers` the wait for the tasks (`get()` for FREAD; the destructors of the
futures for the others, although the code calls them fire and forget),
`CloseLocal` the actual FCLOSE, `Respond` the vote and the answer. A task
connects to the peer that the captured loop variable holds *by then*
(`PeerAddress`), and returns an answer, an error or, after its timeout, nothing;
its request stays in the peer's queue and may be executed later. A peer has
`Spare` workers, those no file client occupies. File accesses are one step here:
how they interleave on one server is the subject of `FileAccess`. `asked`, `ran`
and `clean` are history variables for the properties.

Left out: failures of `open` for the client's own FOPEN and of `write`; peers
that crash (a connection that fails, and a request never served, cover what
their clients see); a peer that does not run in replica mode, whose greeting is
taken for an answer; contents with blanks.

### ShellServer

A session (`pc`) waits for the lock, takes requests, and runs a command: `MakePipe`
or `PipeFails`, `Fork` or `ForkFails`, `StartReading`, then `ReadChar`,
`ReadNewline` and `ReadEnd` until `readline` returns 0, then `WaitChild`. The child
writes (`ChildWrite`) and ends (`ChildExit`) meanwhile. A program is what it would
print and the status it ends with, 254 for one that cannot be found, `Killed` for
one a signal may end at any moment. The pipe's content is what lies between `seen`
and `sent`. Decisions a reader should know:

* `readline` returns 0 for a blank line as for the end, and a full line without
  taking its newline, so the output ends there. `sOutput` is never emptied, so
  CPRINT shows "a", "ab", "abc" for the lines a, b, c. `Echo` says so by lines
  instead of steps; it is a description of the code and not of what the
  repository's README promises (see "Met on the way").
* The read end of every pipe stays open (`open`), until `pipe` fails for good.
* `fork` copies the write ends the server holds at that moment (`heirs`).
* A failed `fork` is not noticed: empty output, OK.
* As a daemon (`background`) the server ignores SIGCHLD: `waitpid` waits but fails,
  and every command is answered OK, also one that does not exist.
* A request without a word throws out of ShellCallback, which releases the lock.

Left out: programs that leave processes of their own behind, errors of `read`, a
client that does not read what it is sent, and the bytes written past the end by
`Tokenize` and by the terminator of the argument vector.

`ServerResponse` has the responses as triples of status, code and message, with the
default texts; a key that the table of errors lacks gives an empty one.

## 3. What TLC checks

| Run | Instance | Shows |
|---|---|---|
| `file_no_close` | 2 clients and a peer, 1 name, 2 descriptors, 2 blocks, nobody closes | `TypeOK`, `WriteExclusion`, `CountersExact`, `RegistryAgrees`; implements `WriterRule` (`OneWriterAtATime`) |
| `file_close` | 2 clients that write and close, 1 name, 2 descriptors, 2 blocks | `LockNotLeaked`; until two FCLOSEs overlap `SoleTableSound`, `SoleNoPoisonedFile` |
| `file_restart` | 2 clients that read and write, one of them closes, 3 requests, 1 name, 1 descriptor, 2 blocks, one SIGHUP or SIGQUIT at any moment | `RestartTypeOK`, `RegistriesSurvive`; `AccessCompletes`, `SimultaneousReading` |
| `pool` | 3 workers, 1 master socket, 2 descriptors, T_incr 1, tmax 2 | `TypeOK`, `CountExact`, `ActiveExact`, `RefsOpen` |
| `pool_restart` | 3 workers, 2 descriptors, T_incr 1, tmax 1, 2 connections, a SIGHUP at any moment | `LiveBounded`, `SessionsListed` |
| `pool_live` | 2 workers, both ports, 2 descriptors, T_incr 1, tmax 1, no signal | `ConnectionServed`; implements `OneWorker` (`ServedByOne`) |
| `replicas` | 2 servers, each the other's peer, a client on each, 3 commands and 1 | `TypeOK`, `CopiesAgree`, `MajorityRead`, `OrderKept`, `CommandAnswered`; undisturbed, implements `OneFile` (`ActsAsOneFile`) |
| `shell` | 2 clients, all outputs of up to 3 characters, lines of 2, a pipe of 1, descriptors for 2 commands | `ShellTypeOK`, `OneProgram`, `PrintIgnoresTiming`; `CommandAnswered`, `ClientServed`; implements `OneShell` (`ServesOne`) |

Four runs end in a counterexample, because the code does not do what the
repository says:

| Run | The repository says | What happens |
|---|---|---|
| `file_read_write` | README.MD:61 "No Writing can occur when others are reading." | a reader and a writer both pass their waits before either counts itself |
| `file_lost_wakeup` | README.MD:9 every command produces a response | the notification falls between predicate and sleep: the local mutex does not prevent it |
| `pool_empties` | main.cpp:34 "Main thread handle creation while threads themselves handle accepting" | workers decide by a thread count read before others quit; all quit, main sleeps |
| `replica_wrong_peer` | main.cpp:339 "Sync With Peers" | a task that starts late connects to the next peer: one peer is asked twice, another never |

Met on the way, without a run: `shutdown` after `close` (ThreadMan.cpp:140-141) hits
the client that was just given the descriptor; CPRINT does not "Return the command
line printing of the lastest command" (README.MD:22) but each line with all lines
before it, nothing after a blank line or the newline of a full line, and after
ERPIP the output of an earlier command; README.MD:55 says "No opening can occur
when the file is being written.", but FOPEN (FileClient.cpp:59-89) looks at no
`AccessCtl` and opens, or hands out the descriptor, while an FWRITE is in
`write()`; two overlapping FCLOSEs leave the registries wrong for good or end the
process; a stale identifier works on whatever file has the number by then (the
second check, FileClient.cpp:162, does not tell); an FOPEN or FCLOSE at its
registrations during CleanUp leaves a dead identifier; CleanUp does not return
while a command sleeps on a block.

Bounds, and why they are enough. The hazards of `FileAccess` need two threads
(the third, in `file_no_close`, brings SYNC commands, which open lazily and read
the identifier twice) and one name; two descriptors let two FOPENs race or a
closed one be replaced, two blocks let a destroyed block be distinguished from
its successor. In `ThreadPool` quitting needs `ThreadsCount > T_incr` and an
idle surplus, so three threads with T_incr 1. `pool_restart` has one worker more
than the limit of 2, so `LiveBounded` is tested before the restart; after it the
bound is 4, more than the workers there are, and rests on the theorem. For
`SessionsListed` it needs an old session and a new one, hence two connections.
`Backlog` 1 is enough for two workers to be woken for one connection. `Replica` bounds the
number of commands (`Requests`): a command, one that depends on what it left,
and a read, while another server's client interferes once; the copy has one cell
to begin with so that a read can succeed, and server `a` has it open. `OrderKept`
is a statement about one spare worker (`Spare` 1); with two, late requests do
overtake each other. Workers, descriptors and blocks are symmetric where
liveness is not checked. One restart suffices since CleanUp keeps nothing between
calls. In `file_restart` the three requests are an FOPEN and two commands that meet:
two FWRITEs at one lock, a reader and a writer, or either and an FCLOSE. `file_close`
leaves out FSEEK and FREAD, which change no registry and only hold the file as an
FWRITE does. In `pool_live` only two workers exist, too few for any to quit: that the pool
may empty is what `pool_empties` shows, and then nobody is served. In `shell` the
pipe and the line are shorter than the outputs, so children block on a full pipe,
lines are full with and without a newline to follow, and programs with two
characters after a blank line block for ever; the third command of a run meets
ERPIP. `file_close`, `file_restart` and `shell` allow deadlock, since the process
may end (`crashed`, `exited`), FCLOSE may leave a command asleep, and a child that
blocks for ever blocks the shell server; in the `Replica` runs the clients' commands run out.

Fairness. `FileAccess.FairSpec` assumes that a thread that can take a step does
(weak fairness, the kernel schedules runnable threads) and that a mutex that is
free again and again is obtained (strong fairness of `Lock`). `Replica.FairSpec`
assumes it of sessions and tasks, including that `poll` times out; nothing is
assumed of the peers' workers, so `CommandAnswered` holds even if servers wait
for each other or no peer ever serves. `Restart` adds that the main thread goes on
with CleanUp. `ThreadPool.Fairness` assumes that every worker and main take the
steps they can, `SessionThrows` or `EndSession` among them: sessions end.
`ShellServer.FairSpec` assumes the same of workers and children, that the mutex
does not starve a worker (strong fairness of `Acquire`) and that no client keeps its
session for ever (strong fairness of `Leave`); nothing is assumed of requests.

## 4. What is proved

TLAPS checks these for all values of the constants that satisfy the modules'
`ASSUME`.

| Theorem | Says |
|---|---|
| `FileAccess_proofs!TypeCorrect` | `Spec => []TypeOK` |
| `FileAccess_proofs!LockSafe` | `Spec => []LockNotLeaked` |
| `FileNoClose_proofs!WritersExclude` | `Closers = {} => (Spec => []WriteExclusion)` |
| `FileNoClose_proofs!RegistriesAgree` | `Closers = {} => (Spec => []RegistryAgrees)` |
| `FileNoClose_proofs!ImplementsRule` | `Closers = {} => (Spec => OneWriterAtATime)`, the refinement of `WriterRule` |
| `FileNoClose_proofs!CountersAreExact` | `CountersExact`, for finitely many threads |
| `FileSole_proofs!SoleTableIsSound` | `IsFiniteSet(Threads) => (SoleSpec => []SoleTableSound)` |
| `FileSole_proofs!SoleNeverPoisons` | `IsFiniteSet(Threads) => (SoleSpec => []SoleNoPoisonedFile)` |
| `FileSole_proofs!SoleNeverCrashes` | under the same assumption, `SoleSpec => [](sole => ~crashed)`: a lone FCLOSE erases neither beyond the end nor a block that is gone |
| `ThreadPool_proofs!TypeCorrect` | `Spec => []TypeOK` |
| `ThreadPool_proofs!LimitHolds` | `IsFiniteSet(Workers) => (Spec => []LiveBounded)`, restarts and the threads they forget included |
| `ThreadPool_proofs!ThreadsCounted` | `IsFiniteSet(Workers) => (Spec => []CountExact)` |
| `PoolSockets_proofs!SessionsAreListed` | `IsFiniteSet(Workers) => (Spec => []SessionsListed)`, restarts included |
| `PoolSockets_proofs!ListedAreOpen` | `Spec => []RefsOpen` |
| `PoolSockets_proofs!ActiveIsExact` | `Spec => []ActiveExact`, for finitely many workers and descriptors |
| `PoolSockets_proofs!ServedByOneWorker` | `MaxHups = 0 => (Spec => ServedByOne)`, the refinement of `OneWorker` |
| `Restart_proofs!RestartTypeCorrect` | `RestartSpec => []RestartTypeOK` |
| `Restart_proofs!RestartLockSafe` | `RestartSpec => []LockNotLeaked` |
| `Restart_proofs!RestartRegistries` | `RestartSpec => []RegistriesSurvive`, whatever FCLOSEs did before the restart |
| `ShellServer_proofs!ShellTypeCorrect` | `Spec => []ShellTypeOK` |
| `ShellServer_proofs!ShellOneProgram` | `Spec => []OneProgram` |
| `ShellServer_proofs!ShellImplementsOne` | `Spec => ServesOne`, the refinement of `OneShell` |
| `ShellServer_proofs!ShellPrintIgnoresTiming` | `Spec => []PrintIgnoresTiming`, for any output, line length and pipe |
| `Replica_proofs!TypeCorrect` | `Spec => []TypeOK` |
| `Replica_proofs!CommandsKeepOrder` | `Spec => OrderKept` |
| `Replica_proofs!ReadsAreConfirmed` | an FREAD answered OK ran on the own server and on another one, however many there are |
| `Replica_proofs!MajoritiesRead` | `Spec => []MajorityRead`, for at most three servers |
| `Replica_proofs!CopiesStayEqual` | `FullMesh => (Spec => []CopiesAgree)` |
| `Replica_proofs!ReplicasActAsOneFile` | `FullMesh => (Spec => ActsAsOneFile)`, the refinement of `OneFile` while `clean` holds |

Along which argument:

* *Types* (`TypeInv`). A thread's step says which locals are set: `name` is a
  name while it opens, `op` an identifier command while it waits. `ControlOK`
  adds this to `TypeOK`, and the two together are inductive. Each group of
  actions has a *footprint* lemma: what it changes of the thread's own locals,
  and that it leaves the others' alone. Later invariants reuse them.
* *FCLOSE.* `LockNotLeaked` is inductive by itself over `TypeInv`: only `Lock`
  takes a lock, for the block in `ctl`, and nothing else changes `ctl` in the
  locked part.
* *Without FCLOSE* (`NoCloseInv`). No thread is inside FCLOSE; then descriptors
  and names only grow, so what a thread has looked up stays true
  (`RegistryInv`): its descriptor is open, listed, and filed under the name of
  the file it is open on; the block it holds is the one of that name, and a
  writer inside holds its lock (`ControlInv`). Two writers of one file have the
  same name, hence the same block, hence the same lock: `WriteExclusion`.
  `OneWriterAtATime` follows by showing that only `Enter` and `FinishIO` change
  who is writing, and that they are `BeginWrite` and `EndWrite`. The counters
  are compared with the sets of threads inside by cardinality, one thread in or
  out per step.
* *One FCLOSE at a time* (`SoleInv`). The hazard of `FCLOSE` is that between its
  check and its `erase`, or between `erase` and `close(2)`, somebody else changes
  what it looked up. The invariant says what a lone FCLOSE can rely on
  (`Closer`): from its check on its descriptor stays listed, where `FindIndex` has
  found it, and from the lookup to the erase its block stays that of its file, which
  no other name has (`Apart`) and nobody else destroys (`FreedInv`). `TableInv` adds
  to `TableSound`
  the descriptors that are open and not listed: those on their way into
  `OpenedFiles` (`Push`) and those on their way out (`Erased`) are distinct, so
  `open(2)` cannot return one that is about to be closed. With this the second
  check (`Recheck`: "the fd could have been changed while waiting on lock") always succeeds, so
  FCLOSE never leaves after it has set `bIsClosing`, and `EraseBeyondEnd` and
  `EraseAgain` are out of reach. The count in `sole` is used only to say that no second thread is at
  an FCLOSE, hence the finiteness of `Threads`.
* *The limit.* `BatchInv` says that in the loop of `CreateThreads` the count is
  at most `MaxThread + i - 2`: it started below the limit and only this loop
  raises it. So stale reads cost at most one batch less one, and `ThreadsCount`
  stays within `Limit`. The live threads do not: `Forgotten` is how many of them the
  count does not include. Every step but the reset keeps it or lowers it (a thread
  that leaves by the kill switch is not taken off the count), and the reset, of which
  there are no more than signals (`Resets`), adds at most what was counted, which
  is at most `Limit` (`ForgottenInv`).
* *The count.* Until the first SIGHUP every step changes the set of live threads
  and `ThreadsCount` alike, the thread just created excepted; the kill switch is
  off, so no thread leaves uncounted (`RunInv`).
* *Sessions and sockets.* `SessionsListed` is inductive over the types:
  `addSScokRef` and `removeSScokRef` move the list and the set of sessions
  alike, and everything else only ends sessions. The other two need
  `SocketInv`, which holds until a restart: a worker has a socket exactly while
  it serves, no two have the same, and the owner keeps it open and on the list
  once, from `addSScokRef` to `removeSScokRef`. So `CloseSocket` closes nothing
  that is listed, and an exception makes an orphan of a socket that was none.
* *One worker for each connection.* From `SocketInv` follows the refinement of
  `OneWorker`: `Accept` is `Accept`, `CloseSocket` is `Close`, `SessionThrows` is
  `Abandon`, and every other step changes neither the open connections nor who has
  them. The `shutdown` after `close` may hit another worker's connection; it shuts
  it for writing, but neither closes it nor takes it away. The theorem assumes that
  no SIGHUP comes (`MaxHups = 0`): `CloseSSock` closes connections under the
  workers that serve them, so after a restart the promise does not hold.
* *Restart.* The invariants of `FileAccess` are inductive over the commands'
  steps; CleanUp's steps take no lock and set no thread's locals, so
  `LockNotLeaked` carries over. For `RegistriesSurvive` the strengthening is
  conditional on `alone` and says how far CleanUp has come (`Erased`) and which
  registrations are complete outside of it (`Registered`); `AloneInv` has both,
  with the fact that no FCLOSE is past its second check (`Quiet`). When CleanUp
  begins nothing need be known of the registries: by the time it has erased them
  no thread has put anything back.
* *One program.* `Stages` ties the write end and the child to the command's step
  and says that a write end open means two descriptors are. Since only the
  session with the lock is in a command, `Fork` copies its own write end only,
  and no child is there when another session enters: each step is a step of
  `OneShell` (`Acquire` is `Enter`, `Fork` is `Start`, `WaitChild` is `Finish`) or
  changes neither owner nor children.
* *The recorded output* (`FInv`). While a command runs, how much its child will
  have written is open: a signal may end it at any character. So the invariant
  (`Faithful`) speaks of every output that may still become the final one
  (`Final`), and for each of them says what the server has dealt with (`Copied`):
  `sOutput` is the text up to the last character read, the current line began
  at `Start` and has no newline, and what is recorded, followed by what `EchoFrom`
  yields from `Start` on, is what CPRINT will have to show. Reading a character,
  a newline or the end moves `Start` over one line (`EchoLine`) or finds that no
  line is left (`EchoEnd`). Writes and a kill only take outputs out of `Final`,
  and the end of the pipe is only seen when one is left. That `Plain` and
  `EchoFrom`, recursive functions of a position, are defined by their equations
  for every output (`PlainIs`, `EchoIs`) is proved by induction over positions,
  stated for sets (`UpTo`) and resting on the least element of a set of numbers
  (`Least`); no theorem with an operator parameter is used.
* *Replica mode: types.* The record of a request in a queue leads back to a task
  there is (`Placed`, `Pending`), also when its task has long timed out.
* *Order* (`OrderInv`). Numbers in `ran` and in the queues are not newer than the
  client's current command, and queued requests are at other servers than the
  client's own. For `Spare <= 1`, `InOrder` adds that a server serves at most one
  request and that what it serves, what waits, in the order of the queue, and
  what is yet to be sent are each not older than what it has executed.
* *Votes* (`ReadInv`). Every answer that counts as a vote is evidence: the peer
  that sent it has executed this command, and is not the own server. Since the
  vote needs more than half, and the own server votes only if its read
  succeeded, an OK means two servers. That is a majority among up to three. The
  bound is sharp: TLC finds `MajorityRead` violated with four servers, because
  two tasks that the loop has overtaken reach the same peer and its votes count
  twice (the defect that `replica_wrong_peer` shows).
* *Copies* (`AgreeInv`). While commands have not overlapped, at most one client is
  in a command (`Busy`), and the copies differ by exactly that command
  (`Apart`): two servers that have both run it, or both not, have equal copies,
  and otherwise one is the other after the command. A peer asked has run it or
  has it waiting, alone in its queue (`Repeated`). `AskedInv` counts: as many
  peers asked as tasks started means that no two tasks asked the same one
  (`Distinct`), so when all tasks are done all peers have run it. `FullMesh`, that
  each server with clients has every other one as a peer exactly once, is what
  the options are meant to say; with a peer missing its copy stays behind, with
  one named twice it runs everything twice.
* *One file* (`OneInv`). The refinement shows the copy of the server whose client
  is in a command (`Current`), and of any server between commands, when
  `AgreeInv` says it makes no difference. A command takes effect when its own
  server executes it: at `RunLocal`, but a FCLOSE only at `CloseLocal`, for which
  `OneCommand` adds that its own server has not run it before. `OwnRequests` says
  that whatever the peers still have to do belongs to the command under way, and
  by `Numbered` never to the own server, so `ExecuteSync` does not touch the copy
  shown. Every other step changes neither copy nor session, or ends the command
  (`Respond`), after which another server's copy may be shown: by then they are
  equal.

Only model-checked: liveness (`AccessCompletes`, `SimultaneousReading`,
`ConnectionServed`, both `CommandAnswered`, `ClientServed`), since
fairness is beyond the prover. Every safety invariant of a passing run is a theorem.

## 5. Not modelled

Parsing of options and of one request line (`ParsOpt`, `Tokenize`, the `readline` of
requests), `daemonize`, socket options and the log: each runs in one thread and keeps
no state that several actors share; `ParsOpt` only sets what the modules have as
constants. `ServerResponse::peers`. The end of the process by SIGQUIT in the middle
of the pool's steps: nothing outlives it. The undefined behaviour of `Lib::Tokenize`
(a buffer of one byte per word) and of the unsynchronised containers.

## 6. Plan

Done: `FileAccess` with `WriterRule` and `Restart`; `ThreadPool` with
`OneWorker`; `Replica` with `OneFile`; `ShellServer` with `OneShell` and `ServerResponse`.

Next, in this order:

1. *Proofs*: steps of liveness arguments that need no fairness, such as that a
   task always can end.
2. *Abstract specifications*: a pool that only counts (created, serving,
   quitting) implemented by `ThreadPool`.
