-------------------------------- MODULE Restart --------------------------------
(***************************************************************************)
(* File access across a restart or the end of the server: HandleSIGHUP and *)
(* HandleSIGQUIT call FileClient::CleanUp on the main thread, which closes *)
(* every open file and erases the containers that commands of the worker   *)
(* threads are using.  The steps of FileAccess go on meanwhile.  The other *)
(* work of the handlers, on sockets and threads, is the subject of         *)
(* ThreadPool.                                                             *)
(***************************************************************************)
EXTENDS FileAccess

CONSTANT MaxSignals   \* how often SIGHUP or SIGQUIT is received

ASSUME SignalAssumption == MaxSignals \in Nat

VARIABLES
  cleanup,    \* where CleanUp stands
  at, last,   \* its loop over OpenedFiles: next position, last position
  destroyed,  \* blocks CleanUp has destroyed and not unlinked yet
  exited,     \* _Exit
  signals,    \* signals received
  alone       \* history: since the start or the last CleanUp began, no FCLOSE
              \* has been unregistering, nor an FOPEN registering beside CleanUp

handler == <<cleanup, at, last, destroyed, exited, signals>>
rvars   == <<vars, handler, alone>>

CleanUpSteps == {"off", "close", "fdName", "nameFd", "access"}

CleanUpStep(from, to) == cleanup = from /\ cleanup' = to

-----------------------------------------------------------------------------

\* HandleSIGHUP or HandleSIGQUIT has reached its call of CleanUp.
ReceiveSignal ==
  /\ signals < MaxSignals
  /\ CleanUpStep("off", "close")
  /\ at' = 1 /\ last' = Len(OpenedFiles)
  /\ signals' = signals + 1
  /\ UNCHANGED <<vars, destroyed, exited>>

\* An FCLOSE may have shortened the vector under the loop, which then finds
\* some descriptor the vector held before.
CloseNext ==
  /\ at <= last
  /\ CleanUpStep("close", "close")
  /\ \E gone \in Fds :
       /\ at \in DOMAIN OpenedFiles => gone = OpenedFiles[at]
       /\ kernel' = [kernel EXCEPT ![gone] = Nil]
  /\ at' = at + 1
  /\ UNCHANGED <<tables, ctls, given, crashed, pc, locals, last, destroyed,
                 exited, signals>>

EraseOpenedFiles ==
  /\ at > last
  /\ CleanUpStep("close", "fdName")
  /\ OpenedFiles' = << >>
  /\ at' = 0 /\ last' = 0
  /\ UNCHANGED <<FdToName, NameToFd, ctls, kernel, given, crashed, pc, locals,
                 destroyed, exited, signals>>

EraseFdToName ==
  /\ CleanUpStep("fdName", "nameFd")
  /\ FdToName' = [fd \in Fds |-> NoName]
  /\ UNCHANGED <<OpenedFiles, NameToFd, ctls, kernel, given, crashed, pc, locals,
                 at, last, destroyed, exited, signals>>

\* Faulty variant: the names keep their descriptors.
EraseNameToFdForgotten ==
  /\ CleanUpStep("nameFd", "access")
  /\ UNCHANGED <<vars, at, last, destroyed, exited, signals>>

EraseNameToFd ==
  /\ CleanUpStep("nameFd", "access")
  /\ NameToFd' = [n \in Keys |-> 0]
  /\ UNCHANGED <<OpenedFiles, FdToName, ctls, kernel, given, crashed, pc, locals,
                 at, last, destroyed, exited, signals>>

\* Erasing the whole map destroys the blocks while it still leads to them.  A
\* block's condition variables are destroyed once nobody sleeps on them.  One
\* that an FCLOSE has destroyed already may end the process.
DestroyNext ==
  /\ CleanUpStep("access", "access")
  /\ \E b \in Linked \ destroyed :
       /\ Sleepers(b) = {}
       /\ b \in freed \/ UNCHANGED crashed
       /\ crashed' \in BOOLEAN
       /\ freed' = freed \cup {b} /\ destroyed' = destroyed \cup {b}
  /\ UNCHANGED <<tables, FILE_ACCESS, reading, writing, bIsClosing, writeLock,
                 kernel, given, pc, locals, at, last, exited, signals>>

\* CleanUp returns.  If the signal was SIGQUIT, the process now ends.
UnlinkAll ==
  /\ Linked \subseteq destroyed
  /\ CleanUpStep("access", "off")
  /\ FILE_ACCESS' = [n \in Keys |-> Nil]
  /\ freed' = {} /\ destroyed' = {}
  /\ exited' \in BOOLEAN
  /\ UNCHANGED <<tables, reading, writing, bIsClosing, writeLock, kernel, given,
                 crashed, pc, locals, at, last, signals>>

CleanUp ==
  \/ CloseNext \/ EraseOpenedFiles \/ EraseFdToName \/ EraseNameToFd
  \/ DestroyNext \/ UnlinkAll

-----------------------------------------------------------------------------

RestartInit ==
  /\ Init
  /\ cleanup = "off" /\ at = 0 /\ last = 0 /\ destroyed = {}
  /\ exited = FALSE /\ signals = 0
  /\ alone = TRUE

\* FOPEN between open(2) and its last registration; FCLOSE between its second
\* check and the end of close(2).
Registering(t)   == pc[t] \in {"push", "nameFd", "fdName"}
Unregistering(t) == pc[t] \in {"search", "erase", "compare", "forget", "unname", "find",
                               "unlink", "destroy", "clear", "reset", "close"}

CleanUpBegins == cleanup = "off" /\ cleanup' # "off"

Running == ~crashed /\ ~exited

Command(t) == (Request(t) \/ Step(t) \/ SpuriousWakeup(t)) /\ UNCHANGED handler

RestartNext ==
  /\ Running
  /\ ReceiveSignal \/ CleanUp \/ \E t \in Threads : Command(t)
  /\ alone' = (/\ alone \/ CleanUpBegins
              /\ \A t \in Threads : /\ ~Unregistering(t)'
                                    /\ cleanup' = "off" \/ ~Registering(t)')

RestartSpec == RestartInit /\ [][RestartNext]_rvars

\* As in FileAccess, for the main thread too.
RestartFairness ==
  /\ \A t \in Threads :
       WF_vars(Running /\ Step(t)) /\ SF_vars(Running /\ Lock(t))
  /\ WF_<<vars, handler>>(Running /\ CleanUp)

RestartFairSpec == RestartSpec /\ RestartFairness

-----------------------------------------------------------------------------
(* What should hold.                                                       *)

\* The handler's variables keep their types.
RestartTypeOK ==
  /\ TypeOK
  /\ cleanup \in CleanUpSteps
  /\ at \in Nat /\ last \in Nat
  /\ destroyed \subseteq Blocks
  /\ exited \in BOOLEAN /\ alone \in BOOLEAN
  /\ signals \in Nat

\* "Clean up all fds", "erase all references" (FileClient.cpp): whatever
\* FCLOSEs left in the registries, after a restart that no FOPEN or FCLOSE
\* changed them beside, and until the next FCLOSE does, every name with an
\* identifier has that of a listed descriptor open on that file; so a file
\* whose descriptor the restart closed is opened again.
RegistriesSurvive ==
  alone /\ cleanup = "off" =>
    \A n \in Names : NameToFd[n] > 0 =>
      /\ kernel[NameToFd[n]] = n /\ FdToName[NameToFd[n]] = n
      /\ FDChcker(NameToFd[n])

Returned(t) == pc[t] = "idle" \/ crashed \/ exited

Accessing(t) == /\ pc[t] \in {"recheck", "lock", "enter", "io", "notify", "unlock"}
                /\ op[t] # "FCLOSE"

\* A command that has got past its wait to read or write the file returns,
\* though it may then wait for a write lock, and a restart may destroy the block
\* the lock is in and hand its address to another command meanwhile.
AccessCompletes == \A t \in Threads : Accessing(t) ~> Returned(t)

\* "Simultaneous reading is allowed" (README): while nobody writes or closes,
\* no command waits for good, whatever a restart does meanwhile.
SimultaneousReading ==
  [](\A t \in Threads : op[t] \notin {"FWRITE", "FCLOSE"}) =>
    \A t \in Threads : pc[t] # "idle" ~> Returned(t)

=============================================================================
