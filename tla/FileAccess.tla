------------------------------ MODULE FileAccess ------------------------------
(***************************************************************************)
(* The file server's access control: class FileClient, whose containers    *)
(* are static and so shared by every worker thread, and the AccessCtl      *)
(* block each open file has.  No lock protects the containers, and the     *)
(* mutex a command passes to a condition variable is a local of that       *)
(* command: it excludes nobody and is not modelled.  A step of this module *)
(* is one call on a shared container, one access to an AccessCtl counter,  *)
(* or one system call.                                                     *)
(***************************************************************************)
EXTENDS Integers, Sequences, FiniteSets

CONSTANTS
  Threads,   \* worker threads, each serving one connection at a time
  Names,     \* file names a client may open
  Fds,       \* file descriptors the kernel may return
  Blocks,    \* heap addresses an AccessCtl may live at
  Writers,   \* threads whose clients send FWRITE
  Closers,   \* threads whose clients send FCLOSE
  Peers,     \* threads that serve a peer's connection: SYNC commands only
  Sent,      \* the commands, apart from FOPEN, that clients send
  NoName,    \* the empty string, the name of a descriptor without one
  Nil        \* no block, no owner, not open

ASSUME ConstantsAssumption ==
  /\ Fds \subseteq Nat \ {0}
  /\ NoName \notin Names
  /\ Nil \notin Names \cup Blocks \cup Threads
  /\ Writers \subseteq Threads
  /\ Closers \subseteq Threads
  /\ Peers \subseteq Threads

VARIABLES
  OpenedFiles,  \* std::vector<int>: descriptors of all users
  FdToName,     \* std::map<int, string>; an absent key reads as NoName
  NameToFd,     \* std::map<string, int>; an absent key reads as 0
  FILE_ACCESS,  \* std::map<string, AccessCtl>: the block of a name, or Nil
  reading,      \* AccessCtl::reading, per block
  writing,      \* AccessCtl::writing, per block
  bIsClosing,   \* AccessCtl::bIsClosing, per block
  writeLock,    \* AccessCtl::writeLock, per block: its owner or Nil
  freed,        \* blocks destroyed while a name still leads to them
  kernel,       \* the process's descriptor table: the file an fd is open on
  given,        \* identifiers FOPEN has returned to some client
  crashed,      \* undefined behaviour has ended the process
  pc, op, id, name, ctl, index   \* per thread: step, command, local variables

tables == <<OpenedFiles, FdToName, NameToFd>>
ctls   == <<FILE_ACCESS, reading, writing, bIsClosing, writeLock, freed>>
locals == <<op, id, name, ctl, index>>
vars   == <<tables, ctls, kernel, given, crashed, pc, locals>>

\* The empty string is the key operator[] makes of an unnamed descriptor.
Keys == Names \cup {NoName}

Readers == {"FSEEK", "FREAD"}
IdOps   == Readers \cup {"FWRITE", "FCLOSE"}
Ops     == IdOps \cup {"FOPEN"}

\* Where a thread stands: idle, inside FOPEN, resolving a SYNC command,
\* before the wait, at the wait, in the file, after it, or inside FCLOSE.
Steps == {"idle", "open", "create", "push", "nameFd", "fdName", "sync",
          "syncFd", "check", "lookup", "control", "wait", "block", "asleep",
          "recheck", "lock", "enter", "io", "notify", "unlock", "closing",
          "search", "erase", "compare", "forget", "unname", "find", "unlink",
          "destroy", "clear", "reset", "close"}

-----------------------------------------------------------------------------

Allowed(t) == {o \in IdOps : /\ o \in Sent
                             /\ o = "FWRITE" => t \in Writers
                             /\ o = "FCLOSE" => t \in Closers}

Goto(t, s) == pc' = [pc EXCEPT ![t] = s]

\* A command returns to FileCallback, which answers and reads the next one.
Return(t) ==
  /\ Goto(t, "idle")
  /\ op'   = [op   EXCEPT ![t] = "none"]
  /\ id'   = [id   EXCEPT ![t] = 0]
  /\ name' = [name EXCEPT ![t] = NoName]
  /\ ctl'  = [ctl  EXCEPT ![t] = Nil]
  /\ index' = [index EXCEPT ![t] = 0]

FDChcker(fd) == \E i \in DOMAIN OpenedFiles : OpenedFiles[i] = fd

NameOf(fd) == IF fd \in Fds THEN FdToName[fd] ELSE NoName

\* Threads asleep on one of block b's condition variables.
Sleepers(b) == {t \in Threads : pc[t] = "asleep" /\ ctl[t] = b}

\* Blocks some key leads to.
Linked == {FILE_ACCESS[n] : n \in Keys} \ {Nil}

\* Addresses operator new may return for the next AccessCtl.
FreeBlocks ==
  {b \in Blocks : /\ b \notin Linked
                  /\ \A t \in Threads : pc[t] = "destroy" => ctl[t] # b
                  /\ Sleepers(b) = {}}

-----------------------------------------------------------------------------
(* Requests.  Identifiers are ones some FOPEN returned (README, "File      *)
(* server commands"), possibly closed or reused since.                     *)

RequestOpen(t, f) ==
  /\ pc[t] = "idle" /\ t \notin Peers
  /\ Goto(t, "open")
  /\ op'   = [op   EXCEPT ![t] = "FOPEN"]
  /\ name' = [name EXCEPT ![t] = f]
  /\ UNCHANGED <<tables, ctls, kernel, given, crashed, id, ctl, index>>

\* FWRITE alone starts without checking the identifier.
RequestById(t, o, fd) ==
  /\ pc[t] = "idle" /\ t \notin Peers
  /\ o \in Allowed(t)
  /\ Goto(t, IF o = "FWRITE" THEN "lookup" ELSE "check")
  /\ op' = [op EXCEPT ![t] = o]
  /\ id' = [id EXCEPT ![t] = fd]
  /\ UNCHANGED <<tables, ctls, kernel, given, crashed, name, ctl, index>>

RequestSync(t, o, f) ==
  /\ pc[t] = "idle" /\ t \in Peers
  /\ o \in Allowed(t)
  /\ Goto(t, "sync")
  /\ op'   = [op   EXCEPT ![t] = o]
  /\ name' = [name EXCEPT ![t] = f]
  /\ UNCHANGED <<tables, ctls, kernel, given, crashed, id, ctl, index>>

\* SYNC commands name the file: open it unless it is open, then go on with
\* the descriptor NameToFd holds by then.  SYNCCLOSE opens nothing.
SyncLookup(t) ==
  /\ pc[t] = "sync"
  /\ \/ NameToFd[name[t]] > 0 /\ Goto(t, "syncFd") /\ UNCHANGED locals
     \/ /\ NameToFd[name[t]] <= 0 /\ op[t] # "FCLOSE"
        /\ Goto(t, "open") /\ UNCHANGED locals
     \/ NameToFd[name[t]] <= 0 /\ op[t] = "FCLOSE" /\ Return(t)
  /\ UNCHANGED <<tables, ctls, kernel, given, crashed>>

SyncFd(t) ==
  /\ pc[t] = "syncFd"
  /\ id' = [id EXCEPT ![t] = NameToFd[name[t]]]
  /\ Goto(t, IF op[t] = "FWRITE" THEN "lookup" ELSE "check")
  /\ UNCHANGED <<tables, ctls, kernel, given, crashed, op, name, ctl, index>>

-----------------------------------------------------------------------------
(* FOPEN, also run by a SYNC command on a file that is not open.           *)

OpenKnown(t) ==
  /\ pc[t] = "open"
  /\ NameToFd[name[t]] > 0
  /\ IF op[t] = "FOPEN"
     THEN given' = given \cup {NameToFd[name[t]]} /\ Return(t)
     ELSE given' = given /\ Goto(t, "syncFd") /\ UNCHANGED locals
  /\ UNCHANGED <<tables, ctls, kernel, crashed>>

OpenNew(t) ==
  /\ pc[t] = "open"
  /\ NameToFd[name[t]] <= 0
  /\ Goto(t, "create")
  /\ UNCHANGED <<tables, ctls, kernel, given, crashed, locals>>

\* open(2) returns any descriptor that is not open.
Create(t) ==
  /\ pc[t] = "create"
  /\ \E fd \in Fds :
       /\ kernel[fd] = Nil
       /\ kernel' = [kernel EXCEPT ![fd] = name[t]]
       /\ id'     = [id EXCEPT ![t] = fd]
  /\ Goto(t, "push")
  /\ UNCHANGED <<tables, ctls, given, crashed, op, name, ctl, index>>

\* Faulty variant: the failed descriptor -1 is registered like any other.
CreateFailsUnchecked(t) ==
  /\ pc[t] = "create"
  /\ id' = [id EXCEPT ![t] = -1]
  /\ Goto(t, "push")
  /\ UNCHANGED <<tables, ctls, kernel, given, crashed, op, name, ctl, index>>

\* open(2) fails: FileException, caught by FileCallback.
CreateFails(t) ==
  /\ pc[t] = "create"
  /\ Return(t)
  /\ UNCHANGED <<tables, ctls, kernel, given, crashed>>

\* Faulty variant: the new descriptor is not entered in OpenedFiles.
PushForgotten(t) ==
  /\ pc[t] = "push"
  /\ Goto(t, "nameFd")
  /\ UNCHANGED <<tables, ctls, kernel, given, crashed, locals>>

Push(t) ==
  /\ pc[t] = "push"
  /\ OpenedFiles' = Append(OpenedFiles, id[t])
  /\ Goto(t, "nameFd")
  /\ UNCHANGED <<FdToName, NameToFd, ctls, kernel, given, crashed, locals>>

NameFd(t) ==
  /\ pc[t] = "nameFd"
  /\ FdToName' = [FdToName EXCEPT ![id[t]] = name[t]]
  /\ Goto(t, "fdName")
  /\ UNCHANGED <<OpenedFiles, NameToFd, ctls, kernel, given, crashed, locals>>

FdName(t) ==
  /\ pc[t] = "fdName"
  /\ NameToFd' = [NameToFd EXCEPT ![name[t]] = id[t]]
  /\ IF op[t] = "FOPEN"
     THEN given' = given \cup {id[t]} /\ Return(t)
     ELSE given' = given /\ Goto(t, "syncFd") /\ UNCHANGED locals
  /\ UNCHANGED <<OpenedFiles, FdToName, ctls, kernel, crashed>>

-----------------------------------------------------------------------------
(* The way into a file, common to FSEEK, FREAD, FWRITE and FCLOSE.         *)

Check(t) ==
  /\ pc[t] = "check"
  /\ IF FDChcker(id[t]) THEN Goto(t, "lookup") /\ UNCHANGED locals
                        ELSE Return(t)
  /\ UNCHANGED <<tables, ctls, kernel, given, crashed>>

Lookup(t) ==
  /\ pc[t] = "lookup"
  /\ name' = [name EXCEPT ![t] = NameOf(id[t])]
  /\ Goto(t, "control")
  /\ UNCHANGED <<tables, ctls, kernel, given, crashed, op, id, ctl, index>>

FindControl(t) ==
  /\ pc[t] = "control"
  /\ FILE_ACCESS[name[t]] # Nil
  /\ ctl' = [ctl EXCEPT ![t] = FILE_ACCESS[name[t]]]
  /\ Goto(t, "wait")
  /\ UNCHANGED <<tables, ctls, kernel, given, crashed, op, id, name, index>>

\* operator[] value-initializes the AccessCtl of a key it does not find.
NewControl(t) ==
  /\ pc[t] = "control"
  /\ FILE_ACCESS[name[t]] = Nil
  /\ \E b \in FreeBlocks :
       /\ FILE_ACCESS' = [FILE_ACCESS EXCEPT ![name[t]] = b]
       /\ reading'     = [reading    EXCEPT ![b] = 0]
       /\ writing'     = [writing    EXCEPT ![b] = 0]
       /\ bIsClosing'  = [bIsClosing EXCEPT ![b] = FALSE]
       /\ writeLock'   = [writeLock  EXCEPT ![b] = Nil]
       /\ ctl'         = [ctl EXCEPT ![t] = b]
  /\ Goto(t, "wait")
  /\ UNCHANGED <<tables, freed, kernel, given, crashed, op, id, name, index>>

\* Faulty variant: readers wait for each other too.
CanProceedAlone(t) ==
  reading[ctl[t]] < 1 /\ writing[ctl[t]] < 1

\* The predicates of the three waits.
CanProceed(t) ==
  LET b == ctl[t] IN
  CASE op[t] \in Readers  -> writing[b] < 1 /\ ~bIsClosing[b]
    [] op[t] = "FWRITE"   -> reading[b] < 1 /\ ~bIsClosing[b]
    [] op[t] = "FCLOSE"   -> reading[b] < 1 /\ writing[b] < 1

AfterWait(o) == CASE o = "FSEEK"               -> "enter"
                  [] o \in {"FREAD", "FWRITE"} -> "recheck"
                  [] o = "FCLOSE"              -> "closing"

PassWait(t) ==
  /\ pc[t] = "wait"
  /\ CanProceed(t)
  /\ Goto(t, AfterWait(op[t]))
  /\ UNCHANGED <<tables, ctls, kernel, given, crashed, locals>>

FailWait(t) ==
  /\ pc[t] = "wait"
  /\ ~CanProceed(t)
  /\ Goto(t, "block")
  /\ UNCHANGED <<tables, ctls, kernel, given, crashed, locals>>

\* Only from here on does a notification reach the thread.
Sleep(t) ==
  /\ pc[t] = "block"
  /\ Goto(t, "asleep")
  /\ UNCHANGED <<tables, ctls, kernel, given, crashed, locals>>

SpuriousWakeup(t) ==
  /\ pc[t] = "asleep"
  /\ Goto(t, "wait")
  /\ UNCHANGED <<tables, ctls, kernel, given, crashed, locals>>

AfterRecheck(o) == CASE o = "FREAD"  -> "enter"
                     [] o = "FWRITE" -> "lock"
                     [] o = "FCLOSE" -> "search"

\* "the fd could have been changed while waiting on lock, check"
Recheck(t) ==
  /\ pc[t] = "recheck"
  /\ IF FDChcker(id[t]) THEN Goto(t, AfterRecheck(op[t])) /\ UNCHANGED locals
                        ELSE Return(t)
  /\ UNCHANGED <<tables, ctls, kernel, given, crashed>>

-----------------------------------------------------------------------------
(* Reading and writing.                                                    *)

\* Faulty variant: the lock is not waited for.
LockUnguarded(t) ==
  /\ pc[t] = "lock"
  /\ writeLock' = [writeLock EXCEPT ![ctl[t]] = t]
  /\ Goto(t, "enter")
  /\ UNCHANGED <<tables, FILE_ACCESS, reading, writing, bIsClosing, freed, kernel,
                 given, crashed, locals>>

Lock(t) ==
  /\ pc[t] = "lock"
  /\ writeLock[ctl[t]] = Nil
  /\ writeLock' = [writeLock EXCEPT ![ctl[t]] = t]
  /\ Goto(t, "enter")
  /\ UNCHANGED <<tables, FILE_ACCESS, reading, writing, bIsClosing, freed, kernel,
                 given, crashed, locals>>

\* Faulty variant: the guard's scope ends before the write.
EnterUnlocked(t) ==
  /\ pc[t] = "enter"
  /\ IF op[t] = "FWRITE"
     THEN /\ writing'   = [writing   EXCEPT ![ctl[t]] = @ + 1]
          /\ writeLock' = [writeLock EXCEPT ![ctl[t]] = Nil]
          /\ UNCHANGED reading
     ELSE /\ reading' = [reading EXCEPT ![ctl[t]] = @ + 1]
          /\ UNCHANGED <<writing, writeLock>>
  /\ Goto(t, "io")
  /\ UNCHANGED <<tables, FILE_ACCESS, bIsClosing, freed, kernel, given, crashed, locals>>

Enter(t) ==
  /\ pc[t] = "enter"
  /\ \/ /\ op[t] \in Readers
        /\ reading' = [reading EXCEPT ![ctl[t]] = @ + 1] /\ UNCHANGED writing
     \/ /\ op[t] = "FWRITE"
        /\ writing' = [writing EXCEPT ![ctl[t]] = @ + 1] /\ UNCHANGED reading
  /\ Goto(t, "io")
  /\ UNCHANGED <<tables, FILE_ACCESS, bIsClosing, writeLock, freed, kernel, given,
                 crashed, locals>>

\* Faulty variant: a failed call returns without the decrement.
FinishIOEarlyReturn(t) ==
  /\ pc[t] = "io"
  /\ Goto(t, "unlock")
  /\ UNCHANGED <<tables, ctls, kernel, given, crashed, locals>>

\* read, lseek or write on whatever the descriptor is open on by now, and
\* the decrement that starts endReadingAndNotify or endWritingAndNotify.
FinishIO(t) ==
  /\ pc[t] = "io"
  /\ \/ /\ op[t] \in Readers
        /\ reading' = [reading EXCEPT ![ctl[t]] = @ - 1] /\ UNCHANGED writing
     \/ /\ op[t] = "FWRITE"
        /\ writing' = [writing EXCEPT ![ctl[t]] = @ - 1] /\ UNCHANGED reading
  /\ Goto(t, "notify")
  /\ UNCHANGED <<tables, FILE_ACCESS, bIsClosing, writeLock, freed, kernel, given,
                 crashed, locals>>

\* The commands whose condition variable the end of a command notifies.
Notified(o) == IF o = "FWRITE" THEN Readers \cup {"FCLOSE"}
                               ELSE {"FWRITE", "FCLOSE"}

Woken(t) == {u \in Sleepers(ctl[t]) : op[u] \in Notified(op[t])}

NotifyAll(t) ==
  /\ pc[t] = "notify"
  /\ pc' = [u \in Threads |-> IF u = t THEN "unlock"
                              ELSE IF u \in Woken(t) THEN "wait" ELSE pc[u]]
  /\ UNCHANGED <<tables, ctls, kernel, given, crashed, locals>>

\* Faulty variant: the write lock is not released.
LeaveLocked(t) ==
  /\ pc[t] = "unlock"
  /\ Return(t)
  /\ UNCHANGED <<tables, ctls, kernel, given, crashed>>

\* Leaving the function: FWRITE's lock_guard unlocks the write lock.
Leave(t) ==
  /\ pc[t] = "unlock"
  /\ writeLock' = IF op[t] = "FWRITE"
                  THEN [writeLock EXCEPT ![ctl[t]] = Nil] ELSE writeLock
  /\ Return(t)
  /\ UNCHANGED <<tables, FILE_ACCESS, reading, writing, bIsClosing, freed, kernel,
                 given, crashed>>

-----------------------------------------------------------------------------
(* FCLOSE after its wait.                                                  *)

\* Faulty variant: the descriptor is closed before the references go.
SetClosingAndClose(t) ==
  /\ pc[t] = "closing"
  /\ bIsClosing' = [bIsClosing EXCEPT ![ctl[t]] = TRUE]
  /\ kernel' = [fd \in Fds |-> IF fd = id[t] THEN Nil ELSE kernel[fd]]
  /\ Goto(t, "recheck")
  /\ UNCHANGED <<tables, FILE_ACCESS, reading, writing, writeLock, freed, given,
                 crashed, locals>>

SetClosing(t) ==
  /\ pc[t] = "closing"
  /\ bIsClosing' = [bIsClosing EXCEPT ![ctl[t]] = TRUE]
  /\ Goto(t, "recheck")
  /\ UNCHANGED <<tables, FILE_ACCESS, reading, writing, writeLock, freed, kernel,
                 given, crashed, locals>>

\* The first position of the descriptor, or the end of the vector.
FindIndex(t) ==
  /\ pc[t] = "search"
  /\ \E i \in 1..(Len(OpenedFiles) + 1) :
       /\ i \in DOMAIN OpenedFiles => OpenedFiles[i] = id[t]
       /\ \A j \in 1..(i - 1) : OpenedFiles[j] # id[t]
       /\ index' = [index EXCEPT ![t] = i]
  /\ Goto(t, "erase")
  /\ UNCHANGED <<tables, ctls, kernel, given, crashed, op, id, name, ctl>>

\* begin() + index is whatever another FCLOSE may have moved there.
EraseOpened(t) ==
  /\ pc[t] = "erase"
  /\ index[t] \in DOMAIN OpenedFiles
  /\ OpenedFiles' = [k \in 1..(Len(OpenedFiles) - 1) |->
                       OpenedFiles[IF k < index[t] THEN k ELSE k + 1]]
  /\ Goto(t, "compare")
  /\ UNCHANGED <<FdToName, NameToFd, ctls, kernel, given, crashed, locals>>

\* Erasing beyond the end: the vector loses its last element, or the process
\* ends.
EraseBeyondEnd(t) ==
  /\ pc[t] = "erase"
  /\ index[t] \notin DOMAIN OpenedFiles
  /\ \/ /\ OpenedFiles # << >>
        /\ OpenedFiles' = SubSeq(OpenedFiles, 1, Len(OpenedFiles) - 1)
        /\ UNCHANGED crashed
     \/ crashed' = TRUE /\ UNCHANGED OpenedFiles
  /\ Goto(t, "compare")
  /\ UNCHANGED <<FdToName, NameToFd, ctls, kernel, given, locals>>

CompareName(t) ==
  /\ pc[t] = "compare"
  /\ Goto(t, IF NameToFd[name[t]] = id[t] THEN "forget" ELSE "unname")
  /\ UNCHANGED <<tables, ctls, kernel, given, crashed, locals>>

ForgetName(t) ==
  /\ pc[t] = "forget"
  /\ NameToFd' = [NameToFd EXCEPT ![name[t]] = -1]
  /\ Goto(t, "unname")
  /\ UNCHANGED <<OpenedFiles, FdToName, ctls, kernel, given, crashed, locals>>

UnnameFd(t) ==
  /\ pc[t] = "unname"
  /\ FdToName' = [fd \in Fds |-> IF fd = id[t] THEN NoName ELSE FdToName[fd]]
  /\ Goto(t, "find")
  /\ UNCHANGED <<OpenedFiles, NameToFd, ctls, kernel, given, crashed, locals>>

\* Faulty variant: the block is not erased.
FindNothing(t) ==
  /\ pc[t] = "find"
  /\ Goto(t, "close")
  /\ UNCHANGED <<tables, ctls, kernel, given, crashed, locals>>

\* FILE_ACCESS.erase finds the node the key has by now, if any.  A node among
\* others is unlinked and then destroyed; the only node of the map is
\* destroyed in place, and the map made empty afterwards.
FindNode(t) ==
  /\ pc[t] = "find"
  /\ LET b == FILE_ACCESS[name[t]] IN
       /\ ctl' = [ctl EXCEPT ![t] = b]
       /\ Goto(t, IF b = Nil THEN "close"
                  ELSE IF Linked = {b} THEN "clear" ELSE "unlink")
  /\ UNCHANGED <<tables, ctls, kernel, given, crashed, op, id, name, index>>

Unlink(t) ==
  /\ pc[t] = "unlink"
  /\ ctl[t] \in Linked \ freed
  /\ FILE_ACCESS' = [n \in Keys |-> IF FILE_ACCESS[n] = ctl[t] THEN Nil
                                                             ELSE FILE_ACCESS[n]]
  /\ Goto(t, "destroy")
  /\ UNCHANGED <<tables, reading, writing, bIsClosing, writeLock, freed, kernel,
                 given, crashed, locals>>

\* pthread_cond_destroy returns once nobody sleeps on the block.
Destroy(t) ==
  /\ pc[t] = "destroy"
  /\ Sleepers(ctl[t]) = {}
  /\ Goto(t, "close")
  /\ UNCHANGED <<tables, ctls, kernel, given, crashed, locals>>

Clear(t) ==
  /\ pc[t] = "clear"
  /\ ctl[t] \in Linked \ freed /\ Sleepers(ctl[t]) = {}
  /\ freed' = freed \cup {ctl[t]}
  /\ Goto(t, "reset")
  /\ UNCHANGED <<tables, FILE_ACCESS, reading, writing, bIsClosing, writeLock,
                 kernel, given, crashed, locals>>

\* A block that was added while the map was being cleared is leaked.
Reset(t) ==
  /\ pc[t] = "reset"
  /\ FILE_ACCESS' = [n \in Keys |-> Nil]
  /\ freed' = {}
  /\ Goto(t, "close")
  /\ UNCHANGED <<tables, reading, writing, bIsClosing, writeLock, kernel, given,
                 crashed, locals>>

\* Another thread has unlinked or destroyed the node that was found: the
\* process ends, or the second erase goes unnoticed.
EraseAgain(t) ==
  /\ pc[t] \in {"unlink", "clear"}
  /\ ctl[t] \notin Linked \ freed
  /\ crashed' \in BOOLEAN
  /\ Goto(t, IF pc[t] = "clear" THEN "reset" ELSE "close")
  /\ UNCHANGED <<tables, ctls, kernel, given, locals>>

CloseFd(t) ==
  /\ pc[t] = "close"
  /\ kernel' = [fd \in Fds |-> IF fd = id[t] THEN Nil ELSE kernel[fd]]
  /\ Return(t)
  /\ UNCHANGED <<tables, ctls, given, crashed>>

-----------------------------------------------------------------------------

Init ==
  /\ OpenedFiles = << >>
  /\ FdToName    = [fd \in Fds |-> NoName]
  /\ NameToFd    = [n \in Keys |-> 0]
  /\ FILE_ACCESS = [n \in Keys |-> Nil]
  /\ reading     = [b \in Blocks |-> 0]
  /\ writing     = [b \in Blocks |-> 0]
  /\ bIsClosing  = [b \in Blocks |-> FALSE]
  /\ writeLock   = [b \in Blocks |-> Nil]
  /\ freed       = {}
  /\ kernel      = [fd \in Fds |-> Nil]
  /\ given       = {}
  /\ crashed     = FALSE
  /\ pc   = [t \in Threads |-> "idle"]
  /\ op   = [t \in Threads |-> "none"]
  /\ id   = [t \in Threads |-> 0]
  /\ name = [t \in Threads |-> NoName]
  /\ ctl  = [t \in Threads |-> Nil]
  /\ index = [t \in Threads |-> 0]

Request(t) ==
  \/ \E f \in Names : RequestOpen(t, f)
  \/ \E o \in IdOps, fd \in given : RequestById(t, o, fd)
  \/ \E o \in IdOps, f \in Names : RequestSync(t, o, f)

OpenStep(t) ==
  \/ SyncLookup(t) \/ SyncFd(t) \/ OpenKnown(t) \/ OpenNew(t)
  \/ Create(t) \/ CreateFails(t) \/ Push(t) \/ NameFd(t) \/ FdName(t)

EntryStep(t) ==
  \/ Check(t) \/ Lookup(t) \/ FindControl(t) \/ NewControl(t)
  \/ PassWait(t) \/ FailWait(t) \/ Sleep(t) \/ Recheck(t)

AccessStep(t) ==
  Lock(t) \/ Enter(t) \/ FinishIO(t) \/ NotifyAll(t) \/ Leave(t)

CloseStep(t) ==
  \/ SetClosing(t) \/ FindIndex(t) \/ EraseOpened(t) \/ EraseBeyondEnd(t)
  \/ CompareName(t) \/ ForgetName(t) \/ UnnameFd(t) \/ FindNode(t) \/ Unlink(t)
  \/ Destroy(t) \/ Clear(t) \/ Reset(t) \/ EraseAgain(t) \/ CloseFd(t)

Step(t) == OpenStep(t) \/ EntryStep(t) \/ AccessStep(t) \/ CloseStep(t)

Next ==
  /\ ~crashed
  /\ \E t \in Threads : Request(t) \/ Step(t) \/ SpuriousWakeup(t)

Spec == Init /\ [][Next]_vars

\* The scheduler runs every thread that can move, and a mutex that is free
\* again and again is acquired; clients need not send anything, and nothing
\* obliges the library to wake a thread spuriously.
Fairness == \A t \in Threads :
  WF_vars(~crashed /\ Step(t)) /\ SF_vars(~crashed /\ Lock(t))

FairSpec == Spec /\ Fairness

-----------------------------------------------------------------------------
(* What should hold.                                                       *)

\* The variables keep their types.
TypeOK ==
  /\ OpenedFiles \in Seq(Fds)
  /\ FdToName    \in [Fds -> Keys]
  /\ NameToFd    \in [Keys -> Fds \cup {0, -1}]
  /\ FILE_ACCESS \in [Keys -> Blocks \cup {Nil}]
  /\ reading     \in [Blocks -> Int]
  /\ writing     \in [Blocks -> Int]
  /\ bIsClosing  \in [Blocks -> BOOLEAN]
  /\ writeLock   \in [Blocks -> Threads \cup {Nil}]
  /\ freed       \subseteq Blocks
  /\ kernel      \in [Fds -> Names \cup {Nil}]
  /\ given       \subseteq Fds
  /\ crashed     \in BOOLEAN
  /\ pc   \in [Threads -> Steps]
  /\ op   \in [Threads -> Ops \cup {"none"}]
  /\ id   \in [Threads -> Fds \cup {0, -1}]
  /\ name \in [Threads -> Keys]
  /\ ctl  \in [Threads -> Blocks \cup {Nil}]
  /\ index \in [Threads -> Nat]

InRead(t)  == pc[t] = "io" /\ op[t] \in Readers
InWrite(t) == pc[t] = "io" /\ op[t] = "FWRITE"

\* The file a thread's system call acts on.
Target(t) == IF id[t] \in Fds THEN kernel[id[t]] ELSE Nil

\* "No writing can occur when someone else is doing it" (README): no two
\* threads are in write() on the same file, whatever descriptors they use.
WriteExclusion ==
  \A t, u \in Threads :
    InWrite(t) /\ InWrite(u) /\ Target(t) = Target(u) /\ Target(t) # Nil => t = u

\* "No Writing can occur when others are reading" (README).
ReadWriteExclusion ==
  \A t, u \in Threads :
    InWrite(t) /\ InRead(u) /\ Target(t) # Nil => Target(t) # Target(u)

\* The counters the waits look at are the numbers of threads inside: no
\* count is lost or left behind, so no wait outlasts its cause for good.
CountersExact ==
  \A b \in Blocks :
    /\ reading[b] = Cardinality({t \in Threads : InRead(t) /\ ctl[t] = b})
    /\ writing[b] = Cardinality({t \in Threads : InWrite(t) /\ ctl[t] = b})

\* The three registries agree with the kernel: an identifier a client holds
\* and the one recorded for a name are open, on the file they are filed under.
RegistryAgrees ==
  /\ \A fd \in given : FDChcker(fd) /\ FdToName[fd] = kernel[fd]
  /\ \A n \in Names : NameToFd[n] > 0 => kernel[NameToFd[n]] = n

\* OpenedFiles lists each descriptor once, and only descriptors that are
\* open: no client is let through to a descriptor the kernel may hand out.
TableSound ==
  /\ \A i \in DOMAIN OpenedFiles : kernel[OpenedFiles[i]] # Nil
  /\ \A i, j \in DOMAIN OpenedFiles : OpenedFiles[i] = OpenedFiles[j] => i = j

\* bIsClosing is set on the block of a file only while some FCLOSE of that
\* file is under way: a file is never left closed to all later commands.
NoPoisonedFile ==
  \A n \in Keys :
    FILE_ACCESS[n] # Nil /\ bIsClosing[FILE_ACCESS[n]] =>
      \E t \in Threads : op[t] = "FCLOSE" /\ name[t] = n
        /\ pc[t] \in {"recheck", "search", "erase", "compare", "forget", "unname",
                     "find", "unlink", "clear", "reset"}

\* Whatever closes and reuses blocks, the write lock of a block is owned only
\* by a thread that is in the locked part of FWRITE with that block.
LockNotLeaked ==
  \A b \in Blocks : writeLock[b] # Nil =>
    LET t == writeLock[b] IN
      op[t] = "FWRITE" /\ ctl[t] = b /\ pc[t] \in {"enter", "io", "notify", "unlock"}

\* With no FCLOSE about, the threads inside write() keep the README's rule:
\* this module implements WriterRule.
Writing(f) == {t \in Threads : InWrite(t) /\ Target(t) = f}

Rule == INSTANCE WriterRule WITH writers <- [f \in Names |-> Writing(f)]

OneWriterAtATime == Rule!Spec

\* "All server command produces a standardize response" (README): a command
\* that was read returns.
EveryCommandReturns == \A t \in Threads : pc[t] # "idle" ~> pc[t] = "idle"

=============================================================================
