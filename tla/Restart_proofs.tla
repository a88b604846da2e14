----------------------------- MODULE Restart_proofs -----------------------------
(***************************************************************************)
(* What the theorems about FileAccess say still holds when a restart       *)
(* erases the containers under the commands that use them.                 *)
(***************************************************************************)
EXTENDS Restart, FileNoClose_proofs

HandlerType ==
  /\ cleanup \in CleanUpSteps
  /\ at \in Nat /\ last \in Nat
  /\ destroyed \subseteq Blocks
  /\ exited \in BOOLEAN /\ alone \in BOOLEAN
  /\ signals \in Nat

RestartInv == TypeInv /\ HandlerType /\ LockNotLeaked

\* The commands' own state, which the handler never writes.
commands == <<reading, writing, bIsClosing, writeLock, given, pc, locals>>

LEMMA InitRestartInv == RestartInit => RestartInv
<1> SUFFICES ASSUME RestartInit PROVE RestartInv
  OBVIOUS
<1>1. Init
  BY DEF RestartInit
<1>2. TypeInv
  BY <1>1, InitTypeInv
<1>3. LockNotLeaked
  BY <1>1 DEF Init, LockNotLeaked
<1>4. HandlerType
  BY DEF RestartInit, HandlerType, CleanUpSteps
<1> QED
  BY <1>2, <1>3, <1>4 DEF RestartInv

\* A step of the handler touches the containers and the kernel only, and
\* keeps their types.
LEMMA HandlerFootprint ==
  ASSUME RestartInv, ReceiveSignal \/ CleanUp
  PROVE  /\ UNCHANGED commands
         /\ OpenedFiles' \in Seq(Fds)
         /\ FdToName' \in [Fds -> Keys]
         /\ NameToFd' \in [Keys -> Fds \cup {0, -1}]
         /\ FILE_ACCESS' \in [Keys -> Blocks \cup {Nil}]
         /\ freed' \subseteq Blocks /\ crashed' \in BOOLEAN
         /\ kernel' \in [Fds -> Names \cup {Nil}]
         /\ cleanup' \in CleanUpSteps
         /\ at' \in Nat /\ last' \in Nat
         /\ destroyed' \subseteq Blocks
         /\ exited' \in BOOLEAN /\ signals' \in Nat
<1> USE DEF RestartInv, TypeInv, TypeOK, HandlerType, CleanUpSteps, CleanUpStep,
            commands, tables, ctls, locals
<1>1. CASE ReceiveSignal
  <2>1. Len(OpenedFiles) \in Nat
    OBVIOUS
  <2> QED
    BY <1>1, <2>1 DEF ReceiveSignal, vars
<1>2. CASE CloseNext
  BY <1>2 DEF CloseNext
<1>3. CASE EraseOpenedFiles
  <2>1. << >> \in Seq(Fds)
    OBVIOUS
  <2> QED
    BY <1>3, <2>1 DEF EraseOpenedFiles
<1>4. CASE EraseFdToName
  <2>1. NoName \in Keys
    BY DEF Keys
  <2> QED
    BY <1>4, <2>1 DEF EraseFdToName
<1>5. CASE EraseNameToFd
  <2>1. [n \in Keys |-> 0] \in [Keys -> Fds \cup {0, -1}]
    OBVIOUS
  <2> QED
    BY <1>5, <2>1 DEF EraseNameToFd
<1>6. CASE DestroyNext
  BY <1>6 DEF DestroyNext, Linked, vars
<1>7. CASE UnlinkAll
  <2>1. [n \in Keys |-> Nil] \in [Keys -> Blocks \cup {Nil}]
    OBVIOUS
  <2> QED
    BY <1>7, <2>1 DEF UnlinkAll
<1> QED
  BY <1>1, <1>2, <1>3, <1>4, <1>5, <1>6, <1>7 DEF CleanUp

LEMMA StepRestartInv == RestartInv /\ [RestartNext]_rvars => RestartInv'
<1> SUFFICES ASSUME RestartInv, [RestartNext]_rvars PROVE RestartInv'
  OBVIOUS
<1>1. CASE UNCHANGED rvars
  <2>1. UNCHANGED vars /\ UNCHANGED <<handler, alone>>
    BY <1>1 DEF rvars
  <2>2. TypeInv'
    BY <2>1, StepTypeInv DEF RestartInv
  <2>3. LockNotLeaked'
    BY <2>1, StepLock DEF RestartInv
  <2>4. HandlerType'
    BY <2>1 DEF RestartInv, HandlerType, handler
  <2> QED
    BY <2>2, <2>3, <2>4 DEF RestartInv
<1>2. CASE RestartNext
  <2>1. alone' \in BOOLEAN
    BY <1>2, Zenon DEF RestartNext, RestartInv, HandlerType
  <2>2. CASE ReceiveSignal \/ CleanUp
    <3>1. TypeInv'
      BY <2>2, HandlerFootprint
         DEF RestartInv, TypeInv, TypeOK, ControlOK, commands, locals
    <3>2. LockNotLeaked'
      BY <2>2, HandlerFootprint DEF RestartInv, LockNotLeaked, commands, locals
    <3>3. HandlerType'
      BY <2>1, <2>2, HandlerFootprint DEF HandlerType
    <3> QED
      BY <3>1, <3>2, <3>3 DEF RestartInv
  <2>3. ASSUME NEW t \in Threads, Command(t)
        PROVE  RestartInv'
    <3>1. Next
      BY <1>2, <2>3 DEF Command, Next, RestartNext, Running
    <3>2. UNCHANGED handler
      BY <2>3 DEF Command
    <3>3. TypeInv'
      BY <3>1, StepTypeInv DEF RestartInv
    <3>4. LockNotLeaked'
      BY <3>1, StepLock DEF RestartInv
    <3>5. HandlerType'
      BY <2>1, <3>2 DEF RestartInv, HandlerType, handler
    <3> QED
      BY <3>3, <3>4, <3>5 DEF RestartInv
  <2> QED
    BY <1>2, <2>2, <2>3 DEF RestartNext
<1> QED
  BY <1>1, <1>2

LEMMA RestartInvariant == RestartSpec => []RestartInv
<1> QED
  BY InitRestartInv, StepRestartInv, PTL DEF RestartSpec

\* The types of FileAccess and of the handler, across any number of restarts.
THEOREM RestartTypeCorrect == RestartSpec => []RestartTypeOK
<1>1. RestartInv => RestartTypeOK
  BY DEF RestartInv, TypeInv, HandlerType, RestartTypeOK
<1> QED
  BY <1>1, RestartInvariant, PTL

\* A restart destroys AccessCtl blocks under the commands that use them, and
\* their addresses are used again; still a write lock is owned only by a
\* thread in the locked part of FWRITE (FileClient.cpp) with that block.
THEOREM RestartLockSafe == RestartSpec => []LockNotLeaked
<1>1. RestartInv => LockNotLeaked
  BY DEF RestartInv
<1> QED
  BY <1>1, RestartInvariant, PTL

-----------------------------------------------------------------------------
(* The registries after a restart that nobody changed them beside.         *)

Quiet == \A t \in Threads : ~Unregistering(t)

\* What the registries are between two restarts.
Registered ==
  /\ \A n \in Names : NameToFd[n] > 0 => Published(NameToFd[n], n)
  /\ \A t \in Threads :
       /\ pc[t] \in Opened => kernel[id[t]] = name[t]
       /\ pc[t] \in Opened \ {"push"} => FDChcker(id[t])
       /\ pc[t] = "fdName" => FdToName[id[t]] = name[t]

\* What CleanUp has done at each of its steps.
Erased ==
  /\ cleanup = "off" => Registered
  /\ cleanup # "off" => \A t \in Threads : pc[t] \notin Opened
  /\ cleanup = "access" => \A n \in Names : NameToFd[n] = 0

AloneInv == alone => Quiet /\ Erased

\* A command of a thread that opens nothing leaves the registries consistent.
LEMMA RegisteredFrame ==
  ASSUME TypeInv, Registered, UNCHANGED <<tables, kernel>>,
         \A u \in Threads : pc[u] \in Opened \/ pc'[u] \in Opened =>
           pc'[u] = pc[u] /\ id'[u] = id[u] /\ name'[u] = name[u]
  PROVE  Registered'
<1>1. \A fd : FDChcker(fd)' = FDChcker(fd)
  BY DEF FDChcker, tables
<1>3. \A n \in Names : NameToFd'[n] > 0 => Published(NameToFd[n], n)'
  BY <1>1 DEF Registered, Published, tables
<1>5. ASSUME NEW t \in Threads
      PROVE  /\ pc'[t] \in Opened => kernel'[id'[t]] = name'[t]
             /\ pc'[t] \in Opened \ {"push"} => FDChcker(id[t])'
             /\ pc'[t] = "fdName" => FdToName'[id'[t]] = name'[t]
  <2>1. CASE pc'[t] \notin Opened
    BY <2>1 DEF Opened
  <2>2. CASE pc'[t] \in Opened
    <3>1. pc'[t] = pc[t] /\ id'[t] = id[t] /\ name'[t] = name[t]
      BY <2>2
    <3>2. FDChcker(id[t])' = FDChcker(id[t])
      BY <3>1 DEF FDChcker, tables
    <3> QED
      BY <3>1, <3>2 DEF Registered, tables
  <2> QED
    BY <2>1, <2>2
<1> QED
  BY <1>3, <1>5 DEF Registered, tables

\* FOPEN's own steps on the registries.
LEMMA OpenRegistered ==
  ASSUME TypeInv, Registered, NEW t \in Threads, OpenStep(t)
  PROVE  Registered'
<1> USE ConstantsAssumption DEF TypeInv
<1>1. Untouched(t)
  BY OpenFootprint
<1>2. CASE SyncLookup(t) \/ SyncFd(t) \/ OpenKnown(t) \/ OpenNew(t) \/ CreateFails(t)
  <2>1. /\ UNCHANGED <<tables, kernel>>
        /\ pc[t] \notin Opened /\ pc'[t] \notin Opened
    <3>1. CASE SyncLookup(t)
      BY <3>1, LocalsUntouched, ReturnFootprint DEF SyncLookup, Goto, TypeOK, Opened
    <3>2. CASE SyncFd(t)
      BY <3>2 DEF SyncFd, Goto, TypeOK, Opened
    <3>3. CASE OpenKnown(t)
      <4>1. pc'[t] \in {"idle", "syncFd"}
        BY <3>3, LocalsUntouched, ReturnFootprint DEF OpenKnown, Goto, TypeOK
      <4> QED
        BY <3>3, <4>1 DEF OpenKnown, Opened
    <3>4. CASE OpenNew(t) \/ CreateFails(t)
      BY <3>4, LocalsUntouched, ReturnFootprint
         DEF OpenNew, CreateFails, Goto, TypeOK, Opened
    <3> QED
      BY <1>2, <3>1, <3>2, <3>3, <3>4
  <2> QED
    BY <1>1, <2>1, RegisteredFrame DEF Untouched
<1>3. CASE Create(t)
  <2>1. PICK fd \in Fds : /\ kernel[fd] = Nil
                          /\ kernel' = [kernel EXCEPT ![fd] = name[t]]
                          /\ id' = [id EXCEPT ![t] = fd]
    BY <1>3 DEF Create
  <2>2. UNCHANGED tables /\ pc[t] = "create" /\ pc'[t] = "push" /\ name'[t] = name[t]
    BY <1>3 DEF Create, Goto, TypeOK
  <2>3. name[t] \in Names /\ id'[t] = fd /\ kernel'[fd] = name[t]
    BY <2>1, <2>2 DEF TypeOK, ControlOK, Opening
  <2>4. \A x \in Fds : kernel[x] # Nil => kernel'[x] = kernel[x]
    BY <2>1 DEF TypeOK
  <2>5. \A x : FDChcker(x)' = FDChcker(x)
    BY <2>2 DEF FDChcker, tables
  <2>6. ASSUME NEW n \in Names, NameToFd'[n] > 0
        PROVE  Published(NameToFd[n], n)'
    <3>1. NameToFd[n] \in Fds /\ Published(NameToFd[n], n)
      BY <2>2, <2>6, NamedFds DEF Registered, tables
    <3>2. Nil # n
      OBVIOUS
    <3> QED
      BY <2>2, <2>4, <2>5, <3>1, <3>2 DEF Published, tables
  <2>8. ASSUME NEW u \in Threads
        PROVE  /\ pc'[u] \in Opened => kernel'[id'[u]] = name'[u]
               /\ pc'[u] \in Opened \ {"push"} => FDChcker(id[u])'
               /\ pc'[u] = "fdName" => FdToName'[id'[u]] = name'[u]
    <3>1. CASE u = t
      BY <2>2, <2>3, <3>1 DEF Opened
    <3>2. CASE u # t
      <4>1. pc'[u] = pc[u] /\ id'[u] = id[u] /\ name'[u] = name[u]
        BY <1>1, <3>2 DEF Untouched
      <4>2. pc[u] \in Opened => id[u] \in Fds /\ name[u] \in Names /\ Nil # name[u]
        BY DEF ControlOK, Opened, Opening
      <4>3. FDChcker(id[u])' = FDChcker(id[u])
        BY <2>2, <4>1 DEF FDChcker, tables
      <4>4. pc[u] \in Opened => kernel[id[u]] = name[u]
        BY DEF Registered
      <4>5. pc[u] \in Opened => kernel'[id[u]] = kernel[id[u]]
        BY <2>4, <4>2, <4>4
      <4>6. /\ pc[u] \in Opened \ {"push"} => FDChcker(id[u])
            /\ pc[u] = "fdName" => FdToName[id[u]] = name[u]
        BY DEF Registered
      <4> QED
        BY <2>2, <4>1, <4>3, <4>4, <4>5, <4>6 DEF tables
    <3> QED
      BY <3>1, <3>2
  <2> QED
    BY <2>6, <2>8 DEF Registered
<1>4. CASE Push(t)
  <2>1. /\ pc[t] = "push" /\ pc'[t] = "nameFd"
        /\ OpenedFiles' = Append(OpenedFiles, id[t])
        /\ UNCHANGED <<FdToName, NameToFd, kernel, id, name>>
    BY <1>4 DEF Push, Goto, TypeOK, locals
  <2>2. OpenedFiles \in Seq(Fds) /\ id[t] \in Fds
    BY <2>1 DEF TypeOK, ControlOK, Opened
  <2>3. FDChcker(id[t])' /\ \A fd : FDChcker(fd) => FDChcker(fd)'
    BY <2>1, <2>2 DEF FDChcker
  <2>4. \A u \in Threads : FDChcker(id[u]) => FDChcker(id[u])'
    BY <2>1, <2>3 DEF FDChcker
  <2> QED
    BY <1>1, <2>1, <2>3, <2>4 DEF Registered, Published, Untouched, Opened
<1>5. CASE NameFd(t)
  <2>1. /\ pc[t] = "nameFd" /\ pc'[t] = "fdName"
        /\ FdToName' = [FdToName EXCEPT ![id[t]] = name[t]]
        /\ UNCHANGED <<OpenedFiles, NameToFd, kernel, id, name>>
    BY <1>5 DEF NameFd, Goto, TypeOK, locals
  <2>2. id[t] \in Fds /\ kernel[id[t]] = name[t] /\ FDChcker(id[t])
    BY <2>1 DEF ControlOK, Registered, Opened
  <2>3. \A fd \in Fds : kernel[fd] = FdToName[fd] => FdToName'[fd] = FdToName[fd]
    BY <2>1, <2>2 DEF TypeOK
  <2>4. FdToName'[id[t]] = name[t]
    BY <2>1, <2>2 DEF TypeOK
  <2>5. \A fd : FDChcker(fd)' = FDChcker(fd)
    BY <2>1 DEF FDChcker
  <2>6. \A u \in Threads : FDChcker(id[u])' = FDChcker(id[u])
    BY <2>1 DEF FDChcker
  <2>7. ASSUME NEW n \in Names, NameToFd'[n] > 0
        PROVE  Published(NameToFd[n], n)'
    <3>1. NameToFd[n] \in Fds /\ Published(NameToFd[n], n)
      BY <2>1, <2>7, NamedFds DEF Registered
    <3> QED
      BY <2>1, <2>3, <2>5, <3>1 DEF Published
  <2>8. ASSUME NEW u \in Threads
        PROVE  /\ pc'[u] \in Opened => kernel'[id'[u]] = name'[u]
               /\ pc'[u] \in Opened \ {"push"} => FDChcker(id[u])'
               /\ pc'[u] = "fdName" => FdToName'[id'[u]] = name'[u]
    <3>1. CASE u = t
      BY <2>1, <2>2, <2>4, <2>6, <3>1
    <3>2. CASE u # t
      <4>1. pc'[u] = pc[u]
        BY <1>1, <3>2 DEF Untouched
      <4>2. pc[u] \in Opened => id[u] \in Fds
        BY DEF ControlOK
      <4> QED
        BY <2>1, <2>3, <2>6, <4>1, <4>2 DEF Registered, Opened
    <3> QED
      BY <3>1, <3>2
  <2> QED
    BY <1>1, <2>1, <2>5, <2>7, <2>8 DEF Registered, Untouched, Opened
<1>6. CASE FdName(t)
  <2>1. /\ pc[t] = "fdName" /\ UNCHANGED <<OpenedFiles, FdToName, kernel>>
        /\ NameToFd' = [NameToFd EXCEPT ![name[t]] = id[t]]
        /\ pc'[t] \in {"idle", "syncFd"}
    BY <1>6, LocalsUntouched, ReturnFootprint DEF FdName, Goto, TypeOK
  <2>2. Published(id[t], name[t])
    BY <2>1 DEF Registered, Published, Opened
  <2>3. \A n \in Names : NameToFd'[n] = IF n = name[t] THEN id[t] ELSE NameToFd[n]
    BY <2>1 DEF TypeOK, Keys
  <2>4. \A fd : FDChcker(fd)' = FDChcker(fd)
    BY <2>1 DEF FDChcker
  <2>5. \A n \in Names : NameToFd'[n] > 0 => Published(NameToFd[n], n)'
    BY <2>1, <2>2, <2>3 DEF Registered, Published, FDChcker
  <2>7. ASSUME NEW u \in Threads
        PROVE  /\ pc'[u] \in Opened => kernel'[id'[u]] = name'[u]
               /\ pc'[u] \in Opened \ {"push"} => FDChcker(id[u])'
               /\ pc'[u] = "fdName" => FdToName'[id'[u]] = name'[u]
    BY <1>1, <2>1 DEF Registered, Untouched, Opened, FDChcker
  <2> QED
    BY <2>5, <2>7 DEF Registered
<1> QED
  BY <1>2, <1>3, <1>4, <1>5, <1>6 DEF OpenStep

\* The only step of FCLOSE outside Unregistering sets bIsClosing.
LEMMA QuietClosing ==
  ASSUME TypeInv, Quiet, NEW t \in Threads, CloseStep(t)
  PROVE  /\ Untouched(t) /\ UNCHANGED <<tables, kernel>>
         /\ pc[t] = "closing" /\ pc'[t] = "recheck"
<1>1. Untouched(t) /\ pc[t] \in Closing
  BY CloseFootprint DEF TypeInv
<1>2. pc[t] = "closing"
  BY <1>1 DEF Closing, Quiet, Unregistering
<1>3. SetClosing(t)
  BY <1>2 DEF CloseStep, FindIndex, EraseOpened, EraseBeyondEnd, CompareName, ForgetName,
     UnnameFd, FindNode, Unlink, Destroy, Clear, Reset, EraseAgain, CloseFd
<1> QED
  BY <1>1, <1>2, <1>3 DEF SetClosing, Goto, TypeInv, TypeOK

\* No command but FOPEN touches the registries when nobody unregisters.
LEMMA CommandRegistered ==
  ASSUME TypeInv, Quiet, Registered, Next
  PROVE  Registered'
<1> USE DEF TypeInv
<1>1. ASSUME NEW t \in Threads, Request(t)
      PROVE  Registered'
  BY <1>1, RequestFootprint, RegisteredFrame DEF Untouched, Opened
<1>2. ASSUME NEW t \in Threads, OpenStep(t)
      PROVE  Registered'
  BY <1>2, OpenRegistered
<1>3. ASSUME NEW t \in Threads, EntryStep(t)
      PROVE  Registered'
  <2>1. Untouched(t) /\ pc[t] \notin Opened /\ UNCHANGED <<tables, kernel>>
    BY <1>3, EntryFootprint DEF Entering, Opened
  <2>2. pc'[t] \notin Opened
    BY <1>3 DEF EntryStep, Check, Lookup, FindControl, NewControl, PassWait,
       FailWait, Sleep, Recheck, AfterWait, AfterRecheck, Return, Goto, locals,
       TypeOK, ControlOK, Entering, IdOps, Readers, Opened
  <2> QED
    BY <2>1, <2>2, RegisteredFrame DEF Untouched
<1>4. ASSUME NEW t \in Threads, AccessStep(t)
      PROVE  Registered'
  <2>1. UNCHANGED <<tables, kernel>> /\ pc[t] \notin Opened
    BY <1>4, AccessFootprint DEF Inside, Opened
  <2>2. CASE NotifyAll(t)
    BY <2>1, <2>2, RegisteredFrame DEF NotifyAll, Woken, Sleepers, locals, Opened
  <2>3. CASE ~NotifyAll(t)
    <3>1. pc[t] # "notify" /\ pc'[t] \notin Opened
      BY <1>4, <2>3 DEF AccessStep, Lock, Enter, FinishIO, Leave, Return, Goto,
         TypeOK, Opened
    <3> QED
      BY <1>4, <2>1, <3>1, AccessFootprint, RegisteredFrame DEF Untouched
  <2> QED
    BY <2>2, <2>3
<1>5. ASSUME NEW t \in Threads, CloseStep(t)
      PROVE  Registered'
  <2>1. Untouched(t) /\ UNCHANGED <<tables, kernel>> /\ pc[t] = "closing"
        /\ pc'[t] = "recheck"
    BY <1>5, QuietClosing
  <2> QED
    BY <2>1, RegisteredFrame DEF Untouched, Opened
<1>6. ASSUME NEW t \in Threads, SpuriousWakeup(t)
      PROVE  Registered'
  BY <1>6, SpuriousFootprint, RegisteredFrame DEF Untouched, Opened
<1> QED
  BY <1>1, <1>2, <1>3, <1>4, <1>5, <1>6 DEF Next, Step

\* A thread that is not registering a descriptor does not touch the registries.
LEMMA CommandUntouched ==
  ASSUME TypeInv, Quiet, Next,
         \A u \in Threads : pc[u] \notin Opened, \A u \in Threads : pc'[u] \notin Opened
  PROVE  UNCHANGED <<tables, kernel>>
<1> USE DEF TypeInv
<1>1. ASSUME NEW t \in Threads, Request(t)
      PROVE  UNCHANGED <<tables, kernel>>
  BY <1>1, RequestFootprint
<1>2. ASSUME NEW t \in Threads, OpenStep(t)
      PROVE  UNCHANGED <<tables, kernel>>
  BY <1>2 DEF OpenStep, SyncLookup, SyncFd, OpenKnown, OpenNew, Create,
     CreateFails, Push, NameFd, FdName, Goto, TypeOK, Opened
<1>3. ASSUME NEW t \in Threads, EntryStep(t) \/ AccessStep(t)
      PROVE  UNCHANGED <<tables, kernel>>
  BY <1>3, EntryFootprint, AccessFootprint
<1>4. ASSUME NEW t \in Threads, CloseStep(t)
      PROVE  UNCHANGED <<tables, kernel>>
  BY <1>4, QuietClosing
<1>5. ASSUME NEW t \in Threads, SpuriousWakeup(t)
      PROVE  UNCHANGED <<tables, kernel>>
  BY <1>5, SpuriousFootprint
<1> QED
  BY <1>1, <1>2, <1>3, <1>4, <1>5 DEF Next, Step

LEMMA CommandErased ==
  ASSUME RestartInv, Quiet, Erased, Next, UNCHANGED handler,
         cleanup # "off" => \A u \in Threads : pc'[u] \notin Opened
  PROVE  Erased'
<1> USE DEF RestartInv, handler
<1>1. CASE cleanup = "off"
  BY <1>1, CommandRegistered DEF Erased
<1>2. CASE cleanup # "off"
  <2>1. UNCHANGED <<tables, kernel>>
    BY <1>2, CommandUntouched DEF Erased
  <2> QED
    BY <1>2, <2>1 DEF Erased, tables
<1> QED
  BY <1>1, <1>2

LEMMA HandlerErased ==
  ASSUME RestartInv, cleanup # "off" => Erased, ReceiveSignal \/ CleanUp,
         cleanup' # "off" => \A u \in Threads : pc'[u] \notin Opened
  PROVE  Erased'
<1> USE DEF CleanUpStep
<1>1. UNCHANGED <<pc, id, name>>
  BY HandlerFootprint DEF commands, locals
<1>2. CASE ReceiveSignal
  BY <1>2 DEF ReceiveSignal, Erased
<1>3. CASE CloseNext \/ EraseOpenedFiles \/ EraseFdToName
  BY <1>3 DEF CloseNext, EraseOpenedFiles, EraseFdToName, Erased
<1>4. CASE EraseNameToFd
  <2>1. /\ cleanup = "nameFd" /\ cleanup' = "access"
        /\ \A n \in Names : NameToFd'[n] = 0
    BY <1>4 DEF EraseNameToFd, Keys
  <2> QED
    BY <2>1 DEF Erased
<1>5. CASE DestroyNext
  BY <1>5 DEF DestroyNext, Erased, tables
<1>6. CASE UnlinkAll
  <2>1. /\ cleanup = "access" /\ cleanup' = "off" /\ UNCHANGED <<tables, kernel>>
    BY <1>6 DEF UnlinkAll
  <2>2. Registered'
    BY <1>1, <2>1 DEF Erased, Registered, Opened, tables
  <2> QED
    BY <2>1, <2>2 DEF Erased
<1> QED
  BY <1>2, <1>3, <1>4, <1>5, <1>6 DEF CleanUp

LEMMA StepAlone ==
  RestartInv /\ AloneInv /\ [RestartNext]_rvars => AloneInv'
<1> SUFFICES ASSUME RestartInv, AloneInv, [RestartNext]_rvars, alone'
             PROVE  Quiet' /\ Erased'
  BY DEF AloneInv
<1>1. CASE UNCHANGED rvars
  <2>1. UNCHANGED <<OpenedFiles, FdToName, NameToFd, kernel, pc, id, name, cleanup,
                    alone>>
    BY <1>1 DEF rvars, vars, tables, locals, handler
  <2>2. Quiet /\ Erased
    BY <2>1 DEF AloneInv
  <2>3. Quiet'
    BY <2>1, <2>2 DEF Quiet, Unregistering
  <2>4. Registered => Registered'
    BY <2>1 DEF Registered, Published, FDChcker
  <2>5. Erased'
    BY <2>1, <2>2, <2>4 DEF Erased
  <2> QED
    BY <2>3, <2>5
<1>2. CASE RestartNext
  <2>1. /\ alone \/ CleanUpBegins
        /\ Quiet' /\ \A u \in Threads : cleanup' = "off" \/ ~Registering(u)'
    BY <1>2 DEF RestartNext, Quiet
  <2>2. cleanup' # "off" => \A u \in Threads : pc'[u] \notin Opened
    BY <2>1 DEF Registering, Opened
  <2>3. CASE ReceiveSignal \/ CleanUp
    <3>1. cleanup # "off" => Erased
      BY <2>1 DEF CleanUpBegins, AloneInv
    <3> QED
      BY <2>1, <2>2, <2>3, <3>1, HandlerErased
  <2>4. ASSUME NEW t \in Threads, Command(t)
        PROVE  Erased'
    <3>1. Next /\ UNCHANGED handler
      BY <1>2, <2>4 DEF Command, Next, RestartNext, Running
    <3>2. Quiet /\ Erased
      BY <2>1, <3>1 DEF CleanUpBegins, handler, AloneInv
    <3> QED
      BY <2>2, <3>1, <3>2, CommandErased DEF handler
  <2> QED
    BY <1>2, <2>1, <2>3, <2>4 DEF RestartNext
<1> QED
  BY <1>1, <1>2

\* Whatever FCLOSEs did before, after a restart (CleanUp, FileClient.cpp) beside
\* which no FOPEN was registering a file and no FCLOSE removing one, and until
\* the next FCLOSE removes one, every name that has an identifier has that of
\* a descriptor that is listed and open on the file: none is left with the
\* identifier of a descriptor the restart has closed.
THEOREM RestartRegistries == RestartSpec => []RegistriesSurvive
<1>1. RestartInit => AloneInv
  <2> SUFFICES ASSUME RestartInit PROVE Quiet /\ Erased
    BY DEF AloneInv
  <2>1. Init /\ cleanup = "off"
    BY DEF RestartInit
  <2>2. Registered
    BY <2>1 DEF Init, Registered, Opened, Keys
  <2> QED
    BY <2>1, <2>2 DEF Init, Quiet, Unregistering, Erased
<1>2. AloneInv => RegistriesSurvive
  BY DEF AloneInv, Erased, Registered, Published, RegistriesSurvive
<1> QED
  BY <1>1, <1>2, StepAlone, RestartInvariant, PTL DEF RestartSpec

=============================================================================
