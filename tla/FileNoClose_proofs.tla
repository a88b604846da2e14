-------------------------- MODULE FileNoClose_proofs --------------------------
(***************************************************************************)
(* What FileAccess guarantees as long as no client sends FCLOSE, again for *)
(* any sets of threads, names, descriptors and blocks: the README's rule   *)
(* about writers, exact counters and consistent registries.                *)
(***************************************************************************)
EXTENDS FileAccess_proofs

\* Steps at which the thread has resolved the identifier it was given, the
\* name behind it, and the AccessCtl of that name.
Holding    == Entering \cup Inside \cup {"recheck", "lock"}
Named      == Holding \ {"check", "lookup"}
Controlled == Named \ {"control"}

\* Nobody closes: no thread is inside FCLOSE.
NoneCloses == \A t \in Threads : op[t] # "FCLOSE" /\ pc[t] \notin Closing

\* A descriptor FOPEN has entered in the registries, open on file n.
Published(fd, n) == kernel[fd] = n /\ FdToName[fd] = n /\ FDChcker(fd)

\* What a thread may rely on about the descriptor it is opening or using.
DescriptorOK(t) ==
  /\ pc[t] \in Opened => kernel[id[t]] = name[t]
  /\ pc[t] \in Opened \ {"push"} => FDChcker(id[t])
  /\ pc[t] = "fdName" => FdToName[id[t]] = name[t]
  /\ pc[t] = "syncFd" => NameToFd[name[t]] > 0
  /\ pc[t] \in Holding => /\ id[t] \in Fds /\ kernel[id[t]] \in Names
                          /\ Published(id[t], kernel[id[t]])

\* ... and about the block it has looked up.
BlockOK(t) ==
  /\ pc[t] \in Named => name[t] = kernel[id[t]]
  /\ pc[t] \in Controlled => ctl[t] \in Blocks /\ ctl[t] = FILE_ACCESS[name[t]]
  /\ pc[t] \in Inside /\ op[t] = "FWRITE" => writeLock[ctl[t]] = t

RegistryInv ==
  /\ \A fd \in given : kernel[fd] \in Names /\ Published(fd, kernel[fd])
  /\ \A n \in Names : NameToFd[n] > 0 => Published(NameToFd[n], n)
  /\ \A t \in Threads : DescriptorOK(t)

ControlInv == \A t \in Threads : BlockOK(t)

NoCloseInv == TypeInv /\ NoneCloses /\ RegistryInv /\ ControlInv

LEMMA StepNoneCloses ==
  ASSUME Closers = {}, TypeInv, NoneCloses, [Next]_vars
  PROVE  NoneCloses'
<1> USE DEF TypeInv, NoneCloses, Closing
<1>1. CASE UNCHANGED vars
  BY <1>1 DEF vars, locals
<1>2. ASSUME NEW t \in Threads, Request(t)
      PROVE  NoneCloses'
  <2>1. Untouched(t) /\ pc'[t] \in {"open", "sync", "check", "lookup"}
    BY <1>2, RequestFootprint
  <2>2. op'[t] # "FCLOSE"
    BY <1>2 DEF Request, RequestOpen, RequestById, RequestSync, Allowed, Readers,
                TypeOK
  <2> QED
    BY <2>1, <2>2 DEF Untouched
<1>3. ASSUME NEW t \in Threads, OpenStep(t)
      PROVE  NoneCloses'
  <2>1. /\ Untouched(t)
        /\ pc'[t] \in Opening \cup {"syncFd", "lookup", "check", "idle"}
    BY <1>3, OpenFootprint
  <2>2. op'[t] # "FCLOSE"
    BY <1>3 DEF OpenStep, SyncLookup, SyncFd, OpenKnown, OpenNew, Create,
         CreateFails, Push, NameFd, FdName, Return, locals, TypeOK
  <2> QED
    BY <2>1, <2>2 DEF Untouched, Opening
<1>4. ASSUME NEW t \in Threads, EntryStep(t)
      PROVE  NoneCloses'
  <2>1. Untouched(t)
    BY <1>4, EntryFootprint
  <2>2. op'[t] # "FCLOSE" /\ pc'[t] \notin Closing
    BY <1>4 DEF EntryStep, Check, Lookup, FindControl, NewControl, PassWait,
         FailWait, Sleep, Recheck, AfterWait, AfterRecheck, Return, Goto, locals,
         TypeOK, ControlOK, Entering, IdOps, Readers
  <2> QED
    BY <2>1, <2>2 DEF Untouched
<1>5. ASSUME NEW t \in Threads, AccessStep(t)
      PROVE  NoneCloses'
  <2>1. CASE NotifyAll(t)
    BY <2>1 DEF NotifyAll, locals
  <2>2. CASE ~NotifyAll(t)
    <3>1. /\ pc[t] # "notify" /\ op'[t] # "FCLOSE" /\ pc'[t] \notin Closing
      BY <1>5, <2>2 DEF AccessStep, Lock, Enter, FinishIO, Leave, Return, Goto,
           locals, TypeOK
    <3> QED
      BY <1>5, <3>1, AccessFootprint DEF Untouched
  <2> QED
    BY <2>1, <2>2
<1>6. ASSUME NEW t \in Threads, CloseStep(t)
      PROVE  NoneCloses'
  BY <1>6, CloseFootprint
<1>7. ASSUME NEW t \in Threads, SpuriousWakeup(t)
      PROVE  NoneCloses'
  BY <1>7, SpuriousFootprint DEF Untouched, locals
<1> QED
  BY <1>1, <1>2, <1>3, <1>4, <1>5, <1>6, <1>7 DEF Next, Step

-----------------------------------------------------------------------------
(* The registries only grow.                                               *)

Grows ==
  /\ \A fd \in Fds : kernel[fd] # Nil => kernel'[fd] = kernel[fd]
  /\ \A fd : FDChcker(fd) => FDChcker(fd)'
  /\ \A fd \in Fds : kernel[fd] \in Names /\ FdToName[fd] = kernel[fd]
                       => FdToName'[fd] = FdToName[fd]
  /\ \A n \in Names : NameToFd[n] > 0 => NameToFd'[n] > 0

LEMMA UnchangedGrows == UNCHANGED <<tables, kernel>> => Grows
BY DEF Grows, tables, FDChcker

LEMMA OthersKeepDescriptor ==
  ASSUME TypeInv, NEW t \in Threads, Grows, Untouched(t),
         NEW u \in Threads \ {t}, DescriptorOK(u)
  PROVE  DescriptorOK(u)'
<1>1. /\ pc'[u] = pc[u] /\ id'[u] = id[u] /\ name'[u] = name[u]
  BY DEF Untouched
<1>2. pc[u] \in Opened => id[u] \in Fds /\ name[u] \in Names
  BY DEF TypeInv, ControlOK, Opened, Opening
<1>3. pc[u] = "syncFd" => name[u] \in Names
  BY DEF TypeInv, ControlOK
<1>4. Nil \notin Names
  BY ConstantsAssumption
<1>5. pc[u] \in Opened => kernel'[id[u]] = kernel[id[u]]
  BY <1>2, <1>4 DEF DescriptorOK, Grows
<1>6. pc[u] = "fdName" => FdToName'[id[u]] = FdToName[id[u]]
  BY <1>2 DEF DescriptorOK, Grows, Opened
<1>7. pc[u] \in Holding =>
        kernel'[id[u]] = kernel[id[u]] /\ FdToName'[id[u]] = FdToName[id[u]]
  BY <1>4 DEF DescriptorOK, Published, Grows
<1> QED
  BY <1>1, <1>2, <1>3, <1>5, <1>6, <1>7 DEF DescriptorOK, Published, Grows

\* A step that leaves the registries alone and only changes t.
LEMMA RegistryFrame ==
  ASSUME TypeInv, RegistryInv, NEW t \in Threads, Untouched(t),
         UNCHANGED <<tables, kernel, given>>, DescriptorOK(t)'
  PROVE  RegistryInv'
<1>1. Grows
  BY UnchangedGrows
<1>2. \A u \in Threads : DescriptorOK(u)'
  BY <1>1, OthersKeepDescriptor DEF RegistryInv
<1>3. /\ \A fd \in given' : kernel'[fd] \in Names /\ Published(fd, kernel[fd])'
      /\ \A n \in Names : NameToFd'[n] > 0 => Published(NameToFd[n], n)'
  BY DEF RegistryInv, Published, tables, FDChcker
<1> QED
  BY <1>2, <1>3 DEF RegistryInv

\* A name that has an identifier has a descriptor.
LEMMA NamedFds ==
  ASSUME TypeOK, NEW n \in Names, NameToFd[n] > 0
  PROVE  NameToFd[n] \in Fds
<1>1. NameToFd[n] \in Fds \cup {0, -1}
  BY DEF TypeOK, Keys
<1> QED
  BY <1>1

LEMMA RequestRegistry ==
  ASSUME NoCloseInv, NEW t \in Threads, Request(t)
  PROVE  RegistryInv'
<1> USE DEF NoCloseInv, TypeInv
<1>1. Untouched(t) /\ UNCHANGED <<tables, kernel, given>>
  BY RequestFootprint
<1>2. ASSUME NEW f \in Names, RequestOpen(t, f)
      PROVE  DescriptorOK(t)'
  BY <1>2 DEF RequestOpen, Goto, TypeOK, DescriptorOK, Opened, Holding, Entering, Inside
<1>3. ASSUME NEW o \in IdOps, NEW fd \in given, RequestById(t, o, fd)
      PROVE  DescriptorOK(t)'
  <2>1. id'[t] = fd /\ pc'[t] \in {"check", "lookup"}
    BY <1>3 DEF RequestById, Goto, TypeOK
  <2>2. fd \in Fds /\ kernel'[fd] \in Names /\ Published(fd, kernel[fd])'
    BY <1>1 DEF RegistryInv, TypeOK, Published, tables, FDChcker
  <2> QED
    BY <2>1, <2>2 DEF DescriptorOK, Opened
<1>4. ASSUME NEW o \in IdOps, NEW f \in Names, RequestSync(t, o, f)
      PROVE  DescriptorOK(t)'
  BY <1>4 DEF RequestSync, Goto, TypeOK, DescriptorOK, Opened, Holding, Entering, Inside
<1> QED
  BY <1>1, <1>2, <1>3, <1>4, RegistryFrame DEF Request

\* FOPEN, and the resolution of a SYNC command.
LEMMA OpenRegistry ==
  ASSUME NoCloseInv, NEW t \in Threads, OpenStep(t)
  PROVE  RegistryInv'
<1> USE ConstantsAssumption DEF NoCloseInv, TypeInv
<1>1. Untouched(t)
  BY OpenFootprint
<1>2. DescriptorOK(t) /\ name[t] \in Names
  BY OpenFootprint DEF RegistryInv, ControlOK
<1>3. CASE SyncLookup(t)
  <2>1. UNCHANGED <<tables, kernel, given>>
    BY <1>3 DEF SyncLookup
  <2>2. DescriptorOK(t)'
    BY <1>3, <1>2 DEF SyncLookup, NoneCloses, Goto, locals, tables, TypeOK,
       DescriptorOK, Opened, Holding, Entering, Inside
  <2> QED
    BY <1>1, <2>1, <2>2, RegistryFrame
<1>4. CASE SyncFd(t)
  <2>1. UNCHANGED <<tables, kernel, given>>
    BY <1>4 DEF SyncFd
  <2>2. NameToFd[name[t]] > 0 /\ NameToFd[name[t]] \in Fds \cup {0, -1}
    BY <1>4, <1>2 DEF SyncFd, DescriptorOK, TypeOK, Keys
  <2>3. NameToFd[name[t]] \in Fds
    BY <2>2
  <2>4. Published(NameToFd[name[t]], name[t])
    BY <1>2, <2>2 DEF RegistryInv
  <2>5. id'[t] = NameToFd[name[t]] /\ pc'[t] \in {"lookup", "check"}
    BY <1>4 DEF SyncFd, Goto, TypeOK
  <2>6. DescriptorOK(t)'
    BY <1>2, <2>1, <2>3, <2>4, <2>5
       DEF DescriptorOK, Opened, Published, tables, FDChcker
  <2> QED
    BY <1>1, <2>1, <2>6, RegistryFrame
<1>5. CASE OpenKnown(t)
  <2>1. UNCHANGED <<tables, kernel>> /\ NameToFd[name[t]] > 0
    BY <1>5 DEF OpenKnown
  <2>2. DescriptorOK(t)'
    <3>1. CASE Return(t)
      BY <3>1 DEF Return, Goto, TypeOK, DescriptorOK, Opened, Holding, Entering, Inside
    <3>2. CASE Goto(t, "syncFd") /\ UNCHANGED locals
      BY <2>1, <3>2 DEF Goto, locals, tables, TypeOK, DescriptorOK, Opened, Holding,
         Entering, Inside
    <3> QED
      BY <1>5, <3>1, <3>2, Zenon DEF OpenKnown
  <2>3. \A u \in Threads : DescriptorOK(u)'
    BY <1>1, <2>1, <2>2, UnchangedGrows, OthersKeepDescriptor DEF RegistryInv
  <2>4. given' \subseteq given \cup {NameToFd[name[t]]}
    BY <1>5 DEF OpenKnown
  <2>5. \A fd \in given' : kernel[fd] \in Names /\ Published(fd, kernel[fd])
    BY <1>2, <2>1, <2>4 DEF RegistryInv, Published
  <2> QED
    BY <2>1, <2>3, <2>5 DEF RegistryInv, Published, tables, FDChcker
<1>6. CASE OpenNew(t)
  <2>1. UNCHANGED <<tables, kernel, given>>
    BY <1>6 DEF OpenNew
  <2>2. DescriptorOK(t)'
    BY <1>6 DEF OpenNew, Goto, TypeOK, DescriptorOK, Opened, Holding, Entering, Inside
  <2> QED
    BY <1>1, <2>1, <2>2, RegistryFrame
<1>7. CASE CreateFails(t)
  <2>1. UNCHANGED <<tables, kernel, given>>
    BY <1>7 DEF CreateFails
  <2>2. DescriptorOK(t)'
    BY <1>7 DEF CreateFails, Return, Goto, TypeOK, DescriptorOK, Opened, Holding,
       Entering, Inside
  <2> QED
    BY <1>1, <2>1, <2>2, RegistryFrame
<1>8. CASE Create(t)
  <2>1. PICK fd \in Fds : /\ kernel[fd] = Nil
                          /\ kernel' = [kernel EXCEPT ![fd] = name[t]]
                          /\ id' = [id EXCEPT ![t] = fd]
    BY <1>8 DEF Create
  <2>2. UNCHANGED <<tables, given>> /\ pc'[t] = "push" /\ name'[t] = name[t]
    BY <1>8 DEF Create, Goto, TypeOK
  <2>3. Grows
    BY <2>1, <2>2 DEF Grows, TypeOK, tables, FDChcker
  <2>4. DescriptorOK(t)'
    BY <2>1, <2>2 DEF DescriptorOK, TypeOK, Opened, Holding, Entering, Inside
  <2>5. \A u \in Threads : DescriptorOK(u)'
    BY <1>1, <2>3, <2>4, OthersKeepDescriptor DEF RegistryInv
  <2>6. \A x \in Fds : kernel[x] \in Names => kernel'[x] = kernel[x]
    BY <2>1 DEF TypeOK
  <2>7. given \subseteq Fds
    BY DEF TypeOK
  <2> QED
    BY <2>2, <2>5, <2>6, <2>7, NamedFds DEF RegistryInv, Published, tables, FDChcker
<1>9. CASE Push(t)
  <2>1. /\ pc[t] = "push" /\ pc'[t] = "nameFd"
        /\ OpenedFiles' = Append(OpenedFiles, id[t])
        /\ UNCHANGED <<FdToName, NameToFd, kernel, given, id, name>>
    BY <1>9 DEF Push, Goto, TypeOK, locals
  <2>2. OpenedFiles \in Seq(Fds) /\ id[t] \in Fds
    BY <2>1 DEF TypeOK, ControlOK, Opened
  <2>3. FDChcker(id[t])' /\ \A fd : FDChcker(fd) => FDChcker(fd)'
    BY <2>1, <2>2 DEF FDChcker
  <2>4. Grows
    BY <2>1, <2>3 DEF Grows
  <2>5. DescriptorOK(t)'
    BY <1>2, <2>1, <2>3 DEF DescriptorOK, Opened, Holding, Entering, Inside
  <2>6. \A u \in Threads : DescriptorOK(u)'
    BY <1>1, <2>4, <2>5, OthersKeepDescriptor DEF RegistryInv
  <2> QED
    BY <2>1, <2>3, <2>6 DEF RegistryInv, Published
<1>10. CASE NameFd(t)
  <2>1. /\ pc[t] = "nameFd" /\ pc'[t] = "fdName"
        /\ FdToName' = [FdToName EXCEPT ![id[t]] = name[t]]
        /\ UNCHANGED <<OpenedFiles, NameToFd, kernel, given, id, name>>
    BY <1>10 DEF NameFd, Goto, TypeOK, locals
  <2>2. /\ id[t] \in Fds /\ kernel[id[t]] = name[t] /\ FDChcker(id[t])
    BY <1>2, <2>1 DEF ControlOK, DescriptorOK, Opened
  <2>3. \A fd \in Fds : kernel[fd] = FdToName[fd] => FdToName'[fd] = FdToName[fd]
    BY <2>1, <2>2 DEF TypeOK
  <2>4. Grows
    BY <2>1, <2>3 DEF Grows, FDChcker
  <2>5. FdToName'[id[t]] = name[t]
    BY <2>1, <2>2 DEF TypeOK
  <2>6. DescriptorOK(t)'
    BY <2>1, <2>2, <2>5 DEF DescriptorOK, FDChcker, Opened, Holding, Entering, Inside
  <2>7. \A u \in Threads : DescriptorOK(u)'
    BY <1>1, <2>4, <2>6, OthersKeepDescriptor DEF RegistryInv
  <2>8. given \subseteq Fds
    BY DEF TypeOK
  <2> QED
    BY <2>1, <2>3, <2>7, <2>8, NamedFds DEF RegistryInv, Published, FDChcker
<1>11. CASE FdName(t)
  <2>1. /\ pc[t] = "fdName" /\ UNCHANGED <<OpenedFiles, FdToName, kernel>>
        /\ NameToFd' = [NameToFd EXCEPT ![name[t]] = id[t]]
    BY <1>11 DEF FdName
  <2>2. id[t] \in Fds /\ Published(id[t], name[t]) /\ id[t] > 0
    <3>1. id[t] \in Fds /\ Published(id[t], name[t])
      BY <1>2, <2>1 DEF ControlOK, DescriptorOK, Published, Opened
    <3>2. \A fd \in Fds : fd > 0
      BY ConstantsAssumption
    <3> QED
      BY <3>1, <3>2
  <2>3. \A n \in Names : NameToFd'[n] = IF n = name[t] THEN id[t] ELSE NameToFd[n]
    BY <2>1 DEF TypeOK, Keys
  <2>4. Grows
    BY <2>1, <2>2, <2>3 DEF Grows, FDChcker
  <2>5. DescriptorOK(t)'
    <3>1. CASE Return(t)
      BY <3>1 DEF Return, Goto, TypeOK, DescriptorOK, Opened, Holding, Entering, Inside
    <3>2. CASE Goto(t, "syncFd") /\ UNCHANGED locals
      BY <1>2, <2>2, <2>3, <3>2 DEF Goto, locals, TypeOK, DescriptorOK, Opened,
         Holding, Entering, Inside
    <3> QED
      BY <1>11, <3>1, <3>2, Zenon DEF FdName
  <2>6. \A u \in Threads : DescriptorOK(u)'
    BY <1>1, <2>4, <2>5, OthersKeepDescriptor DEF RegistryInv
  <2>7. given' \subseteq given \cup {id[t]}
    BY <1>11 DEF FdName
  <2>8. \A fd \in given' : kernel[fd] \in Names /\ Published(fd, kernel[fd])
    BY <1>2, <2>2, <2>7 DEF RegistryInv, Published
  <2>9. \A n \in Names : NameToFd'[n] > 0 => Published(NameToFd'[n], n)
    BY <2>2, <2>3 DEF RegistryInv
  <2> QED
    BY <2>1, <2>6, <2>8, <2>9 DEF RegistryInv, Published, FDChcker
<1> QED
  BY <1>3, <1>4, <1>5, <1>6, <1>7, <1>8, <1>9, <1>10, <1>11 DEF OpenStep

\* The way into a file leaves the registries alone and keeps the identifier.
LEMMA EntryRegistry ==
  ASSUME NoCloseInv, NEW t \in Threads, EntryStep(t)
  PROVE  RegistryInv'
<1> USE DEF NoCloseInv, TypeInv
<1>1. Untouched(t) /\ UNCHANGED <<tables, kernel, given>>
  BY EntryFootprint
<1>2. DescriptorOK(t) /\ pc[t] \in Holding
  BY EntryFootprint DEF RegistryInv, Holding
<1>3. pc'[t] \in Holding \cup {"idle"}
  <2>1. CASE PassWait(t)
    <3>1. op[t] \in IdOps \ {"FCLOSE"}
      BY <2>1 DEF PassWait, ControlOK, NoneCloses, Entering
    <3> QED
      BY <2>1, <3>1 DEF PassWait, AfterWait, Goto, TypeOK, IdOps, Readers, Holding,
         Inside
  <2>2. CASE Recheck(t)
    <3>1. op[t] \in {"FREAD", "FWRITE"}
      BY <2>2 DEF Recheck, ControlOK, NoneCloses
    <3> QED
      BY <2>2, <3>1 DEF Recheck, AfterRecheck, Return, Goto, TypeOK, Holding, Inside
  <2> QED
    BY <2>1, <2>2 DEF EntryStep, Check, Lookup, FindControl, NewControl, FailWait,
       Sleep, Return, Goto, TypeOK, Holding, Entering
<1>4. pc'[t] # "idle" => id'[t] = id[t]
  BY DEF EntryStep, Check, Lookup, FindControl, NewControl, PassWait, FailWait,
     Sleep, Recheck, Return, Goto, TypeOK, locals
<1>5. DescriptorOK(t)'
  BY <1>1, <1>2, <1>3, <1>4 DEF DescriptorOK, Published, FDChcker, tables, Opened,
     Holding, Entering, Inside
<1> QED
  BY <1>1, <1>5, RegistryFrame

LEMMA AccessRegistry ==
  ASSUME NoCloseInv, NEW t \in Threads, AccessStep(t)
  PROVE  RegistryInv'
<1> USE DEF NoCloseInv, TypeInv
<1>1. UNCHANGED <<tables, kernel, given>>
  BY AccessFootprint
<1>2. DescriptorOK(t) /\ pc[t] \in Holding
  BY AccessFootprint DEF RegistryInv, Holding
<1>3. CASE NotifyAll(t)
  <2>1. \A u \in Threads : /\ id'[u] = id[u] /\ name'[u] = name[u]
                           /\ \/ pc'[u] = pc[u]
                              \/ pc[u] \in Holding /\ pc'[u] \in Holding
    BY <1>3 DEF NotifyAll, Woken, Sleepers, locals, Holding, Entering, Inside
  <2>2. \A u \in Threads : DescriptorOK(u)'
    BY <1>1, <2>1 DEF RegistryInv, DescriptorOK, Published, FDChcker, tables, Opened,
       Holding, Entering, Inside
  <2> QED
    BY <1>1, <2>2 DEF RegistryInv, Published, FDChcker, tables
<1>4. CASE ~NotifyAll(t)
  <2>1. /\ pc[t] # "notify" /\ pc'[t] \in Holding \cup {"idle"}
        /\ pc'[t] # "idle" => id'[t] = id[t]
    BY <1>4 DEF AccessStep, Lock, Enter, FinishIO, Leave, Return, Goto, TypeOK,
       locals, Holding, Inside
  <2>2. DescriptorOK(t)'
    BY <1>1, <1>2, <2>1 DEF DescriptorOK, Published, FDChcker, tables, Opened,
       Holding, Entering, Inside
  <2> QED
    BY <1>1, <2>1, <2>2, AccessFootprint, RegistryFrame
<1> QED
  BY <1>3, <1>4

LEMMA StepRegistry ==
  ASSUME NoCloseInv, [Next]_vars
  PROVE  RegistryInv'
<1> USE DEF NoCloseInv, TypeInv
<1>1. CASE UNCHANGED vars
  BY <1>1 DEF vars, tables, locals, RegistryInv, DescriptorOK, Published, FDChcker
<1>2. ASSUME NEW t \in Threads, SpuriousWakeup(t)
      PROVE  RegistryInv'
  <2>1. Untouched(t) /\ UNCHANGED <<tables, kernel, given, locals>>
    BY <1>2, SpuriousFootprint
  <2>2. DescriptorOK(t) /\ pc[t] = "asleep" /\ pc'[t] = "wait"
    BY <1>2, SpuriousFootprint DEF RegistryInv
  <2>3. DescriptorOK(t)'
    BY <2>1, <2>2 DEF DescriptorOK, Published, FDChcker, tables, locals, Opened,
       Holding, Entering, Inside
  <2> QED
    BY <2>1, <2>3, RegistryFrame
<1>3. ASSUME NEW t \in Threads, CloseStep(t)
      PROVE  FALSE
  BY <1>3, CloseFootprint DEF NoneCloses, Closing
<1> QED
  BY <1>1, <1>2, <1>3, RequestRegistry, OpenRegistry, EntryRegistry, AccessRegistry
     DEF Next, Step

-----------------------------------------------------------------------------
(* The blocks.                                                             *)

\* What a step of t does to the state the other threads' BlockOK reads.
BlocksKept(t) ==
  /\ \A fd \in Fds : kernel[fd] # Nil => kernel'[fd] = kernel[fd]
  /\ \A n \in Keys : FILE_ACCESS[n] # Nil =>
       /\ FILE_ACCESS'[n] = FILE_ACCESS[n]
       /\ \A u \in Threads \ {t} :
            writeLock[FILE_ACCESS[n]] = u => writeLock'[FILE_ACCESS[n]] = u

LEMMA OthersKeepBlock ==
  ASSUME NoCloseInv, NEW t \in Threads, BlocksKept(t), Untouched(t),
         NEW u \in Threads \ {t}
  PROVE  BlockOK(u)'
<1> USE DEF NoCloseInv, TypeInv
<1>1. BlockOK(u) /\ DescriptorOK(u)
  BY DEF ControlInv, RegistryInv
<1>2. /\ pc'[u] = pc[u] /\ id'[u] = id[u] /\ name'[u] = name[u]
      /\ ctl'[u] = ctl[u] /\ op'[u] = op[u]
  BY DEF Untouched
<1>3. pc[u] \in Named => name'[u] = kernel'[id'[u]]
  BY <1>1, <1>2, ConstantsAssumption DEF BlockOK, DescriptorOK, BlocksKept, Named
<1>4. pc[u] \in Controlled =>
        /\ ctl'[u] \in Blocks /\ ctl'[u] = FILE_ACCESS'[name'[u]]
        /\ writeLock[ctl[u]] = u => writeLock'[ctl[u]] = u
  <2>1. SUFFICES ASSUME pc[u] \in Controlled
                 PROVE  /\ ctl[u] = FILE_ACCESS'[name[u]]
                        /\ writeLock[ctl[u]] = u => writeLock'[ctl[u]] = u
    BY <1>1, <1>2 DEF BlockOK
  <2>2. name[u] \in Keys /\ FILE_ACCESS[name[u]] = ctl[u] /\ ctl[u] # Nil
    BY <1>1, <2>1, ConstantsAssumption DEF BlockOK, TypeOK
  <2> QED
    BY <2>2 DEF BlocksKept
<1> QED
  BY <1>1, <1>2, <1>3, <1>4 DEF BlockOK, Controlled, Named, Holding, Inside

LEMMA ControlFrame ==
  ASSUME NoCloseInv, NEW t \in Threads, BlocksKept(t), Untouched(t), BlockOK(t)'
  PROVE  ControlInv'
BY OthersKeepBlock DEF ControlInv

LEMMA RequestControl ==
  ASSUME NoCloseInv, NEW t \in Threads, Request(t)
  PROVE  ControlInv'
<1> USE DEF NoCloseInv, TypeInv
<1>1. /\ Untouched(t) /\ pc'[t] \in {"open", "sync", "check", "lookup"}
      /\ BlocksKept(t)
  BY RequestFootprint DEF BlocksKept, ctls
<1>2. BlockOK(t)'
  BY <1>1 DEF BlockOK, Controlled, Named, Holding, Entering, Inside
<1> QED
  BY <1>1, <1>2, ControlFrame

LEMMA OpenControl ==
  ASSUME NoCloseInv, NEW t \in Threads, OpenStep(t)
  PROVE  ControlInv'
<1> USE DEF NoCloseInv, TypeInv
<1>1. /\ Untouched(t) /\ UNCHANGED ctls
      /\ pc'[t] \in Opening \cup {"syncFd", "lookup", "check", "idle"}
  BY OpenFootprint
<1>2. \A fd \in Fds : kernel[fd] # Nil => kernel'[fd] = kernel[fd]
  BY DEF OpenStep, SyncLookup, SyncFd, OpenKnown, OpenNew, Create, CreateFails,
     Push, NameFd, FdName, TypeOK
<1>3. BlocksKept(t)
  BY <1>1, <1>2 DEF BlocksKept, ctls
<1>4. BlockOK(t)'
  BY <1>1 DEF BlockOK, Controlled, Named, Holding, Entering, Inside, Opening
<1> QED
  BY <1>1, <1>3, <1>4, ControlFrame

LEMMA EntryControl ==
  ASSUME NoCloseInv, NEW t \in Threads, EntryStep(t)
  PROVE  ControlInv'
<1> USE DEF NoCloseInv, TypeInv
<1>1. Untouched(t) /\ UNCHANGED kernel
  BY EntryFootprint
<1>2. BlockOK(t) /\ DescriptorOK(t)
  BY DEF ControlInv, RegistryInv
<1>3. CASE NewControl(t)
  <2>1. PICK b \in FreeBlocks :
          /\ FILE_ACCESS' = [FILE_ACCESS EXCEPT ![name[t]] = b]
          /\ writeLock' = [writeLock EXCEPT ![b] = Nil]
          /\ ctl' = [ctl EXCEPT ![t] = b]
    BY <1>3, Zenon DEF NewControl
  <2>2. /\ FILE_ACCESS[name[t]] = Nil /\ pc[t] = "control" /\ pc'[t] = "wait"
        /\ id'[t] = id[t] /\ name'[t] = name[t]
    BY <1>3 DEF NewControl, Goto, TypeOK
  <2>3. b \in Blocks /\ \A n \in Keys : FILE_ACCESS[n] # b
    BY ConstantsAssumption DEF FreeBlocks, Linked
  <2>4. BlocksKept(t)
    BY <1>1, <2>1, <2>2, <2>3 DEF BlocksKept, TypeOK
  <2>5. BlockOK(t)'
    BY <1>1, <1>2, <2>1, <2>2, <2>3 DEF BlockOK, TypeOK, Named, Holding, Entering, Inside
  <2> QED
    BY <1>1, <2>4, <2>5, ControlFrame
<1>4. CASE ~NewControl(t)
  <2>1. UNCHANGED ctls
    BY <1>4 DEF EntryStep, Check, Lookup, FindControl, PassWait, FailWait, Sleep,
       Recheck
  <2>2. BlocksKept(t)
    BY <1>1, <2>1 DEF BlocksKept, ctls
  <2> SUFFICES BlockOK(t)'
    BY <1>1, <2>2, ControlFrame
  <2>3. CASE Check(t)
    BY <2>3 DEF Check, Return, Goto, TypeOK, BlockOK, Controlled, Named, Holding,
       Entering, Inside
  <2>4. CASE Lookup(t)
    <3>1. /\ pc'[t] = "control" /\ name'[t] = kernel[id[t]] /\ id'[t] = id[t]
      BY <1>2, <2>4 DEF Lookup, NameOf, Goto, TypeOK, DescriptorOK, Published,
         Holding, Entering
    <3> QED
      BY <1>1, <3>1 DEF BlockOK, Controlled, Inside
  <2>5. CASE FindControl(t)
    <3>1. /\ pc[t] = "control" /\ pc'[t] = "wait" /\ FILE_ACCESS[name[t]] # Nil
          /\ ctl'[t] = FILE_ACCESS[name[t]] /\ id'[t] = id[t] /\ name'[t] = name[t]
      BY <2>5 DEF FindControl, Goto, TypeOK
    <3> QED
      BY <1>1, <1>2, <2>1, <3>1
         DEF BlockOK, TypeOK, ctls, Named, Holding, Entering, Inside
  <2>6. CASE PassWait(t)
    <3>1. op[t] \in IdOps \ {"FCLOSE"} /\ pc[t] = "wait" /\ UNCHANGED locals
      BY <2>6 DEF PassWait, ControlOK, NoneCloses, Entering
    <3>2. /\ pc'[t] \in {"enter", "recheck"}
          /\ pc'[t] = "enter" => op[t] # "FWRITE"
      BY <2>6, <3>1 DEF PassWait, AfterWait, Goto, TypeOK, IdOps, Readers
    <3> QED
      BY <1>1, <1>2, <2>1, <3>1, <3>2 DEF BlockOK, ctls, locals, Controlled, Named,
         Holding, Entering, Inside
  <2>7. CASE FailWait(t) \/ Sleep(t)
    <3>1. /\ pc[t] \in {"wait", "block"} /\ pc'[t] \in {"block", "asleep"}
          /\ UNCHANGED locals
      BY <2>7 DEF FailWait, Sleep, Goto, TypeOK
    <3> QED
      BY <1>1, <1>2, <2>1, <3>1 DEF BlockOK, ctls, locals, Controlled, Named,
         Holding, Entering, Inside
  <2>8. CASE Recheck(t)
    <3>1. pc[t] = "recheck" /\ op[t] \in {"FREAD", "FWRITE"}
      BY <2>8 DEF Recheck, ControlOK, NoneCloses
    <3>2. \/ pc'[t] = "idle"
          \/ /\ pc'[t] \in {"enter", "lock"} /\ UNCHANGED locals
             /\ pc'[t] = "enter" => op[t] # "FWRITE"
      BY <2>8, <3>1 DEF Recheck, AfterRecheck, Return, Goto, TypeOK
    <3> QED
      BY <1>1, <1>2, <2>1, <3>1, <3>2 DEF BlockOK, ctls, locals, Controlled, Named,
         Holding, Entering, Inside
  <2> QED
    BY <1>4, <2>3, <2>4, <2>5, <2>6, <2>7, <2>8 DEF EntryStep
<1> QED
  BY <1>3, <1>4

LEMMA AccessControl ==
  ASSUME NoCloseInv, NEW t \in Threads, AccessStep(t)
  PROVE  ControlInv'
<1> USE DEF NoCloseInv, TypeInv
<1>1. UNCHANGED <<FILE_ACCESS, kernel>>
  BY AccessFootprint
<1>2. BlockOK(t) /\ pc[t] \in Controlled
  BY AccessFootprint DEF ControlInv, Controlled, Named, Holding, Inside, Entering
<1>3. ctl[t] \in Blocks
  BY <1>2 DEF BlockOK
<1>4. CASE NotifyAll(t)
  <2>1. UNCHANGED <<ctls, locals>>
    BY <1>4 DEF NotifyAll
  <2>2. \A u \in Threads : \/ pc'[u] = pc[u]
                           \/ pc[u] \in Controlled \ Inside /\ pc'[u] = "wait"
                           \/ pc[u] = "notify" /\ pc'[u] = "unlock"
    BY <1>4 DEF NotifyAll, Woken, Sleepers, Controlled, Named, Holding, Entering, Inside
  <2> QED
    BY <1>1, <2>1, <2>2 DEF ControlInv, BlockOK, ctls, locals, Controlled, Named,
       Holding, Entering, Inside
<1>5. CASE ~NotifyAll(t)
  <2>1. Untouched(t)
    <3>1. pc[t] # "notify"
      BY <1>5 DEF AccessStep, Lock, Enter, FinishIO, Leave
    <3> QED
      BY <3>1, AccessFootprint
  <2> SUFFICES BlocksKept(t) /\ BlockOK(t)'
    BY <2>1, ControlFrame
  <2>2. CASE Lock(t)
    <3>1. /\ writeLock[ctl[t]] = Nil /\ writeLock' = [writeLock EXCEPT ![ctl[t]] = t]
          /\ pc'[t] = "enter" /\ UNCHANGED locals
      BY <2>2 DEF Lock, Goto, TypeOK
    <3>2. BlocksKept(t)
      BY <1>1, <1>3, <3>1, ConstantsAssumption DEF BlocksKept, TypeOK
    <3>3. writeLock'[ctl[t]] = t
      BY <1>3, <3>1 DEF TypeOK
    <3> QED
      BY <1>1, <1>2, <3>1, <3>2, <3>3 DEF BlockOK, locals, Controlled, Named, Holding
  <2>3. CASE Enter(t) \/ FinishIO(t)
    <3>1. /\ UNCHANGED <<writeLock, locals>>
          /\ pc[t] \in {"enter", "io"} /\ pc'[t] \in {"io", "notify"}
      BY <2>3 DEF Enter, FinishIO, Goto, TypeOK
    <3>2. BlocksKept(t)
      BY <1>1, <3>1 DEF BlocksKept
    <3> QED
      BY <1>1, <1>2, <3>1, <3>2 DEF BlockOK, locals, Controlled, Named, Holding,
         Entering, Inside
  <2>4. CASE Leave(t)
    <3>1. /\ writeLock' = IF op[t] = "FWRITE" THEN [writeLock EXCEPT ![ctl[t]] = Nil]
                                              ELSE writeLock
          /\ pc[t] = "unlock" /\ pc'[t] = "idle"
      BY <2>4 DEF Leave, Return, Goto, TypeOK
    <3>2. op[t] = "FWRITE" => writeLock[ctl[t]] = t
      BY <1>2, <3>1 DEF BlockOK, Inside
    <3>3. \A b \in Blocks, u \in Threads \ {t} : writeLock[b] = u => writeLock'[b] = u
      BY <3>1, <3>2 DEF TypeOK
    <3>4. BlocksKept(t)
      BY <1>1, <3>3 DEF BlocksKept, TypeOK
    <3> QED
      BY <3>1, <3>4 DEF BlockOK, Controlled, Named, Holding, Entering, Inside
  <2> QED
    BY <1>5, <2>2, <2>3, <2>4 DEF AccessStep
<1> QED
  BY <1>4, <1>5

LEMMA StepControl ==
  ASSUME NoCloseInv, [Next]_vars
  PROVE  ControlInv'
<1> USE DEF NoCloseInv, TypeInv
<1>1. CASE UNCHANGED vars
  BY <1>1 DEF vars, ctls, locals, ControlInv, BlockOK
<1>2. ASSUME NEW t \in Threads, SpuriousWakeup(t)
      PROVE  ControlInv'
  <2>1. /\ Untouched(t) /\ UNCHANGED <<ctls, kernel, locals>>
        /\ pc[t] = "asleep" /\ pc'[t] = "wait"
    BY <1>2, SpuriousFootprint
  <2>2. BlocksKept(t)
    BY <2>1 DEF BlocksKept, ctls
  <2>3. BlockOK(t)'
    BY <2>1 DEF ControlInv, BlockOK, ctls, locals, Controlled, Named, Holding,
       Entering, Inside
  <2> QED
    BY <2>1, <2>2, <2>3, ControlFrame
<1>3. ASSUME NEW t \in Threads, CloseStep(t)
      PROVE  FALSE
  BY <1>3, CloseFootprint DEF NoneCloses, Closing
<1> QED
  BY <1>1, <1>2, <1>3, RequestControl, OpenControl, EntryControl, AccessControl
     DEF Next, Step

-----------------------------------------------------------------------------
(* The theorems.                                                           *)

LEMMA InitNoClose == Init => NoCloseInv
<1> SUFFICES ASSUME Init PROVE NoCloseInv
  OBVIOUS
<1>1. \A t \in Threads : pc[t] = "idle" /\ op[t] = "none"
  BY DEF Init
<1>2. given = {} /\ \A n \in Names : NameToFd[n] = 0
  BY DEF Init, Keys
<1>3. NoneCloses /\ ControlInv
  BY <1>1 DEF NoneCloses, ControlInv, BlockOK, Closing, Controlled, Named, Holding,
     Entering, Inside
<1>4. RegistryInv
  BY <1>1, <1>2 DEF RegistryInv, DescriptorOK, Opened, Holding, Entering, Inside
<1> QED
  BY <1>3, <1>4, InitTypeInv DEF NoCloseInv

LEMMA NoCloseInvariant == Closers = {} => (Spec => []NoCloseInv)
<1> SUFFICES ASSUME Closers = {} PROVE Spec => []NoCloseInv
  OBVIOUS
<1>1. NoCloseInv /\ [Next]_vars => NoCloseInv'
  BY StepTypeInv, StepNoneCloses, StepRegistry, StepControl DEF NoCloseInv
<1> QED
  BY <1>1, InitNoClose, PTL DEF Spec

\* The name behind a thread's descriptor is the file its system call acts on.
LEMMA TargetIsName ==
  ASSUME NoCloseInv, NEW t \in Threads, pc[t] = "io"
  PROVE  /\ Target(t) = name[t] /\ name[t] \in Names
         /\ ctl[t] \in Blocks /\ ctl[t] = FILE_ACCESS[name[t]]
         /\ op[t] = "FWRITE" => writeLock[ctl[t]] = t
BY DEF NoCloseInv, RegistryInv, ControlInv, DescriptorOK, BlockOK, Target,
       Controlled, Named, Holding, Inside

LEMMA OneWriter == NoCloseInv => WriteExclusion
BY TargetIsName DEF WriteExclusion, InWrite

\* "No writing can occur when someone else is doing it": FWRITEs of the same
\* file reach write() one at a time, however many clients, peers and files.
THEOREM WritersExclude == Closers = {} => (Spec => []WriteExclusion)
BY OneWriter, NoCloseInvariant, PTL

\* An identifier a client holds, and the one filed under a name, are in
\* OpenedFiles and are open on the file FdToName and NameToFd say.
THEOREM RegistriesAgree == Closers = {} => (Spec => []RegistryAgrees)
<1>1. NoCloseInv => RegistryAgrees
  BY DEF NoCloseInv, RegistryInv, RegistryAgrees, Published
<1> QED
  BY <1>1, NoCloseInvariant, PTL

-----------------------------------------------------------------------------
(* Who is in a system call: only Enter and FinishIO change it.             *)

SameIO ==
  \A u \in Threads :
    /\ pc'[u] = "io" <=> pc[u] = "io"
    /\ pc[u] = "io" => op'[u] = op[u] /\ ctl'[u] = ctl[u] /\ name'[u] = name[u]

LEMMA UntouchedIO ==
  ASSUME NEW t \in Threads, Untouched(t), pc[t] # "io", pc'[t] # "io"
  PROVE  SameIO
BY DEF SameIO, Untouched

LEMMA IOCases ==
  ASSUME NoCloseInv, [Next]_vars,
         ~ \E t \in Threads : Enter(t) \/ FinishIO(t)
  PROVE  SameIO
<1> USE DEF NoCloseInv, TypeInv
<1>1. CASE UNCHANGED vars
  BY <1>1 DEF vars, locals, SameIO
<1>2. ASSUME NEW t \in Threads, Request(t)
      PROVE  SameIO
  BY <1>2, RequestFootprint, UntouchedIO
<1>3. ASSUME NEW t \in Threads, OpenStep(t)
      PROVE  SameIO
  BY <1>3, OpenFootprint, UntouchedIO DEF Opening
<1>4. ASSUME NEW t \in Threads, EntryStep(t)
      PROVE  SameIO
  <2>1. Untouched(t) /\ pc[t] \in Entering \cup {"recheck"}
    BY <1>4, EntryFootprint
  <2>2. pc'[t] # "io"
    BY <1>4 DEF EntryStep, Check, Lookup, FindControl, NewControl, PassWait,
       FailWait, Sleep, Recheck, AfterWait, AfterRecheck, Return, Goto, TypeOK,
       ControlOK, Entering, IdOps, Readers
  <2> QED
    BY <2>1, <2>2, UntouchedIO DEF Entering
<1>5. ASSUME NEW t \in Threads, AccessStep(t)
      PROVE  SameIO
  <2>1. CASE Lock(t) \/ Leave(t)
    <3>1. pc[t] \in {"lock", "unlock"} /\ pc'[t] \in {"enter", "idle"}
      BY <2>1 DEF Lock, Leave, Return, Goto, TypeOK
    <3> QED
      BY <1>5, <3>1, AccessFootprint, UntouchedIO
  <2>2. CASE NotifyAll(t)
    BY <2>2 DEF NotifyAll, Woken, Sleepers, locals, SameIO
  <2> QED
    BY <1>5, <2>1, <2>2 DEF AccessStep
<1>6. ASSUME NEW t \in Threads, CloseStep(t)
      PROVE  FALSE
  BY <1>6, CloseFootprint DEF NoneCloses, Closing
<1>7. ASSUME NEW t \in Threads, SpuriousWakeup(t)
      PROVE  SameIO
  BY <1>7, SpuriousFootprint, UntouchedIO
<1> QED
  BY <1>1, <1>2, <1>3, <1>4, <1>5, <1>6, <1>7 DEF Next, Step

-----------------------------------------------------------------------------
(* Refinement of WriterRule.                                               *)

WritersByName ==
  \A f \in Names : Writing(f) = {t \in Threads : InWrite(t) /\ name[t] = f}

LEMMA WritingByName == NoCloseInv => WritersByName
BY TargetIsName DEF WritersByName, Writing, InWrite

LEMMA WritingUnchanged ==
  ASSUME WritersByName, WritersByName',
         \A u \in Threads : InWrite(u)' <=> InWrite(u),
         \A u \in Threads : InWrite(u) => name'[u] = name[u]
  PROVE  UNCHANGED [f \in Names |-> Writing(f)]
<1>1. \A f \in Names : Writing(f)' = {u \in Threads : InWrite(u)' /\ name'[u] = f}
  BY DEF WritersByName
<1>2. \A f \in Names : Writing(f)' = Writing(f)
  BY <1>1 DEF WritersByName
<1> QED
  BY <1>2

\* A reader, or a step that enters and leaves no system call, changes no
\* writer; an FWRITE that enters or leaves write() is a step of the rule.
LEMMA StepRule ==
  ASSUME NoCloseInv, WritersByName, WritersByName', [Next]_vars
  PROVE  [Rule!Next]_([f \in Names |-> Writing(f)])
<1> USE DEF NoCloseInv, TypeInv
<1>1. CASE SameIO
  BY <1>1, WritingUnchanged DEF SameIO, InWrite
<1>2. ASSUME NEW t \in Threads, Enter(t) \/ FinishIO(t)
      PROVE  [Rule!Next]_([f \in Names |-> Writing(f)])
  <2>1. Untouched(t) /\ UNCHANGED locals
    BY <1>2, LocalsUntouched DEF Enter, FinishIO, Goto
  <2>2. \A u \in Threads \ {t} : /\ InWrite(u)' <=> InWrite(u)
                                 /\ name'[u] = name[u]
    BY <2>1 DEF Untouched, InWrite
  <2>3. CASE op[t] # "FWRITE"
    <3>1. ~InWrite(t) /\ ~InWrite(t)'
      BY <2>1, <2>3 DEF InWrite, locals
    <3> QED
      BY <2>2, <3>1, WritingUnchanged
  <2>4. CASE op[t] = "FWRITE"
    <3>1. name[t] \in Names /\ ctl[t] = FILE_ACCESS[name[t]] /\ writeLock[ctl[t]] = t
          /\ name'[t] = name[t]
      BY <1>2, <2>1, <2>4 DEF Enter, FinishIO, ControlInv, RegistryInv, DescriptorOK,
         BlockOK, Controlled, Named, Holding, Inside, locals
    <3>2. \A u \in Threads : InWrite(u) /\ name[u] = name[t] => u = t
      BY <3>1, TargetIsName DEF InWrite
    <3>3. \A f \in Names : f # name[t] => Writing(f)' = Writing(f)
      BY <2>2, <3>1 DEF WritersByName
    <3>4. CASE Enter(t)
      <4>1. ~InWrite(t) /\ InWrite(t)'
        BY <2>1, <2>4, <3>4 DEF Enter, Goto, TypeOK, InWrite, locals
      <4>2. Writing(name[t]) = {}
        BY <3>1, <3>2, <4>1 DEF WritersByName
      <4>3. Writing(name[t])' = {t}
        BY <2>2, <3>1, <3>2, <4>1 DEF WritersByName
      <4> QED
        BY <3>1, <3>3, <4>2, <4>3 DEF Rule!Next, Rule!BeginWrite
    <3>5. CASE FinishIO(t)
      <4>1. InWrite(t) /\ ~InWrite(t)'
        BY <2>1, <2>4, <3>5 DEF FinishIO, Goto, TypeOK, InWrite, locals
      <4>2. Writing(name[t]) = {t}
        BY <3>1, <3>2, <4>1 DEF WritersByName
      <4>3. Writing(name[t])' = {}
        BY <2>2, <3>1, <3>2, <4>1 DEF WritersByName
      <4> QED
        BY <3>1, <3>3, <4>2, <4>3 DEF Rule!Next, Rule!EndWrite
    <3> QED
      BY <1>2, <3>4, <3>5
  <2> QED
    BY <2>3, <2>4
<1> QED
  BY <1>1, <1>2, IOCases

\* The access control implements WriterRule, the README's promise to writers.
THEOREM ImplementsRule == Closers = {} => (Spec => OneWriterAtATime)
<1> SUFFICES ASSUME Closers = {} PROVE Spec => OneWriterAtATime
  OBVIOUS
<1>1. Init => Rule!Init
  BY DEF Init, Rule!Init, Writing, InWrite
<1>2. NoCloseInv /\ WritersByName /\ WritersByName' /\ [Next]_vars
        => [Rule!Next]_([f \in Names |-> Writing(f)])
  BY StepRule
<1> QED
  BY <1>1, <1>2, WritingByName, NoCloseInvariant, PTL
     DEF Spec, OneWriterAtATime, Rule!Spec

-----------------------------------------------------------------------------
(* The counters count the threads inside.                                  *)

ReadersIn(b) == {t \in Threads : InRead(t) /\ ctl[t] = b}
WritersIn(b) == {t \in Threads : InWrite(t) /\ ctl[t] = b}

LEMMA SameIOSets ==
  ASSUME SameIO, NEW b
  PROVE  ReadersIn(b)' = ReadersIn(b) /\ WritersIn(b)' = WritersIn(b)
BY DEF SameIO, ReadersIn, WritersIn, InRead, InWrite

LEMMA FiniteIO ==
  ASSUME IsFiniteSet(Threads), NEW b
  PROVE  IsFiniteSet(ReadersIn(b)) /\ IsFiniteSet(WritersIn(b))
<1>1. ReadersIn(b) \subseteq Threads /\ WritersIn(b) \subseteq Threads
  BY DEF ReadersIn, WritersIn
<1> QED
  BY <1>1, FS_Subset

LEMMA StepCounters ==
  ASSUME IsFiniteSet(Threads), NoCloseInv, CountersExact, [Next]_vars
  PROVE  CountersExact'
<1> SUFFICES ASSUME NEW b \in Blocks
             PROVE  /\ reading'[b] = Cardinality(ReadersIn(b)')
                    /\ writing'[b] = Cardinality(WritersIn(b)')
  BY DEF CountersExact, ReadersIn, WritersIn
<1>1. /\ reading[b] = Cardinality(ReadersIn(b))
      /\ writing[b] = Cardinality(WritersIn(b))
  BY DEF CountersExact, ReadersIn, WritersIn
<1>2. ASSUME NEW t \in Threads, Enter(t)
      PROVE  /\ reading'[b] = Cardinality(ReadersIn(b)')
             /\ writing'[b] = Cardinality(WritersIn(b)')
  <2>1. /\ Untouched(t) /\ UNCHANGED locals /\ pc[t] = "enter" /\ pc'[t] = "io"
    BY <1>2, LocalsUntouched DEF Enter, Goto, NoCloseInv, TypeInv, TypeOK
  <2>2. ctl[t] \in Blocks /\ t \notin ReadersIn(b) \cup WritersIn(b)
    BY <2>1 DEF NoCloseInv, ControlInv, BlockOK, Controlled, Named, Holding, Inside,
       ReadersIn, WritersIn, InRead, InWrite
  <2>3. CASE op[t] \in Readers
    <3>1. /\ reading' = [reading EXCEPT ![ctl[t]] = @ + 1] /\ UNCHANGED writing
      BY <1>2, <2>3 DEF Enter, Readers
    <3>2. /\ ReadersIn(b)' = IF ctl[t] = b THEN ReadersIn(b) \cup {t} ELSE ReadersIn(b)
          /\ WritersIn(b)' = WritersIn(b)
      BY <2>1, <2>2, <2>3 DEF Untouched, locals, ReadersIn, WritersIn, InRead,
         InWrite, Readers
    <3>3. reading'[b] = IF ctl[t] = b THEN reading[b] + 1 ELSE reading[b]
      BY <2>2, <3>1 DEF NoCloseInv, TypeInv, TypeOK
    <3>4. Cardinality(ReadersIn(b) \cup {t}) = Cardinality(ReadersIn(b)) + 1
      <4>1. IsFiniteSet(ReadersIn(b))
        BY FiniteIO
      <4>2. t \notin ReadersIn(b)
        BY <2>2
      <4> QED
        BY <4>1, <4>2, FS_AddElement
    <3>5. CASE ctl[t] = b
      BY <1>1, <3>1, <3>2, <3>3, <3>4, <3>5
    <3>6. CASE ctl[t] # b
      BY <1>1, <3>1, <3>2, <3>3, <3>6
    <3> QED
      BY <3>5, <3>6
  <2>4. CASE op[t] = "FWRITE"
    <3>1. /\ writing' = [writing EXCEPT ![ctl[t]] = @ + 1] /\ UNCHANGED reading
      BY <1>2, <2>4 DEF Enter, Readers
    <3>2. /\ WritersIn(b)' = IF ctl[t] = b THEN WritersIn(b) \cup {t} ELSE WritersIn(b)
          /\ ReadersIn(b)' = ReadersIn(b)
      BY <2>1, <2>2, <2>4 DEF Untouched, locals, ReadersIn, WritersIn, InRead,
         InWrite, Readers
    <3>3. writing'[b] = IF ctl[t] = b THEN writing[b] + 1 ELSE writing[b]
      BY <2>2, <3>1 DEF NoCloseInv, TypeInv, TypeOK
    <3>4. Cardinality(WritersIn(b) \cup {t}) = Cardinality(WritersIn(b)) + 1
      <4>1. IsFiniteSet(WritersIn(b))
        BY FiniteIO
      <4>2. t \notin WritersIn(b)
        BY <2>2
      <4> QED
        BY <4>1, <4>2, FS_AddElement
    <3>5. CASE ctl[t] = b
      BY <1>1, <3>1, <3>2, <3>3, <3>4, <3>5
    <3>6. CASE ctl[t] # b
      BY <1>1, <3>1, <3>2, <3>3, <3>6
    <3> QED
      BY <3>5, <3>6
  <2> QED
    BY <1>2, <2>3, <2>4 DEF Enter
<1>3. ASSUME NEW t \in Threads, FinishIO(t)
      PROVE  /\ reading'[b] = Cardinality(ReadersIn(b)')
             /\ writing'[b] = Cardinality(WritersIn(b)')
  <2>1. /\ Untouched(t) /\ UNCHANGED locals /\ pc[t] = "io" /\ pc'[t] = "notify"
    BY <1>3, LocalsUntouched DEF FinishIO, Goto, NoCloseInv, TypeInv, TypeOK
  <2>2. ctl[t] \in Blocks
    BY <2>1 DEF NoCloseInv, ControlInv, BlockOK, Controlled, Named, Holding, Inside
  <2>3. CASE op[t] \in Readers
    <3>1. /\ reading' = [reading EXCEPT ![ctl[t]] = @ - 1] /\ UNCHANGED writing
      BY <1>3, <2>3 DEF FinishIO, Readers
    <3>2. /\ ReadersIn(b)' = ReadersIn(b) \ {t} /\ WritersIn(b)' = WritersIn(b)
          /\ t \in ReadersIn(b) <=> ctl[t] = b
      BY <2>1, <2>3 DEF Untouched, locals, ReadersIn, WritersIn, InRead, InWrite, Readers
    <3>3. reading'[b] = IF ctl[t] = b THEN reading[b] - 1 ELSE reading[b]
      BY <2>2, <3>1 DEF NoCloseInv, TypeInv, TypeOK
    <3>4. CASE ctl[t] = b
      <4>1. IsFiniteSet(ReadersIn(b))
        BY FiniteIO
      <4>2. t \in ReadersIn(b)
        BY <3>2, <3>4
      <4>3. Cardinality(ReadersIn(b) \ {t}) = Cardinality(ReadersIn(b)) - 1
        BY <4>1, <4>2, FS_RemoveElement
      <4> QED
        BY <1>1, <3>1, <3>2, <3>3, <3>4, <4>3
    <3>5. CASE ctl[t] # b
      <4>1. ReadersIn(b) \ {t} = ReadersIn(b)
        BY <3>2, <3>5
      <4> QED
        BY <1>1, <3>1, <3>2, <3>3, <3>5, <4>1
    <3> QED
      BY <3>4, <3>5
  <2>4. CASE op[t] = "FWRITE"
    <3>1. /\ writing' = [writing EXCEPT ![ctl[t]] = @ - 1] /\ UNCHANGED reading
      BY <1>3, <2>4 DEF FinishIO, Readers
    <3>2. /\ WritersIn(b)' = WritersIn(b) \ {t} /\ ReadersIn(b)' = ReadersIn(b)
          /\ t \in WritersIn(b) <=> ctl[t] = b
      BY <2>1, <2>4 DEF Untouched, locals, ReadersIn, WritersIn, InRead, InWrite, Readers
    <3>3. writing'[b] = IF ctl[t] = b THEN writing[b] - 1 ELSE writing[b]
      BY <2>2, <3>1 DEF NoCloseInv, TypeInv, TypeOK
    <3>4. CASE ctl[t] = b
      <4>1. IsFiniteSet(WritersIn(b))
        BY FiniteIO
      <4>2. t \in WritersIn(b)
        BY <3>2, <3>4
      <4>3. Cardinality(WritersIn(b) \ {t}) = Cardinality(WritersIn(b)) - 1
        BY <4>1, <4>2, FS_RemoveElement
      <4> QED
        BY <1>1, <3>1, <3>2, <3>3, <3>4, <4>3
    <3>5. CASE ctl[t] # b
      <4>1. WritersIn(b) \ {t} = WritersIn(b)
        BY <3>2, <3>5
      <4> QED
        BY <1>1, <3>1, <3>2, <3>3, <3>5, <4>1
    <3> QED
      BY <3>4, <3>5
  <2> QED
    BY <1>3, <2>3, <2>4 DEF FinishIO
<1>4. ASSUME NEW t \in Threads, NewControl(t)
      PROVE  /\ reading'[b] = Cardinality(ReadersIn(b)')
             /\ writing'[b] = Cardinality(WritersIn(b)')
  <2>1. PICK c \in FreeBlocks : /\ reading' = [reading EXCEPT ![c] = 0]
                                /\ writing' = [writing EXCEPT ![c] = 0]
    BY <1>4, Zenon DEF NewControl
  <2>2. SameIO
    BY <1>4, EntryFootprint, UntouchedIO DEF EntryStep, Entering, NewControl, Goto,
       NoCloseInv, TypeInv, TypeOK
  <2>3. b = c => ReadersIn(b) = {} /\ WritersIn(b) = {}
    BY TargetIsName, ConstantsAssumption DEF FreeBlocks, Linked, ReadersIn, WritersIn,
       InRead, InWrite, Keys
  <2> QED
    BY <1>1, <2>1, <2>2, <2>3, SameIOSets, FS_EmptySet DEF NoCloseInv, TypeInv, TypeOK
<1>5. CASE ~ \E t \in Threads : Enter(t) \/ FinishIO(t) \/ NewControl(t)
  <2>1. SameIO
    BY <1>5, IOCases
  <2>2. UNCHANGED <<reading, writing>>
    BY <1>5, RequestFootprint, OpenFootprint, CloseFootprint, SpuriousFootprint
       DEF Next, Step, EntryStep, Check, Lookup, FindControl, PassWait, FailWait,
           Sleep, Recheck, AccessStep, Lock, NotifyAll, Leave, vars, ctls,
           NoCloseInv, TypeInv
  <2> QED
    BY <1>1, <2>1, <2>2, SameIOSets
<1> QED
  BY <1>2, <1>3, <1>4, <1>5

\* No count is ever lost or left behind: the counters the waits look at are
\* the numbers of threads between the increment and the decrement.
THEOREM CountersAreExact ==
  Closers = {} /\ IsFiniteSet(Threads) => (Spec => []CountersExact)
<1> SUFFICES ASSUME Closers = {}, IsFiniteSet(Threads)
             PROVE  Spec => []CountersExact
  OBVIOUS
<1>1. Init => CountersExact
  <2>1. Init => \A b \in Blocks :
          {t \in Threads : InRead(t) /\ ctl[t] = b} = {}
            /\ {t \in Threads : InWrite(t) /\ ctl[t] = b} = {}
    BY DEF Init, InRead, InWrite
  <2>2. Init => \A b \in Blocks : reading[b] = 0 /\ writing[b] = 0
    BY Zenon DEF Init
  <2>3. Cardinality({}) = 0
    BY FS_EmptySet
  <2> QED
    BY <2>1, <2>2, <2>3, Zenon DEF CountersExact
<1>2. NoCloseInv /\ CountersExact /\ [Next]_vars => CountersExact'
  BY StepCounters
<1> QED
  BY <1>1, <1>2, NoCloseInvariant, PTL DEF Spec

=============================================================================
