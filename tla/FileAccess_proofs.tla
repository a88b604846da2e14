--------------------------- MODULE FileAccess_proofs ---------------------------
(***************************************************************************)
(* Theorems about FileAccess, for any sets of threads, names, descriptors  *)
(* and blocks.                                                             *)
(***************************************************************************)
EXTENDS FileAccess, FiniteSetTheorems, TLAPS

\* Steps at which the command has a file name, or a new descriptor.
Opening == {"open", "create", "push", "nameFd", "fdName"}
Opened  == {"push", "nameFd", "fdName"}

\* Steps from the identifier's check to the end of the system call.
Entering == {"check", "lookup", "control", "wait", "block", "asleep"}
Inside   == {"enter", "io", "notify", "unlock"}

\* Steps of an FCLOSE that has passed its wait.
Closing == {"closing", "search", "erase", "compare", "forget", "unname", "find",
            "unlink", "destroy", "clear", "reset", "close"}

\* What a thread's step says of its command: the part of the program counter
\* that types depend on.
ControlOK ==
  \A t \in Threads :
    /\ pc[t] \in Opening \cup {"sync", "syncFd"} => name[t] \in Names
    /\ pc[t] \in Opened => id[t] \in Fds
    /\ pc[t] \in Opening => op[t] \in Ops
    /\ pc[t] \in Entering \cup Inside \cup {"sync", "syncFd"} => op[t] \in IdOps
    /\ pc[t] = "recheck" => op[t] \in {"FREAD", "FWRITE", "FCLOSE"}
    /\ pc[t] = "lock" => op[t] = "FWRITE"
    /\ pc[t] = "closing" => op[t] = "FCLOSE"

TypeInv == TypeOK /\ ControlOK

\* A sequence without its last element is a sequence over the same set.
LEMMA ButLastType ==
  ASSUME NEW S, NEW s \in Seq(S), s # << >>
  PROVE  SubSeq(s, 1, Len(s) - 1) \in Seq(S)
<1>1. \A i \in 1..(Len(s) - 1) : s[i] \in S
  OBVIOUS
<1>2. Len(s) > 0
  OBVIOUS
<1> QED
  BY <1>1, <1>2

LEMMA InitTypeInv == Init => TypeInv
<1> SUFFICES ASSUME Init PROVE TypeInv
  OBVIOUS
<1>1. /\ 0 \in Int /\ 0 \in Fds \cup {0, -1} /\ NoName \in Keys
      /\ "idle" \in Steps /\ "none" \in Ops \cup {"none"}
  BY DEF Keys, Steps
<1>2. OpenedFiles \in Seq(Fds)
  BY DEF Init
<1>3. TypeOK
  BY <1>1, <1>2, Zenon DEF Init, TypeOK
<1>4. ControlOK
  BY DEF Init, ControlOK, Opening, Opened, Entering, Inside
<1> QED
  BY <1>3, <1>4 DEF TypeInv

LEMMA RequestTypeInv ==
  ASSUME TypeInv, NEW t \in Threads, Request(t)
  PROVE  TypeInv'
<1> USE DEF TypeInv, TypeOK, ControlOK, Keys, Steps, Ops, IdOps, Readers,
            Opening, Opened, Entering, Inside, Goto, tables, ctls, Allowed
<1>1. ASSUME NEW f \in Names, RequestOpen(t, f)
      PROVE  TypeInv'
  BY <1>1 DEF RequestOpen
<1>2. ASSUME NEW o \in IdOps, NEW fd \in given, RequestById(t, o, fd)
      PROVE  TypeInv'
  BY <1>2 DEF RequestById
<1>3. ASSUME NEW o \in IdOps, NEW f \in Names, RequestSync(t, o, f)
      PROVE  TypeInv'
  BY <1>3 DEF RequestSync
<1> QED
  BY <1>1, <1>2, <1>3 DEF Request

LEMMA OpenTypeInv ==
  ASSUME TypeInv, NEW t \in Threads, OpenStep(t)
  PROVE  TypeInv'
<1> USE DEF TypeInv, TypeOK, ControlOK, Keys, Steps, Ops, IdOps, Readers,
            Opening, Opened, Entering, Inside, Goto, Return, tables, ctls, locals
<1>1. CASE SyncLookup(t)
  <2>1. CASE Goto(t, "syncFd") /\ UNCHANGED locals
    BY <1>1, <2>1 DEF SyncLookup
  <2>2. CASE op[t] # "FCLOSE" /\ Goto(t, "open") /\ UNCHANGED locals
    BY <1>1, <2>2 DEF SyncLookup
  <2>3. CASE Return(t)
    BY <1>1, <2>3 DEF SyncLookup
  <2> QED
    BY <1>1, <2>1, <2>2, <2>3 DEF SyncLookup
<1>2. CASE SyncFd(t)
  BY <1>2 DEF SyncFd
<1>3. CASE OpenKnown(t)
  <2>1. /\ pc[t] = "open" /\ NameToFd[name[t]] > 0
        /\ UNCHANGED <<tables, ctls, kernel, crashed>>
    BY <1>3 DEF OpenKnown
  <2>2. NameToFd[name[t]] \in Fds
    <3>1. NameToFd[name[t]] \in Fds \cup {0, -1}
      BY <2>1
    <3> HIDE DEF TypeInv
    <3> QED
      BY <2>1, <3>1
  <2>3. CASE given' = given \cup {NameToFd[name[t]]} /\ Return(t)
    BY <2>1, <2>2, <2>3
  <2>4. CASE op[t] # "FOPEN" /\ given' = given /\ Goto(t, "syncFd") /\ UNCHANGED locals
    BY <2>1, <2>4
  <2> QED
    BY <1>3, <2>3, <2>4, Zenon DEF OpenKnown
<1>4. CASE OpenNew(t)
  BY <1>4 DEF OpenNew
<1>5. CASE Create(t)
  BY <1>5 DEF Create
<1>6. CASE CreateFails(t)
  BY <1>6 DEF CreateFails
<1>7. CASE Push(t)
  BY <1>7 DEF Push
<1>8. CASE NameFd(t)
  BY <1>8 DEF NameFd
<1>9. CASE FdName(t)
  <2>1. /\ pc[t] = "fdName" /\ NameToFd' = [NameToFd EXCEPT ![name[t]] = id[t]]
        /\ UNCHANGED <<OpenedFiles, FdToName, ctls, kernel, crashed>>
    BY <1>9 DEF FdName
  <2>2. id[t] \in Fds
    BY <2>1
  <2>3. CASE given' = given \cup {id[t]} /\ Return(t)
    BY <2>1, <2>2, <2>3
  <2>4. CASE op[t] # "FOPEN" /\ given' = given /\ Goto(t, "syncFd") /\ UNCHANGED locals
    BY <2>1, <2>2, <2>4
  <2> QED
    BY <1>9, <2>3, <2>4, Zenon DEF FdName
<1> QED
  BY <1>1, <1>2, <1>3, <1>4, <1>5, <1>6, <1>7, <1>8, <1>9 DEF OpenStep

LEMMA EntryTypeInv ==
  ASSUME TypeInv, NEW t \in Threads, EntryStep(t)
  PROVE  TypeInv'
<1> USE DEF TypeInv, TypeOK, ControlOK, Keys, Steps, Ops, IdOps, Readers,
            Opening, Opened, Entering, Inside, Goto, Return, tables, ctls, locals
<1>1. CASE Check(t)
  <2>1. pc[t] = "check" /\ UNCHANGED <<tables, ctls, kernel, given, crashed>>
    BY <1>1 DEF Check
  <2>2. CASE Goto(t, "lookup") /\ UNCHANGED locals
    BY <2>1, <2>2
  <2>3. CASE Return(t)
    BY <2>1, <2>3
  <2> QED
    BY <1>1, <2>2, <2>3, Zenon DEF Check
<1>2. CASE Lookup(t)
  <2>1. NameOf(id[t]) \in Keys
    BY DEF NameOf
  <2> QED
    BY <1>2, <2>1 DEF Lookup
<1>3. CASE FindControl(t)
  BY <1>3 DEF FindControl
<1>4. CASE NewControl(t)
  <2>1. bIsClosing' \in [Blocks -> BOOLEAN]
    BY <1>4, Zenon DEF NewControl
  <2>2. PICK b \in FreeBlocks :
          /\ FILE_ACCESS' = [FILE_ACCESS EXCEPT ![name[t]] = b]
          /\ reading'     = [reading    EXCEPT ![b] = 0]
          /\ writing'     = [writing    EXCEPT ![b] = 0]
          /\ writeLock'   = [writeLock  EXCEPT ![b] = Nil]
          /\ ctl'         = [ctl EXCEPT ![t] = b]
    BY <1>4, Zenon DEF NewControl
  <2>3. /\ pc' = [pc EXCEPT ![t] = "wait"]
        /\ pc[t] = "control"
        /\ UNCHANGED <<tables, freed, kernel, given, crashed, op, id, name, index>>
    BY <1>4, Zenon DEF NewControl, Goto
  <2>4. b \in Blocks
    BY DEF FreeBlocks
  <2> QED
    BY <2>1, <2>2, <2>3, <2>4
<1>5. CASE PassWait(t)
  <2>1. /\ AfterWait(op[t]) \in {"enter", "recheck", "closing"}
        /\ AfterWait(op[t]) = "recheck" => op[t] \in {"FREAD", "FWRITE"}
        /\ AfterWait(op[t]) = "closing" => op[t] = "FCLOSE"
    BY <1>5 DEF PassWait, AfterWait
  <2> QED
    BY <1>5, <2>1 DEF PassWait
<1>6. CASE FailWait(t)
  BY <1>6 DEF FailWait
<1>7. CASE Sleep(t)
  BY <1>7 DEF Sleep
<1>8. CASE Recheck(t)
  <2>1. /\ pc[t] = "recheck" /\ UNCHANGED <<tables, ctls, kernel, given, crashed>>
        /\ op[t] \in {"FREAD", "FWRITE", "FCLOSE"}
    BY <1>8 DEF Recheck
  <2>2. /\ AfterRecheck(op[t]) \in {"enter", "lock", "search"}
        /\ AfterRecheck(op[t]) = "lock" => op[t] = "FWRITE"
    BY <2>1 DEF AfterRecheck
  <2>3. CASE Goto(t, AfterRecheck(op[t])) /\ UNCHANGED locals
    BY <2>1, <2>2, <2>3
  <2>4. CASE Return(t)
    BY <2>1, <2>4
  <2> QED
    BY <1>8, <2>3, <2>4, Zenon DEF Recheck
<1> QED
  BY <1>1, <1>2, <1>3, <1>4, <1>5, <1>6, <1>7, <1>8 DEF EntryStep

LEMMA AccessTypeInv ==
  ASSUME TypeInv, NEW t \in Threads, AccessStep(t)
  PROVE  TypeInv'
<1> USE DEF TypeInv, TypeOK, ControlOK, Keys, Steps, Ops, IdOps, Readers,
            Opening, Opened, Entering, Inside, Goto, Return, tables, ctls, locals
<1>1. CASE Lock(t)
  BY <1>1 DEF Lock
<1>2. CASE Enter(t)
  BY <1>2 DEF Enter
<1>3. CASE FinishIO(t)
  BY <1>3 DEF FinishIO
<1>4. CASE NotifyAll(t)
  BY <1>4 DEF NotifyAll, Woken, Sleepers
<1>5. CASE Leave(t)
  BY <1>5 DEF Leave
<1> QED
  BY <1>1, <1>2, <1>3, <1>4, <1>5 DEF AccessStep

LEMMA CloseTypeInv ==
  ASSUME TypeInv, NEW t \in Threads, CloseStep(t)
  PROVE  TypeInv'
<1> USE DEF TypeInv, TypeOK, ControlOK, Keys, Steps, Ops, IdOps, Readers,
            Opening, Opened, Entering, Inside, Goto, Return, tables, ctls, locals
<1>1. CASE SetClosing(t)
  <2>1. bIsClosing' \in [Blocks -> BOOLEAN]
    BY <1>1, Zenon DEF SetClosing
  <2>2. /\ pc[t] = "closing" /\ pc' = [pc EXCEPT ![t] = "recheck"]
        /\ UNCHANGED <<tables, FILE_ACCESS, reading, writing, writeLock, freed,
                       kernel, given, crashed, locals>>
    BY <1>1, Zenon DEF SetClosing, Goto
  <2> QED
    BY <2>1, <2>2
<1>2. CASE FindIndex(t)
  <2>1. PICK i \in 1..(Len(OpenedFiles) + 1) : index' = [index EXCEPT ![t] = i]
    BY <1>2, Zenon DEF FindIndex
  <2>2. i \in Nat
    BY <2>1
  <2>3. index' \in [Threads -> Nat]
    BY <2>1, <2>2
  <2>4. /\ pc[t] = "search" /\ pc' = [pc EXCEPT ![t] = "erase"]
        /\ UNCHANGED <<tables, ctls, kernel, given, crashed, op, id, name, ctl>>
    BY <1>2, Zenon DEF FindIndex, Goto
  <2> QED
    BY <2>3, <2>4
<1>3. CASE EraseOpened(t)
  BY <1>3 DEF EraseOpened
<1>4. CASE EraseBeyondEnd(t)
  <2>1. crashed' \in BOOLEAN
    BY <1>4, Zenon DEF EraseBeyondEnd
  <2>2. OpenedFiles' \in Seq(Fds)
    <3>1. CASE UNCHANGED OpenedFiles
      BY <3>1
    <3>2. CASE OpenedFiles # << >>
               /\ OpenedFiles' = SubSeq(OpenedFiles, 1, Len(OpenedFiles) - 1)
      BY <3>2, ButLastType
    <3> QED
      BY <1>4, <3>1, <3>2, Zenon DEF EraseBeyondEnd
  <2>3. /\ pc[t] = "erase" /\ pc' = [pc EXCEPT ![t] = "compare"]
        /\ UNCHANGED <<FdToName, NameToFd, ctls, kernel, given, locals>>
    BY <1>4, Zenon DEF EraseBeyondEnd, Goto
  <2> QED
    BY <2>1, <2>2, <2>3
<1>5. CASE CompareName(t)
  BY <1>5 DEF CompareName
<1>6. CASE ForgetName(t)
  BY <1>6 DEF ForgetName
<1>7. CASE UnnameFd(t)
  BY <1>7 DEF UnnameFd
<1>8. CASE FindNode(t)
  BY <1>8 DEF FindNode
<1>9. CASE Unlink(t)
  BY <1>9 DEF Unlink
<1>10. CASE Destroy(t)
  BY <1>10 DEF Destroy
<1>11. CASE Clear(t)
  BY <1>11 DEF Clear, Linked
<1>12. CASE Reset(t)
  BY <1>12 DEF Reset
<1>13. CASE EraseAgain(t)
  <2>1. crashed' \in BOOLEAN
    BY <1>13, Zenon DEF EraseAgain
  <2>2. /\ pc[t] \in {"unlink", "clear"}
        /\ UNCHANGED <<tables, ctls, kernel, given, locals>>
    BY <1>13 DEF EraseAgain
  <2>3. CASE pc' = [pc EXCEPT ![t] = "reset"]
    BY <2>1, <2>2, <2>3
  <2>4. CASE pc' = [pc EXCEPT ![t] = "close"]
    BY <2>1, <2>2, <2>4
  <2> QED
    BY <1>13, <2>3, <2>4, Zenon DEF EraseAgain
<1>14. CASE CloseFd(t)
  BY <1>14 DEF CloseFd
<1> QED
  BY <1>1, <1>2, <1>3, <1>4, <1>5, <1>6, <1>7, <1>8, <1>9, <1>10, <1>11, <1>12,
     <1>13, <1>14 DEF CloseStep

\* A step of t leaves the steps and the locals of the other threads alone.
Untouched(t) ==
  \A u \in Threads \ {t} : /\ pc'[u] = pc[u] /\ op'[u] = op[u] /\ id'[u] = id[u]
                           /\ name'[u] = name[u] /\ ctl'[u] = ctl[u]
                           /\ index'[u] = index[u]

LEMMA LocalsUntouched ==
  ASSUME TypeOK, NEW t \in Threads, UNCHANGED locals,
         NEW s, pc' = [pc EXCEPT ![t] = s]
  PROVE  Untouched(t) /\ pc'[t] = s
BY DEF TypeOK, locals, Untouched

LEMMA ReturnFootprint ==
  ASSUME TypeOK, NEW t \in Threads, Return(t)
  PROVE  Untouched(t) /\ pc'[t] = "idle"
BY DEF TypeOK, Return, Goto, Untouched

LEMMA RequestFootprint ==
  ASSUME TypeOK, NEW t \in Threads, Request(t)
  PROVE  /\ Untouched(t) /\ pc[t] = "idle"
         /\ pc'[t] \in {"open", "sync", "check", "lookup"}
         /\ UNCHANGED <<tables, ctls, kernel, given>>
<1>1. ASSUME NEW f \in Names, RequestOpen(t, f)
      PROVE  /\ Untouched(t) /\ pc[t] = "idle" /\ pc'[t] = "open"
             /\ UNCHANGED <<tables, ctls, kernel, given>>
  BY <1>1 DEF TypeOK, RequestOpen, Goto, Untouched
<1>2. ASSUME NEW o \in IdOps, NEW fd \in given, RequestById(t, o, fd)
      PROVE  /\ Untouched(t) /\ pc[t] = "idle" /\ pc'[t] \in {"check", "lookup"}
             /\ UNCHANGED <<tables, ctls, kernel, given>>
  BY <1>2 DEF TypeOK, RequestById, Goto, Untouched
<1>3. ASSUME NEW o \in IdOps, NEW f \in Names, RequestSync(t, o, f)
      PROVE  /\ Untouched(t) /\ pc[t] = "idle" /\ pc'[t] = "sync"
             /\ UNCHANGED <<tables, ctls, kernel, given>>
  BY <1>3 DEF TypeOK, RequestSync, Goto, Untouched
<1> QED
  BY <1>1, <1>2, <1>3 DEF Request

LEMMA OpenFootprint ==
  ASSUME TypeOK, NEW t \in Threads, OpenStep(t)
  PROVE  /\ Untouched(t) /\ pc[t] \in Opening \cup {"sync", "syncFd"}
         /\ pc'[t] \in Opening \cup {"syncFd", "lookup", "check", "idle"}
         /\ UNCHANGED ctls
<1> USE DEF Goto, Opening
<1>1. CASE SyncLookup(t)
  BY <1>1, LocalsUntouched, ReturnFootprint DEF TypeOK, Untouched, SyncLookup, locals
<1>2. CASE SyncFd(t)
  BY <1>2, LocalsUntouched, ReturnFootprint DEF TypeOK, Untouched, SyncFd, locals
<1>3. CASE OpenKnown(t)
  BY <1>3, LocalsUntouched, ReturnFootprint DEF TypeOK, Untouched, OpenKnown, locals
<1>4. CASE OpenNew(t)
  BY <1>4, LocalsUntouched, ReturnFootprint DEF TypeOK, Untouched, OpenNew, locals
<1>5. CASE Create(t)
  BY <1>5, LocalsUntouched, ReturnFootprint DEF TypeOK, Untouched, Create, locals
<1>6. CASE CreateFails(t)
  BY <1>6, LocalsUntouched, ReturnFootprint DEF TypeOK, Untouched, CreateFails, locals
<1>7. CASE Push(t)
  BY <1>7, LocalsUntouched, ReturnFootprint DEF TypeOK, Untouched, Push, locals
<1>8. CASE NameFd(t)
  BY <1>8, LocalsUntouched, ReturnFootprint DEF TypeOK, Untouched, NameFd, locals
<1>9. CASE FdName(t)
  BY <1>9, LocalsUntouched, ReturnFootprint DEF TypeOK, Untouched, FdName, locals
<1> QED
  BY <1>1, <1>2, <1>3, <1>4, <1>5, <1>6, <1>7, <1>8, <1>9 DEF OpenStep

LEMMA EntryFootprint ==
  ASSUME TypeOK, NEW t \in Threads, EntryStep(t)
  PROVE  /\ Untouched(t) /\ pc[t] \in Entering \cup {"recheck"}
         /\ UNCHANGED <<tables, kernel, given>>
<1> USE DEF Goto, Entering
<1>1. CASE Check(t)
  BY <1>1, LocalsUntouched, ReturnFootprint DEF TypeOK, Untouched, Check, locals
<1>2. CASE Lookup(t)
  BY <1>2, LocalsUntouched, ReturnFootprint DEF TypeOK, Untouched, Lookup, locals
<1>3. CASE FindControl(t)
  BY <1>3, LocalsUntouched, ReturnFootprint DEF TypeOK, Untouched, FindControl, locals
<1>4. CASE NewControl(t)
  BY <1>4, LocalsUntouched, ReturnFootprint DEF TypeOK, Untouched, NewControl, locals
<1>5. CASE PassWait(t)
  BY <1>5, LocalsUntouched, ReturnFootprint DEF TypeOK, Untouched, PassWait, locals
<1>6. CASE FailWait(t)
  BY <1>6, LocalsUntouched, ReturnFootprint DEF TypeOK, Untouched, FailWait, locals
<1>7. CASE Sleep(t)
  BY <1>7, LocalsUntouched, ReturnFootprint DEF TypeOK, Untouched, Sleep, locals
<1>8. CASE Recheck(t)
  BY <1>8, LocalsUntouched, ReturnFootprint DEF TypeOK, Untouched, Recheck, locals
<1> QED
  BY <1>1, <1>2, <1>3, <1>4, <1>5, <1>6, <1>7, <1>8 DEF EntryStep

LEMMA CloseFootprint ==
  ASSUME TypeOK, NEW t \in Threads, CloseStep(t)
  PROVE  /\ Untouched(t) /\ UNCHANGED <<reading, writing, writeLock, given>>
         /\ pc[t] \in Closing
<1> USE DEF Goto, ctls, Closing
<1>1. CASE SetClosing(t)
  BY <1>1, LocalsUntouched, ReturnFootprint DEF TypeOK, Untouched, SetClosing, locals
<1>2. CASE FindIndex(t)
  BY <1>2, LocalsUntouched, ReturnFootprint DEF TypeOK, Untouched, FindIndex, locals
<1>3. CASE EraseOpened(t)
  BY <1>3, LocalsUntouched, ReturnFootprint DEF TypeOK, Untouched, EraseOpened, locals
<1>4. CASE EraseBeyondEnd(t)
  BY <1>4, LocalsUntouched, ReturnFootprint DEF TypeOK, Untouched, EraseBeyondEnd, locals
<1>5. CASE CompareName(t)
  BY <1>5, LocalsUntouched, ReturnFootprint DEF TypeOK, Untouched, CompareName, locals
<1>6. CASE ForgetName(t)
  BY <1>6, LocalsUntouched, ReturnFootprint DEF TypeOK, Untouched, ForgetName, locals
<1>7. CASE UnnameFd(t)
  BY <1>7, LocalsUntouched, ReturnFootprint DEF TypeOK, Untouched, UnnameFd, locals
<1>8. CASE FindNode(t)
  BY <1>8, LocalsUntouched, ReturnFootprint DEF TypeOK, Untouched, FindNode, locals
<1>9. CASE Unlink(t)
  BY <1>9, LocalsUntouched, ReturnFootprint DEF TypeOK, Untouched, Unlink, locals
<1>10. CASE Destroy(t)
  BY <1>10, LocalsUntouched, ReturnFootprint DEF TypeOK, Untouched, Destroy, locals
<1>11. CASE Clear(t)
  BY <1>11, LocalsUntouched, ReturnFootprint DEF TypeOK, Untouched, Clear, locals
<1>12. CASE Reset(t)
  BY <1>12, LocalsUntouched, ReturnFootprint DEF TypeOK, Untouched, Reset, locals
<1>13. CASE EraseAgain(t)
  BY <1>13, LocalsUntouched, ReturnFootprint DEF TypeOK, Untouched, EraseAgain, locals
<1>14. CASE CloseFd(t)
  BY <1>14, LocalsUntouched, ReturnFootprint DEF TypeOK, Untouched, CloseFd, locals
<1> QED
  BY <1>1, <1>2, <1>3, <1>4, <1>5, <1>6, <1>7, <1>8, <1>9, <1>10, <1>11, <1>12,
     <1>13, <1>14 DEF CloseStep

LEMMA AccessFootprint ==
  ASSUME TypeOK, NEW t \in Threads, AccessStep(t)
  PROVE  /\ (pc[t] # "notify" => Untouched(t))
         /\ pc[t] \in Inside \cup {"lock"}
         /\ UNCHANGED <<tables, FILE_ACCESS, kernel, given>>
<1> USE DEF Goto, Inside, ctls
<1>1. CASE Lock(t)
  BY <1>1, LocalsUntouched, ReturnFootprint DEF TypeOK, Untouched, Lock, locals
<1>2. CASE Enter(t)
  BY <1>2, LocalsUntouched, ReturnFootprint DEF TypeOK, Untouched, Enter, locals
<1>3. CASE FinishIO(t)
  BY <1>3, LocalsUntouched, ReturnFootprint DEF TypeOK, Untouched, FinishIO, locals
<1>4. CASE NotifyAll(t)
  BY <1>4, LocalsUntouched, ReturnFootprint DEF TypeOK, Untouched, NotifyAll, locals
<1>5. CASE Leave(t)
  BY <1>5, LocalsUntouched, ReturnFootprint DEF TypeOK, Untouched, Leave, locals
<1> QED
  BY <1>1, <1>2, <1>3, <1>4, <1>5 DEF AccessStep

LEMMA SpuriousFootprint ==
  ASSUME TypeOK, NEW t \in Threads, SpuriousWakeup(t)
  PROVE  /\ Untouched(t) /\ pc[t] = "asleep" /\ pc'[t] = "wait"
         /\ UNCHANGED <<tables, ctls, kernel, given, locals>>
BY DEF TypeOK, SpuriousWakeup, Goto, Untouched, locals

LEMMA StepTypeInv == TypeInv /\ [Next]_vars => TypeInv'
<1> SUFFICES ASSUME TypeInv, [Next]_vars PROVE TypeInv'
  OBVIOUS
<1>1. CASE UNCHANGED vars
  <2>1. UNCHANGED <<OpenedFiles, FdToName, NameToFd, FILE_ACCESS, reading,
                    writing, bIsClosing, writeLock, freed, kernel, given, crashed,
                    pc, op, id, name, ctl, index>>
    BY <1>1, Zenon DEF vars, tables, ctls, locals
  <2>2. TypeOK'
    BY <2>1, Zenon DEF TypeInv, TypeOK
  <2>3. ControlOK'
    BY <2>1, Zenon DEF TypeInv, ControlOK
  <2> QED
    BY <2>2, <2>3 DEF TypeInv
<1>2. ASSUME NEW t \in Threads, SpuriousWakeup(t)
      PROVE  TypeInv'
  BY <1>2 DEF SpuriousWakeup, Goto, TypeInv, TypeOK, ControlOK, Steps, Opening,
              Opened, Entering, Inside, tables, ctls, locals
<1>3. ASSUME NEW t \in Threads, Step(t)
      PROVE  TypeInv'
  BY <1>3, OpenTypeInv, EntryTypeInv, AccessTypeInv, CloseTypeInv DEF Step
<1> QED
  BY <1>1, <1>2, <1>3, RequestTypeInv DEF Next

LEMMA TypeInvariant == Spec => []TypeInv
BY InitTypeInv, StepTypeInv, PTL DEF Spec

\* The variables keep their types, whatever the threads' clients send.
THEOREM TypeCorrect == Spec => []TypeOK
<1>1. TypeInv => TypeOK
  BY DEF TypeInv
<1> QED
  BY <1>1, TypeInvariant, PTL

-----------------------------------------------------------------------------
(* The write lock.                                                         *)

LEMMA LockFrame ==
  ASSUME TypeOK, LockNotLeaked, NEW t \in Threads, Untouched(t),
         pc[t] \notin Inside, UNCHANGED writeLock
  PROVE  LockNotLeaked'
<1> SUFFICES ASSUME NEW b \in Blocks, writeLock'[b] # Nil
             PROVE  LET u == writeLock'[b] IN
                      op'[u] = "FWRITE" /\ ctl'[u] = b /\ pc'[u] \in Inside
  BY DEF LockNotLeaked, Inside
<1>1. /\ writeLock[b] \in Threads \ {t} /\ op[writeLock[b]] = "FWRITE"
      /\ ctl[writeLock[b]] = b /\ pc[writeLock[b]] \in Inside
  BY DEF TypeOK, LockNotLeaked, Inside
<1> QED
  BY <1>1 DEF Untouched

LEMMA StepLock == TypeInv /\ LockNotLeaked /\ [Next]_vars => LockNotLeaked'
<1> SUFFICES ASSUME TypeInv, LockNotLeaked, [Next]_vars PROVE LockNotLeaked'
  OBVIOUS
<1> USE ConstantsAssumption DEF TypeInv
<1>1. CASE UNCHANGED vars
  BY <1>1 DEF vars, ctls, locals, LockNotLeaked
<1>2. ASSUME NEW t \in Threads, Request(t)
      PROVE  LockNotLeaked'
  BY <1>2, RequestFootprint, LockFrame DEF ctls, Inside
<1>3. ASSUME NEW t \in Threads, OpenStep(t)
      PROVE  LockNotLeaked'
  BY <1>3, OpenFootprint, LockFrame DEF ctls, Inside, Opening
<1>4. ASSUME NEW t \in Threads, EntryStep(t)
      PROVE  LockNotLeaked'
  <2>1. Untouched(t) /\ pc[t] \notin Inside
    BY <1>4, EntryFootprint DEF Inside, Entering
  <2>2. CASE NewControl(t)
    <3>1. PICK b \in FreeBlocks : writeLock' = [writeLock EXCEPT ![b] = Nil]
      BY <2>2, Zenon DEF NewControl
    <3> SUFFICES ASSUME NEW c \in Blocks, writeLock'[c] # Nil
                 PROVE  LET u == writeLock'[c] IN
                          op'[u] = "FWRITE" /\ ctl'[u] = c /\ pc'[u] \in Inside
      BY DEF LockNotLeaked, Inside
    <3>2. writeLock'[c] = writeLock[c]
      BY <3>1 DEF TypeOK
    <3>3. /\ writeLock[c] \in Threads \ {t} /\ op[writeLock[c]] = "FWRITE"
          /\ ctl[writeLock[c]] = c /\ pc[writeLock[c]] \in Inside
      BY <2>1, <3>2 DEF TypeOK, LockNotLeaked, Inside
    <3> QED
      BY <2>1, <3>2, <3>3 DEF Untouched
  <2>3. CASE ~NewControl(t)
    <3>1. UNCHANGED writeLock
      BY <1>4, <2>3 DEF EntryStep, Check, Lookup, FindControl, PassWait, FailWait,
                        Sleep, Recheck, ctls
    <3> QED
      BY <2>1, <3>1, LockFrame
  <2> QED
    BY <2>2, <2>3
<1>5. ASSUME NEW t \in Threads, AccessStep(t)
      PROVE  LockNotLeaked'
  <2>1. CASE Lock(t)
    BY <2>1 DEF Lock, Goto, TypeOK, ControlOK, LockNotLeaked, locals
  <2>2. CASE Enter(t)
    BY <2>2 DEF Enter, Goto, TypeOK, LockNotLeaked, locals
  <2>3. CASE FinishIO(t)
    BY <2>3 DEF FinishIO, Goto, TypeOK, LockNotLeaked, locals
  <2>4. CASE NotifyAll(t)
    BY <2>4 DEF NotifyAll, Woken, Sleepers, TypeOK, LockNotLeaked, ctls, locals
  <2>5. CASE Leave(t)
    BY <2>5 DEF Leave, Return, Goto, TypeOK, LockNotLeaked
  <2> QED
    BY <1>5, <2>1, <2>2, <2>3, <2>4, <2>5 DEF AccessStep
<1>6. ASSUME NEW t \in Threads, CloseStep(t)
      PROVE  LockNotLeaked'
  BY <1>6, CloseFootprint, LockFrame DEF Inside, Closing
<1>7. ASSUME NEW t \in Threads, SpuriousWakeup(t)
      PROVE  LockNotLeaked'
  BY <1>7, SpuriousFootprint, LockFrame DEF ctls, Inside
<1> QED
  BY <1>1, <1>2, <1>3, <1>4, <1>5, <1>6, <1>7 DEF Next, Step

\* However FCLOSE destroys and reuses blocks, the write lock of a block is
\* owned only by an FWRITE between its lock_guard and its return.
THEOREM LockSafe == Spec => []LockNotLeaked
<1>1. Init => LockNotLeaked
  BY DEF Init, LockNotLeaked
<1> QED
  BY <1>1, TypeInvariant, StepLock, PTL DEF Spec

=============================================================================
