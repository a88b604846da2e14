---------------------------- MODULE FileSole_proofs ----------------------------
(***************************************************************************)
(* Theorems about the file server while no two FCLOSEs overlap, whatever   *)
(* else the clients of any number of threads do.                           *)
(***************************************************************************)
EXTENDS FileAccess_proofs, MCFileClose

OneCloser == \A t, u \in Threads : op[t] = "FCLOSE" /\ op[u] = "FCLOSE" => t = u

\* Steps only an FCLOSE is at: Committed; those at which its descriptor has
\* left OpenedFiles but is still open: Erased.
Erased    == {"compare", "forget", "unname", "find", "unlink", "destroy", "clear",
              "reset", "close"}
Committed == Erased \cup {"closing", "search", "erase"}

\* Steps at which an FCLOSE has found its descriptor and not removed it yet;
\* at which it holds the block of its file; at which it has set bIsClosing.
Checked == {"lookup", "control", "wait", "block", "asleep", "closing",
            "recheck", "search", "erase"}
Guarded == {"wait", "block", "asleep", "closing", "recheck", "search", "erase",
            "compare", "forget", "unname", "find", "unlink", "clear"}
Marking == {"recheck", "search", "erase", "compare", "forget", "unname", "find",
            "unlink", "clear", "reset"}

\* The index an FCLOSE has found is still that of its descriptor.
IndexOK(t) == index[t] \in DOMAIN OpenedFiles /\ OpenedFiles[index[t]] = id[t]

\* What the only FCLOSE under way can rely on: its descriptor stays
\* registered, and its block stays that of its file, until it removes them.
Closer(t) ==
  /\ pc[t] \in Committed => op[t] = "FCLOSE"
  /\ op[t] = "FCLOSE" /\ pc[t] \in Checked => FDChcker(id[t])
  /\ op[t] = "FCLOSE" /\ pc[t] \in Guarded =>
       ctl[t] # Nil /\ ctl[t] = FILE_ACCESS[name[t]]
  /\ op[t] = "FCLOSE" /\ pc[t] = "erase" => IndexOK(t)

\* A descriptor that FOPEN is about to register is open and not registered,
\* one that FCLOSE is about to close is open and not registered either.
TableInv ==
  /\ TableSound
  /\ \A t \in Threads : pc[t] = "push" => kernel[id[t]] # Nil /\ ~FDChcker(id[t])
  /\ \A t, u \in Threads : pc[t] = "push" /\ pc[u] = "push" /\ id[t] = id[u] => t = u
  /\ \A t \in Threads : pc[t] \in Erased =>
       /\ id[t] \in Fds /\ kernel[id[t]] # Nil /\ ~FDChcker(id[t])
       /\ \A u \in Threads : pc[u] = "push" => id[u] # id[t]

\* A block is destroyed while a name leads to it only by an FCLOSE that is
\* about to empty the map.
FreedInv == freed # {} => \E t \in Threads : pc[t] = "reset"

SoleOK ==
  /\ TableInv
  /\ \A t \in Threads : Closer(t)
  /\ NoPoisonedFile
  /\ FreedInv
  /\ ~crashed

\* No two keys share a block, however many FCLOSEs overlap.
Apart ==
  \A m, n \in Keys : FILE_ACCESS[m] = FILE_ACCESS[n] /\ FILE_ACCESS[m] # Nil => m = n

SoleInv == TypeInv /\ Apart /\ (sole => OneCloser /\ SoleOK)

-----------------------------------------------------------------------------
(* The blocks of two files.                                                *)

LEMMA StepApart == TypeInv /\ Apart /\ [Next]_vars => Apart'
<1> SUFFICES ASSUME TypeInv, Apart, [Next]_vars PROVE Apart'
  OBVIOUS
<1> USE DEF TypeInv
<1>1. CASE UNCHANGED FILE_ACCESS
  BY <1>1 DEF Apart
<1>2. ASSUME NEW t \in Threads, NewControl(t)
      PROVE  Apart'
  <2>1. PICK b \in FreeBlocks : FILE_ACCESS' = [FILE_ACCESS EXCEPT ![name[t]] = b]
    BY <1>2, Zenon DEF NewControl
  <2>2. \A n \in Keys : FILE_ACCESS[n] # b
    BY ConstantsAssumption DEF FreeBlocks, Linked
  <2>3. \A n \in Keys : FILE_ACCESS'[n] = IF n = name[t] THEN b ELSE FILE_ACCESS[n]
    BY <2>1 DEF TypeOK
  <2> QED
    BY <2>2, <2>3 DEF Apart
<1>3. ASSUME NEW t \in Threads, Unlink(t)
      PROVE  Apart'
  BY <1>3 DEF Unlink, Apart
<1>4. ASSUME NEW t \in Threads, Reset(t)
      PROVE  Apart'
  BY <1>4 DEF Reset, Apart
<1>5. CASE \E t \in Threads :
             Step(t) /\ ~NewControl(t) /\ ~Unlink(t) /\ ~Reset(t)
  <2>1. PICK t \in Threads : Step(t) /\ ~NewControl(t) /\ ~Unlink(t) /\ ~Reset(t)
    BY <1>5
  <2>2. CASE OpenStep(t)
    BY <1>1, <2>2, OpenFootprint DEF ctls
  <2>3. CASE EntryStep(t)
    <3>1. UNCHANGED FILE_ACCESS
      BY <2>1, <2>3 DEF EntryStep, Check, Lookup, FindControl, PassWait, FailWait,
                        Sleep, Recheck, ctls
    <3> QED
      BY <1>1, <3>1
  <2>4. CASE AccessStep(t)
    BY <1>1, <2>4, AccessFootprint
  <2>5. CASE CloseStep(t)
    <3>1. UNCHANGED FILE_ACCESS
      BY <2>1, <2>5 DEF CloseStep, SetClosing, FindIndex, EraseOpened, EraseBeyondEnd,
           CompareName, ForgetName, UnnameFd, FindNode, Destroy, Clear, EraseAgain,
           CloseFd, ctls
    <3> QED
      BY <1>1, <3>1
  <2> QED
    BY <2>1, <2>2, <2>3, <2>4, <2>5 DEF Step
<1>6. ASSUME NEW t \in Threads, Request(t) \/ SpuriousWakeup(t)
      PROVE  Apart'
  BY <1>1, <1>6, RequestFootprint, SpuriousFootprint DEF ctls
<1>7. CASE UNCHANGED vars
  BY <1>1, <1>7 DEF vars, ctls
<1> QED
  BY <1>2, <1>3, <1>4, <1>5, <1>6, <1>7 DEF Next

-----------------------------------------------------------------------------
(* Steps that leave the registries, the blocks and the kernel alone.       *)

LEMMA FreedFrame ==
  ASSUME FreedInv, UNCHANGED freed,
         \A u \in Threads : pc[u] = "reset" => pc'[u] = "reset"
  PROVE  FreedInv'
BY DEF FreedInv

LEMMA SoleFrame ==
  ASSUME SoleOK,
         UNCHANGED <<OpenedFiles, kernel, FILE_ACCESS, bIsClosing, freed, crashed>>,
         \A u \in Threads :
           /\ pc[u] = "reset" => pc'[u] = "reset"
           /\ pc'[u] = "push" => pc[u] = "push" /\ id'[u] = id[u]
           /\ pc'[u] \in Erased => pc[u] \in Erased /\ id'[u] = id[u]
           /\ op[u] = "FCLOSE" /\ pc[u] \in Marking =>
                op'[u] = "FCLOSE" /\ name'[u] = name[u] /\ pc'[u] \in Marking
           /\ Closer(u)'
  PROVE  SoleOK'
<1>1. TableSound'
  BY DEF SoleOK, TableInv, TableSound
<1>2. ASSUME NEW u, id'[u] = id[u]
      PROVE  FDChcker(id[u])' <=> FDChcker(id[u])
  BY <1>2 DEF FDChcker
<1>3. TableInv'
  <2>1. \A u \in Threads : pc'[u] = "push" => kernel'[id'[u]] # Nil /\ ~FDChcker(id[u])
    BY DEF SoleOK, TableInv
  <2>2. \A u \in Threads : pc'[u] = "push" => ~FDChcker(id[u])'
    BY <1>2 DEF SoleOK, TableInv
  <2>3. \A u, v \in Threads :
          pc'[u] = "push" /\ pc'[v] = "push" /\ id'[u] = id'[v] => u = v
    BY DEF SoleOK, TableInv
  <2>4. \A u \in Threads : pc'[u] \in Erased =>
          /\ id'[u] \in Fds /\ kernel'[id'[u]] # Nil /\ ~FDChcker(id[u])
          /\ \A v \in Threads : pc'[v] = "push" => id'[v] # id'[u]
    BY DEF SoleOK, TableInv
  <2>5. \A u \in Threads : pc'[u] \in Erased => ~FDChcker(id[u])'
    BY <1>2 DEF SoleOK, TableInv
  <2> QED
    BY <1>1, <2>1, <2>2, <2>3, <2>4, <2>5 DEF TableInv, FDChcker
<1>4. NoPoisonedFile'
  <2> SUFFICES ASSUME NEW n \in Keys, FILE_ACCESS'[n] # Nil, bIsClosing'[FILE_ACCESS'[n]]
               PROVE  \E u \in Threads : op'[u] = "FCLOSE" /\ name'[u] = n
                                           /\ pc'[u] \in Marking
    BY DEF NoPoisonedFile, Marking
  <2>1. PICK u \in Threads : op[u] = "FCLOSE" /\ name[u] = n /\ pc[u] \in Marking
    BY DEF SoleOK, NoPoisonedFile, Marking
  <2> QED
    BY <2>1
<1>5. FreedInv'
  BY FreedFrame DEF SoleOK
<1> QED
  BY <1>1, <1>3, <1>4, <1>5 DEF SoleOK

\* A thread that a step leaves where it was keeps what it relies on, as long
\* as its descriptor stays registered and its file keeps its block.
LEMMA CloserKept ==
  ASSUME NEW u, Closer(u), pc'[u] = pc[u], op'[u] = op[u], id'[u] = id[u],
         name'[u] = name[u], ctl'[u] = ctl[u], index'[u] = index[u],
         op[u] = "FCLOSE" =>
           /\ FDChcker(id[u]) => FDChcker(id[u])'
           /\ IndexOK(u) => IndexOK(u)'
           /\ FILE_ACCESS[name[u]] # Nil => FILE_ACCESS'[name[u]] = FILE_ACCESS[name[u]]
  PROVE  Closer(u)'
<1>1. pc'[u] \in Committed => op'[u] = "FCLOSE"
  BY DEF Closer
<1>2. ASSUME op'[u] = "FCLOSE", pc'[u] \in Checked
      PROVE  FDChcker(id[u])'
  BY <1>2 DEF Closer
<1>3. op'[u] = "FCLOSE" /\ pc'[u] \in Guarded =>
        ctl'[u] # Nil /\ ctl'[u] = FILE_ACCESS'[name'[u]]
  BY DEF Closer
<1>4. op'[u] = "FCLOSE" /\ pc'[u] = "erase" => IndexOK(u)'
  BY DEF Closer
<1> QED
  BY <1>1, <1>2, <1>3, <1>4 DEF Closer

\* The steps of t that change no more than its locals.
LEMMA LocalFrame ==
  ASSUME SoleOK, NEW t \in Threads, Untouched(t),
         UNCHANGED <<OpenedFiles, kernel, FILE_ACCESS, bIsClosing, freed, crashed>>,
         pc[t] # "reset", pc'[t] # "push",
         pc'[t] \in Erased => pc[t] \in Erased /\ id'[t] = id[t],
         op[t] = "FCLOSE" /\ pc[t] \in Marking =>
           op'[t] = "FCLOSE" /\ name'[t] = name[t] /\ pc'[t] \in Marking,
         Closer(t)'
  PROVE  SoleOK'
<1>1. ASSUME NEW u \in Threads \ {t}
      PROVE  Closer(u)'
  <2>1. /\ Closer(u) /\ pc'[u] = pc[u] /\ op'[u] = op[u] /\ id'[u] = id[u]
        /\ name'[u] = name[u] /\ ctl'[u] = ctl[u] /\ index'[u] = index[u]
    BY DEF SoleOK, Untouched
  <2>2. /\ FDChcker(id[u]) => FDChcker(id[u])'
        /\ IndexOK(u) => IndexOK(u)'
    BY <2>1 DEF FDChcker, IndexOK
  <2> QED
    BY <2>1, <2>2, CloserKept
<1>2. \A u \in Threads :
        /\ pc[u] = "reset" => pc'[u] = "reset"
        /\ pc'[u] = "push" => pc[u] = "push" /\ id'[u] = id[u]
        /\ pc'[u] \in Erased => pc[u] \in Erased /\ id'[u] = id[u]
        /\ op[u] = "FCLOSE" /\ pc[u] \in Marking =>
             op'[u] = "FCLOSE" /\ name'[u] = name[u] /\ pc'[u] \in Marking
        /\ Closer(u)'
  BY <1>1 DEF Untouched
<1> QED
  BY <1>2, SoleFrame

\* At these steps a thread relies on nothing.
LEMMA CloserFree ==
  ASSUME NEW t, pc'[t] \notin Checked \cup Guarded \cup Committed
  PROVE  Closer(t)'
BY DEF Closer, Committed

LEMMA CloserNotClosing ==
  ASSUME NEW t, op'[t] # "FCLOSE", pc'[t] \notin Committed
  PROVE  Closer(t)'
BY DEF Closer

LEMMA RequestSole ==
  ASSUME TypeInv, SoleOK, NEW t \in Threads, Request(t)
  PROVE  SoleOK'
<1>1. /\ Untouched(t) /\ pc[t] = "idle"
      /\ pc'[t] \in {"open", "sync", "check", "lookup"}
      /\ UNCHANGED <<OpenedFiles, kernel, FILE_ACCESS, bIsClosing, freed>>
  BY RequestFootprint DEF TypeInv, tables, ctls
<1>2. /\ UNCHANGED crashed
      /\ pc'[t] = "lookup" => op'[t] = "FWRITE"
  BY DEF Request, RequestOpen, RequestById, RequestSync, Goto, TypeInv, TypeOK
<1>3. Closer(t)'
  <2>1. CASE pc'[t] = "lookup"
    BY <1>2, <2>1, CloserNotClosing DEF Committed, Erased
  <2>2. CASE pc'[t] # "lookup"
    BY <1>1, <2>2, CloserFree DEF Committed, Erased, Checked, Guarded
  <2> QED
    BY <2>1, <2>2
<1> QED
  BY <1>1, <1>2, <1>3, LocalFrame DEF Erased, Marking

\* The steps of FOPEN and of SYNC commands but open(2) and its registration.
LEMMA OpeningSole ==
  ASSUME TypeInv, SoleOK, NEW t \in Threads, OpenStep(t), ~Create(t), ~Push(t)
  PROVE  SoleOK'
<1>1. /\ Untouched(t) /\ pc[t] \in Opening \cup {"sync", "syncFd"}
      /\ pc'[t] \in Opening \cup {"syncFd", "lookup", "check", "idle"}
      /\ UNCHANGED <<FILE_ACCESS, bIsClosing, freed>>
  BY OpenFootprint DEF TypeInv, ctls
<1>2. /\ UNCHANGED <<OpenedFiles, kernel, crashed>>
      /\ pc'[t] # "push"
      /\ pc'[t] = "lookup" => op'[t] = "FWRITE"
  <2>1. CASE SyncLookup(t)
    BY <2>1 DEF SyncLookup, Return, Goto, TypeInv, TypeOK, tables
  <2>2. CASE SyncFd(t)
    BY <2>2 DEF SyncFd, Goto, TypeInv, TypeOK, tables
  <2>3. CASE OpenKnown(t)
    BY <2>3 DEF OpenKnown, Return, Goto, TypeInv, TypeOK, tables
  <2>4. CASE OpenNew(t)
    BY <2>4 DEF OpenNew, Goto, TypeInv, TypeOK, tables
  <2>5. CASE CreateFails(t)
    BY <2>5 DEF CreateFails, Return, Goto, TypeInv, TypeOK, tables
  <2>6. CASE NameFd(t)
    BY <2>6 DEF NameFd, Goto, TypeInv, TypeOK
  <2>7. CASE FdName(t)
    BY <2>7 DEF FdName, Return, Goto, TypeInv, TypeOK
  <2> QED
    BY <2>1, <2>2, <2>3, <2>4, <2>5, <2>6, <2>7 DEF OpenStep
<1>3. Closer(t)'
  <2>1. CASE pc'[t] = "lookup"
    BY <1>2, <2>1, CloserNotClosing DEF Committed, Erased
  <2>2. CASE pc'[t] # "lookup"
    BY <1>1, <2>2, CloserFree DEF Committed, Erased, Checked, Guarded, Opening
  <2> QED
    BY <2>1, <2>2
<1> QED
  BY <1>1, <1>2, <1>3, LocalFrame DEF Erased, Marking, Opening

\* The way in, but for the creation of a block.
LEMMA EntrySole ==
  ASSUME TypeInv, SoleOK, NEW t \in Threads, EntryStep(t), ~NewControl(t)
  PROVE  SoleOK'
<1>1. /\ Untouched(t) /\ pc[t] \in Entering \cup {"recheck"}
      /\ UNCHANGED <<OpenedFiles, kernel>>
  BY EntryFootprint DEF TypeInv, tables
<1>2. UNCHANGED <<FILE_ACCESS, bIsClosing, freed, crashed>>
  BY DEF EntryStep, Check, Lookup, FindControl, PassWait, FailWait, Sleep, Recheck, ctls
<1>3. Closer(t)
  BY DEF SoleOK
<1> USE DEF Goto, TypeInv, TypeOK, locals, Erased, Committed, Checked, Guarded,
            Marking
<1>4. /\ pc'[t] \notin {"push"} \cup Erased /\ Closer(t)'
      /\ op[t] = "FCLOSE" /\ pc[t] \in Marking =>
           op'[t] = "FCLOSE" /\ name'[t] = name[t] /\ pc'[t] \in Marking
  <2>1. CASE Check(t)
    BY <1>1, <1>3, <2>1 DEF Check, Closer, Return, FDChcker
  <2>2. CASE Lookup(t)
    BY <1>1, <1>3, <2>2 DEF Lookup, Closer, FDChcker
  <2>3. CASE FindControl(t)
    BY <1>1, <1>2, <1>3, <2>3 DEF FindControl, Closer, FDChcker
  <2>4. CASE PassWait(t)
    BY <1>1, <1>2, <1>3, <2>4 DEF PassWait, AfterWait, Closer, FDChcker, ControlOK, IdOps, Readers, Entering
  <2>5. CASE FailWait(t)
    BY <1>1, <1>2, <1>3, <2>5 DEF FailWait, Closer, FDChcker
  <2>6. CASE Sleep(t)
    BY <1>1, <1>2, <1>3, <2>6 DEF Sleep, Closer, FDChcker
  <2>7. CASE Recheck(t)
    BY <1>1, <1>2, <1>3, <2>7 DEF Recheck, AfterRecheck, Closer, FDChcker, Return, ControlOK
  <2> QED
    BY <2>1, <2>2, <2>3, <2>4, <2>5, <2>6, <2>7 DEF EntryStep
<1> HIDE DEF TypeInv, TypeOK
<1> QED
  BY <1>1, <1>2, <1>4, LocalFrame DEF Entering

\* A wakeup takes a waiting FCLOSE from "asleep" to "wait" and nothing else.
LEMMA CloserWoken ==
  ASSUME NEW u, Closer(u), pc[u] = "asleep", pc'[u] = "wait", op'[u] = op[u],
         id'[u] = id[u], name'[u] = name[u], ctl'[u] = ctl[u],
         UNCHANGED <<OpenedFiles, FILE_ACCESS>>
  PROVE  Closer(u)'
BY DEF Closer, FDChcker, Erased, Committed, Checked, Guarded

LEMMA SpuriousSole ==
  ASSUME TypeInv, SoleOK, NEW t \in Threads, SpuriousWakeup(t)
  PROVE  SoleOK'
<1>1. /\ Untouched(t) /\ pc[t] = "asleep" /\ pc'[t] = "wait"
      /\ UNCHANGED <<OpenedFiles, kernel, FILE_ACCESS, bIsClosing, freed, locals>>
  BY SpuriousFootprint DEF TypeInv, tables, ctls
<1>2. UNCHANGED crashed
  BY DEF SpuriousWakeup
<1>3. Closer(t)'
  BY <1>1, CloserWoken DEF SoleOK, locals
<1> QED
  BY <1>1, <1>2, <1>3, LocalFrame DEF Erased, Marking

\* Reading and writing, as far as the end of the command.
LEMMA AccessSole ==
  ASSUME TypeInv, SoleOK, NEW t \in Threads, AccessStep(t)
  PROVE  SoleOK'
<1>1. UNCHANGED <<OpenedFiles, kernel, FILE_ACCESS>>
  BY AccessFootprint DEF TypeInv, tables
<1>2. UNCHANGED <<bIsClosing, freed, crashed>>
  BY DEF AccessStep, Lock, Enter, FinishIO, NotifyAll, Leave, ctls
<1>3. CASE NotifyAll(t)
  <2>1. /\ UNCHANGED locals /\ pc[t] = "notify" /\ pc'[t] = "unlock"
        /\ \A u \in Threads \ {t} :
             pc'[u] = pc[u] \/ (pc[u] = "asleep" /\ pc'[u] = "wait")
    <3>1. /\ UNCHANGED locals /\ pc[t] = "notify"
          /\ pc' = [u \in Threads |-> IF u = t THEN "unlock"
                                     ELSE IF u \in Woken(t) THEN "wait" ELSE pc[u]]
      BY <1>3 DEF NotifyAll
    <3>2. \A u \in Woken(t) : pc[u] = "asleep"
      BY DEF Woken, Sleepers
    <3> QED
      BY <3>1, <3>2
  <2>2. ASSUME NEW u \in Threads
        PROVE  /\ pc[u] = "reset" => pc'[u] = "reset"
               /\ pc'[u] = "push" => pc[u] = "push" /\ id'[u] = id[u]
               /\ pc'[u] \in Erased => pc[u] \in Erased /\ id'[u] = id[u]
               /\ op[u] = "FCLOSE" /\ pc[u] \in Marking =>
                    op'[u] = "FCLOSE" /\ name'[u] = name[u] /\ pc'[u] \in Marking
               /\ Closer(u)'
    <3>1. Closer(u) /\ UNCHANGED <<op, id, name, ctl, index>>
      BY <2>1 DEF SoleOK, locals
    <3>2. CASE u = t
      BY <2>1, <3>2, CloserFree DEF Erased, Marking, Checked, Guarded, Committed
    <3>3. CASE pc'[u] = pc[u]
      BY <1>1, <3>1, <3>3, CloserKept DEF FDChcker, IndexOK
    <3>4. CASE pc[u] = "asleep" /\ pc'[u] = "wait"
      BY <1>1, <3>1, <3>4, CloserWoken DEF Erased, Marking
    <3> QED
      BY <2>1, <3>2, <3>3, <3>4
  <2> QED
    BY <1>1, <1>2, <2>2, SoleFrame
<1>4. CASE ~NotifyAll(t)
  <2>1. /\ pc[t] # "notify" /\ pc'[t] \in {"enter", "io", "notify", "idle"}
        /\ pc[t] \notin Marking
    BY <1>4 DEF AccessStep, Lock, Enter, FinishIO, Leave, Return, Goto, TypeInv,
                TypeOK, Marking
  <2>2. Untouched(t)
    BY <2>1, AccessFootprint DEF TypeInv
  <2>3. Closer(t)'
    BY <2>1, CloserFree DEF Erased, Checked, Guarded, Committed
  <2> QED
    BY <1>1, <1>2, <2>1, <2>2, <2>3, LocalFrame DEF Erased, Marking
<1> QED
  BY <1>3, <1>4

-----------------------------------------------------------------------------
(* Opening a file.                                                         *)

LEMMA CreateSole ==
  ASSUME TypeInv, SoleOK, NEW t \in Threads, Create(t)
  PROVE  SoleOK'
<1>1. PICK fd \in Fds : /\ kernel[fd] = Nil
                        /\ kernel' = [kernel EXCEPT ![fd] = name[t]]
                        /\ id'     = [id EXCEPT ![t] = fd]
  BY Zenon DEF Create
<1>2. /\ pc[t] = "create" /\ pc'[t] = "push"
      /\ UNCHANGED <<OpenedFiles, FILE_ACCESS, bIsClosing, freed, crashed, op, name,
                     ctl, index>>
      /\ \A u \in Threads \ {t} : pc'[u] = pc[u]
  BY DEF Create, Goto, TypeInv, TypeOK, tables, ctls
<1>3. /\ id'[t] = fd /\ kernel'[fd] = name[t] /\ name[t] # Nil
      /\ \A u \in Threads \ {t} : id'[u] = id[u]
      /\ \A g : g # fd => kernel'[g] = kernel[g]
  <2>1. name[t] \in Names
    BY <1>2 DEF TypeInv, ControlOK, Opening
  <2> QED
    BY <1>1, <2>1, ConstantsAssumption DEF TypeInv, TypeOK
<1>4. \A g : kernel[g] # Nil => kernel'[g] = kernel[g]
  BY <1>1, <1>3
<1>5. ~FDChcker(fd) /\ UNCHANGED OpenedFiles
  BY <1>1, <1>2 DEF SoleOK, TableInv, TableSound, FDChcker
<1>6. TableInv'
  <2>1. TableSound'
    BY <1>2, <1>4 DEF SoleOK, TableInv, TableSound
  <2>2. ASSUME NEW u \in Threads, pc'[u] = "push"
        PROVE  kernel'[id'[u]] # Nil /\ ~FDChcker(id[u])'
    <3>1. CASE u = t
      BY <1>3, <1>5, <3>1 DEF FDChcker
    <3>2. CASE u # t
      BY <1>2, <1>3, <1>4, <2>2, <3>2 DEF SoleOK, TableInv, FDChcker
    <3> QED
      BY <3>1, <3>2
  <2>3. \A u \in Threads \ {t} : pc'[u] = "push" => id'[u] # fd
    BY <1>1, <1>2, <1>3 DEF SoleOK, TableInv
  <2>4. \A u, v \in Threads :
          pc'[u] = "push" /\ pc'[v] = "push" /\ id'[u] = id'[v] => u = v
    BY <1>2, <1>3, <2>3 DEF SoleOK, TableInv
  <2>5. ASSUME NEW u \in Threads, pc'[u] \in Erased
        PROVE  /\ id'[u] \in Fds /\ kernel'[id'[u]] # Nil /\ ~FDChcker(id[u])'
               /\ \A v \in Threads : pc'[v] = "push" => id'[v] # id'[u]
    <3>1. u # t /\ pc[u] \in Erased /\ id'[u] = id[u]
      BY <1>2, <1>3, <2>5 DEF Erased
    <3>2. /\ id[u] \in Fds /\ kernel[id[u]] # Nil /\ ~FDChcker(id[u])
          /\ \A v \in Threads : pc[v] = "push" => id[v] # id[u]
      BY <3>1 DEF SoleOK, TableInv
    <3>3. id[u] # fd
      BY <1>1, <3>2
    <3> QED
      BY <1>2, <1>3, <1>4, <3>1, <3>2, <3>3 DEF FDChcker
  <2> QED
    BY <2>1, <2>2, <2>4, <2>5 DEF TableInv
<1>7. \A u \in Threads : Closer(u)'
  <2> SUFFICES ASSUME NEW u \in Threads PROVE Closer(u)'
    OBVIOUS
  <2>1. CASE u = t
    BY <1>2, <2>1, CloserFree DEF Erased, Checked, Guarded, Committed
  <2>2. CASE u # t
    BY <1>2, <1>3, <2>2, CloserKept DEF SoleOK, FDChcker, IndexOK
  <2> QED
    BY <2>1, <2>2
<1>8. NoPoisonedFile'
  BY <1>2 DEF SoleOK, NoPoisonedFile
<1>9. FreedInv'
  BY <1>2, FreedFrame DEF SoleOK
<1> QED
  BY <1>2, <1>6, <1>7, <1>8, <1>9 DEF SoleOK

LEMMA PushSole ==
  ASSUME TypeInv, SoleOK, NEW t \in Threads, Push(t)
  PROVE  SoleOK'
<1>1. /\ pc[t] = "push" /\ pc'[t] = "nameFd"
      /\ OpenedFiles' = Append(OpenedFiles, id[t])
      /\ UNCHANGED <<kernel, FILE_ACCESS, bIsClosing, freed, crashed, op, id, name,
                     ctl, index>>
      /\ \A u \in Threads \ {t} : pc'[u] = pc[u]
  BY DEF Push, Goto, TypeInv, TypeOK, ctls, locals
<1>2. kernel[id[t]] # Nil /\ ~FDChcker(id[t])
  BY <1>1 DEF SoleOK, TableInv
<1>3. /\ DOMAIN OpenedFiles' = DOMAIN OpenedFiles \cup {Len(OpenedFiles) + 1}
      /\ OpenedFiles'[Len(OpenedFiles) + 1] = id[t]
      /\ \A i \in DOMAIN OpenedFiles : /\ OpenedFiles'[i] = OpenedFiles[i]
                                       /\ i # Len(OpenedFiles) + 1
  BY <1>1 DEF TypeInv, TypeOK
<1>4. \A g : (\E i \in DOMAIN OpenedFiles' : OpenedFiles'[i] = g)
               <=> g = id[t] \/ FDChcker(g)
  BY <1>3 DEF FDChcker
<1>5. \A u \in Threads : FDChcker(id[u])' <=> id[u] = id[t] \/ FDChcker(id[u])
  BY <1>1, <1>4 DEF FDChcker
<1>6. TableSound'
  <2>1. \A i \in DOMAIN OpenedFiles : OpenedFiles[i] # id[t]
    BY <1>2 DEF FDChcker
  <2>2. TableSound
    BY DEF SoleOK, TableInv
  <2> QED
    BY <1>1, <1>2, <1>3, <2>1, <2>2 DEF TableSound
<1>7. TableInv'
  <2>1. \A u \in Threads : pc'[u] = "push" => /\ kernel'[id'[u]] # Nil
                                              /\ ~FDChcker(id[u])'
    BY <1>1, <1>5 DEF SoleOK, TableInv
  <2>2. \A u, v \in Threads :
          pc'[u] = "push" /\ pc'[v] = "push" /\ id'[u] = id'[v] => u = v
    BY <1>1 DEF SoleOK, TableInv
  <2>3. ASSUME NEW u \in Threads, pc'[u] \in Erased
        PROVE  /\ id'[u] \in Fds /\ kernel'[id'[u]] # Nil /\ ~FDChcker(id[u])'
               /\ \A v \in Threads : pc'[v] = "push" => id'[v] # id'[u]
    <3>1. u # t /\ pc[u] \in Erased
      BY <1>1, <2>3 DEF Erased
    <3> QED
      BY <1>1, <1>5, <3>1 DEF SoleOK, TableInv
  <2> QED
    BY <1>6, <2>1, <2>2, <2>3 DEF TableInv
<1>8. \A u \in Threads : Closer(u)'
  <2> SUFFICES ASSUME NEW u \in Threads PROVE Closer(u)'
    OBVIOUS
  <2>1. CASE u = t
    BY <1>1, <2>1, CloserFree DEF Erased, Checked, Guarded, Committed
  <2>2. CASE u # t
    BY <1>1, <1>3, <1>5, <2>2, CloserKept DEF SoleOK, IndexOK
  <2> QED
    BY <2>1, <2>2
<1>9. NoPoisonedFile'
  <2> SUFFICES ASSUME NEW n \in Keys, FILE_ACCESS[n] # Nil, bIsClosing[FILE_ACCESS[n]]
               PROVE  \E u \in Threads : op[u] = "FCLOSE" /\ name[u] = n
                                           /\ pc'[u] \in Marking
    BY <1>1 DEF NoPoisonedFile, Marking
  <2>1. PICK u \in Threads : op[u] = "FCLOSE" /\ name[u] = n /\ pc[u] \in Marking
    BY DEF SoleOK, NoPoisonedFile, Marking
  <2> QED
    BY <1>1, <2>1 DEF Marking
<1>10. FreedInv'
  BY <1>1, FreedFrame DEF SoleOK
<1> QED
  BY <1>1, <1>7, <1>8, <1>9, <1>10 DEF SoleOK

\* A new block: the waiting FCLOSE has one already, so its file's is another.
LEMMA NewControlSole ==
  ASSUME TypeInv, SoleOK, NEW t \in Threads, NewControl(t)
  PROVE  SoleOK'
<1>1. PICK b \in FreeBlocks :
        /\ FILE_ACCESS' = [FILE_ACCESS EXCEPT ![name[t]] = b]
        /\ bIsClosing'  = [bIsClosing EXCEPT ![b] = FALSE]
        /\ ctl'         = [ctl EXCEPT ![t] = b]
  BY Zenon DEF NewControl
<1>2. /\ pc[t] = "control" /\ pc'[t] = "wait" /\ FILE_ACCESS[name[t]] = Nil
      /\ name[t] \in Keys
      /\ UNCHANGED <<OpenedFiles, kernel, freed, crashed, op, id, name, index>>
      /\ \A u \in Threads \ {t} : pc'[u] = pc[u]
  BY DEF NewControl, Goto, TypeInv, TypeOK, tables
<1>3. /\ b \in Blocks /\ \A n \in Keys : FILE_ACCESS[n] # b
  BY ConstantsAssumption DEF FreeBlocks, Linked
<1>4. /\ b # Nil /\ ctl'[t] = b /\ FILE_ACCESS'[name[t]] = b /\ bIsClosing'[b] = FALSE
      /\ \A n \in Keys \ {name[t]} : FILE_ACCESS'[n] = FILE_ACCESS[n]
      /\ \A c \in Blocks \ {b} : bIsClosing'[c] = bIsClosing[c]
      /\ \A u \in Threads \ {t} : ctl'[u] = ctl[u]
  BY <1>1, <1>2, <1>3, ConstantsAssumption DEF TypeInv, TypeOK
<1>5. \A u \in Threads : FDChcker(id[u])' <=> FDChcker(id[u])
  BY <1>2 DEF FDChcker
<1>6. TableInv'
  <2>1. TableSound'
    BY <1>2 DEF SoleOK, TableInv, TableSound
  <2>2. \A u \in Threads : /\ pc'[u] = "push" => u # t /\ pc[u] = "push"
                           /\ pc'[u] \in Erased => u # t /\ pc[u] \in Erased
    BY <1>2 DEF Erased
  <2> QED
    BY <1>2, <1>5, <2>1, <2>2 DEF SoleOK, TableInv
<1>7. \A u \in Threads : Closer(u)'
  <2> SUFFICES ASSUME NEW u \in Threads PROVE Closer(u)'
    OBVIOUS
  <2>1. CASE u = t
    BY <1>2, <1>4, <1>5, <2>1 DEF SoleOK, Closer, Erased, Checked, Guarded, Committed
  <2>2. CASE u # t
    <3>1. name[u] \in Keys /\ (FILE_ACCESS[name[u]] # Nil => name[u] # name[t])
      BY <1>2 DEF TypeInv, TypeOK
    <3>2. FILE_ACCESS[name[u]] # Nil => FILE_ACCESS'[name[u]] = FILE_ACCESS[name[u]]
      BY <1>4, <3>1
    <3> QED
      BY <1>2, <1>4, <1>5, <2>2, <3>2, CloserKept DEF SoleOK, IndexOK
  <2> QED
    BY <2>1, <2>2
<1>8. NoPoisonedFile'
  <2> SUFFICES ASSUME NEW n \in Keys, FILE_ACCESS'[n] # Nil, bIsClosing'[FILE_ACCESS'[n]]
               PROVE  \E u \in Threads : op'[u] = "FCLOSE" /\ name'[u] = n
                                           /\ pc'[u] \in Marking
    BY DEF NoPoisonedFile, Marking
  <2>1. n # name[t]
    BY <1>4
  <2>2. FILE_ACCESS[n] = FILE_ACCESS'[n] /\ FILE_ACCESS[n] \in Blocks \ {b}
    BY <1>3, <1>4, <2>1 DEF TypeInv, TypeOK
  <2>3. PICK u \in Threads : op[u] = "FCLOSE" /\ name[u] = n /\ pc[u] \in Marking
    BY <1>4, <2>2 DEF SoleOK, NoPoisonedFile, Marking
  <2> QED
    BY <1>2, <2>1, <2>3
<1>9. FreedInv'
  BY <1>2, FreedFrame DEF SoleOK
<1> QED
  BY <1>2, <1>6, <1>7, <1>8, <1>9 DEF SoleOK

-----------------------------------------------------------------------------
(* Closing it.                                                             *)

\* While t closes, no other thread does.
LEMMA Alone ==
  ASSUME OneCloser, NEW t \in Threads, op[t] = "FCLOSE", NEW u \in Threads \ {t}
  PROVE  op[u] # "FCLOSE"
BY DEF OneCloser

LEMMA SetClosingSole ==
  ASSUME TypeInv, Apart, SoleOK, NEW t \in Threads, SetClosing(t)
  PROVE  SoleOK'
<1>1. /\ pc[t] = "closing" /\ pc'[t] = "recheck"
      /\ bIsClosing' = [bIsClosing EXCEPT ![ctl[t]] = TRUE]
      /\ UNCHANGED <<OpenedFiles, kernel, FILE_ACCESS, freed, crashed, op, id, name,
                     ctl, index>>
      /\ \A u \in Threads \ {t} : pc'[u] = pc[u]
  BY DEF SetClosing, Goto, TypeInv, TypeOK, tables, locals
<1>2. op[t] = "FCLOSE" /\ FDChcker(id[t]) /\ ctl[t] # Nil /\ ctl[t] = FILE_ACCESS[name[t]]
  BY <1>1 DEF SoleOK, Closer, Erased, Checked, Guarded, Committed
<1>3. \A u \in Threads : FDChcker(id[u])' <=> FDChcker(id[u])
  BY <1>1 DEF FDChcker
<1>4. TableInv'
  <2>1. TableSound'
    BY <1>1 DEF SoleOK, TableInv, TableSound
  <2>2. \A u \in Threads : /\ pc'[u] = "push" => pc[u] = "push"
                           /\ pc'[u] \in Erased => pc[u] \in Erased
    BY <1>1 DEF Erased
  <2> QED
    BY <1>1, <1>3, <2>1, <2>2 DEF SoleOK, TableInv
<1>5. \A u \in Threads : Closer(u)'
  <2> SUFFICES ASSUME NEW u \in Threads PROVE Closer(u)'
    OBVIOUS
  <2>1. CASE u = t
    BY <1>1, <1>2, <1>3, <2>1 DEF Closer, Erased, Committed
  <2>2. CASE u # t
    BY <1>1, <1>3, <2>2, CloserKept DEF SoleOK, IndexOK
  <2> QED
    BY <2>1, <2>2
<1>6. NoPoisonedFile'
  <2> SUFFICES ASSUME NEW n \in Keys, FILE_ACCESS[n] # Nil, bIsClosing'[FILE_ACCESS[n]]
               PROVE  \E u \in Threads : op[u] = "FCLOSE" /\ name[u] = n
                                           /\ pc'[u] \in Marking
    BY <1>1 DEF NoPoisonedFile, Marking
  <2>1. CASE FILE_ACCESS[n] = ctl[t]
    <3>1. name[t] = n
      BY <1>2, <2>1 DEF Apart, TypeInv, TypeOK
    <3> QED
      BY <1>1, <1>2, <3>1 DEF Marking
  <2>2. CASE FILE_ACCESS[n] # ctl[t]
    <3>1. bIsClosing[FILE_ACCESS[n]]
      BY <1>1, <2>2 DEF TypeInv, TypeOK
    <3>2. PICK u \in Threads : op[u] = "FCLOSE" /\ name[u] = n /\ pc[u] \in Marking
      BY <3>1 DEF SoleOK, NoPoisonedFile, Marking
    <3> QED
      BY <1>1, <3>2 DEF Marking
  <2> QED
    BY <2>1, <2>2
<1>7. FreedInv'
  BY <1>1, FreedFrame DEF SoleOK
<1> QED
  BY <1>1, <1>4, <1>5, <1>6, <1>7 DEF SoleOK

\* Removing the i-th element of a sequence without repetitions.
LEMMA WithoutOne ==
  ASSUME NEW S, NEW s \in Seq(S), NEW i \in DOMAIN s, NEW r,
         \A j, k \in DOMAIN s : s[j] = s[k] => j = k,
         DOMAIN r = 1..(Len(s) - 1),
         \A k \in 1..(Len(s) - 1) : r[k] = s[IF k < i THEN k ELSE k + 1]
  PROVE  /\ \A j, k \in DOMAIN r : r[j] = r[k] => j = k
         /\ \A v : (\E k \in DOMAIN r : r[k] = v) <=> v # s[i] /\ \E k \in DOMAIN s : s[k] = v
<1> DEFINE At(k) == IF k < i THEN k ELSE k + 1
<1>1. Len(s) \in Nat /\ DOMAIN s = 1..Len(s) /\ i \in 1..Len(s)
  OBVIOUS
<1>2. \A k \in DOMAIN r : /\ r[k] = s[At(k)] /\ At(k) \in DOMAIN s /\ At(k) # i
                          /\ k \in Int
  BY <1>1
<1>3. \A j, k \in Int : At(j) = At(k) => j = k
  BY <1>1
<1>4. \A k \in DOMAIN s \ {i} : \E j \in DOMAIN r : At(j) = k
  <2> SUFFICES ASSUME NEW k \in DOMAIN s \ {i} PROVE \E j \in DOMAIN r : At(j) = k
    OBVIOUS
  <2>1. CASE k < i
    BY <1>1, <2>1
  <2>2. CASE k > i
    <3>1. k - 1 \in DOMAIN r /\ At(k - 1) = k
      BY <1>1, <2>2
    <3> QED
      BY <3>1
  <2> QED
    BY <1>1, <2>1, <2>2
<1> HIDE DEF At
<1>5. \A j, k \in DOMAIN r : r[j] = r[k] => j = k
  BY <1>2, <1>3
<1>6. ASSUME NEW k \in DOMAIN r
      PROVE  r[k] # s[i] /\ \E j \in DOMAIN s : s[j] = r[k]
  BY <1>2
<1>7. ASSUME NEW j \in DOMAIN s, s[j] # s[i]
      PROVE  \E k \in DOMAIN r : r[k] = s[j]
  BY <1>2, <1>4, <1>7
<1>8. ASSUME NEW v, \E k \in DOMAIN r : r[k] = v
      PROVE  v # s[i] /\ \E k \in DOMAIN s : s[k] = v
  <2>1. PICK k \in DOMAIN r : r[k] = v
    BY <1>8
  <2>2. r[k] # s[i]
    BY <1>6
  <2>3. PICK j \in DOMAIN s : s[j] = r[k]
    BY <1>6
  <2> QED
    BY <2>1, <2>2, <2>3
<1>9. ASSUME NEW v, v # s[i], \E k \in DOMAIN s : s[k] = v
      PROVE  \E k \in DOMAIN r : r[k] = v
  <2>1. PICK j \in DOMAIN s : s[j] = v
    BY <1>9
  <2>2. PICK k \in DOMAIN r : r[k] = s[j]
    BY <1>7, <1>9, <2>1
  <2> QED
    BY <2>1, <2>2
<1>10. ASSUME NEW v
       PROVE  (\E k \in DOMAIN r : r[k] = v) <=> v # s[i] /\ \E k \in DOMAIN s : s[k] = v
  BY <1>8, <1>9, Zenon
<1> QED
  BY <1>5, <1>10, Zenon

LEMMA EraseOpenedSole ==
  ASSUME TypeInv, OneCloser, SoleOK, NEW t \in Threads, EraseOpened(t)
  PROVE  SoleOK'
<1>1. PICK i \in DOMAIN OpenedFiles :
        /\ OpenedFiles[i] = id[t]
        /\ OpenedFiles' = [k \in 1..(Len(OpenedFiles) - 1) |->
                             OpenedFiles[IF k < i THEN k ELSE k + 1]]
  <2>1. IndexOK(t)
    BY DEF EraseOpened, SoleOK, Closer, Committed
  <2> QED
    BY <2>1 DEF EraseOpened, IndexOK
<1>2. /\ pc[t] = "erase" /\ pc'[t] = "compare"
      /\ UNCHANGED <<kernel, FILE_ACCESS, bIsClosing, freed, crashed, op, id, name,
                     ctl, index>>
      /\ \A u \in Threads \ {t} : pc'[u] = pc[u]
  BY DEF EraseOpened, Goto, TypeInv, TypeOK, ctls, locals
<1>3. /\ op[t] = "FCLOSE" /\ FDChcker(id[t])
      /\ ctl[t] # Nil /\ ctl[t] = FILE_ACCESS[name[t]]
  BY <1>2 DEF SoleOK, Closer, Erased, Checked, Guarded, Committed
<1>4. TableSound
  BY DEF SoleOK, TableInv
<1>5. /\ \A j, k \in DOMAIN OpenedFiles' : OpenedFiles'[j] = OpenedFiles'[k] => j = k
      /\ \A v : (\E k \in DOMAIN OpenedFiles' : OpenedFiles'[k] = v)
                  <=> v # id[t] /\ \E k \in DOMAIN OpenedFiles : OpenedFiles[k] = v
  <2>1. OpenedFiles \in Seq(Fds)
    BY DEF TypeInv, TypeOK
  <2>2. \A j, k \in DOMAIN OpenedFiles : OpenedFiles[j] = OpenedFiles[k] => j = k
    BY <1>4 DEF TableSound
  <2>3. /\ \A j, k \in DOMAIN OpenedFiles' : OpenedFiles'[j] = OpenedFiles'[k] => j = k
        /\ \A v : (\E k \in DOMAIN OpenedFiles' : OpenedFiles'[k] = v)
             <=> v # OpenedFiles[i] /\ \E k \in DOMAIN OpenedFiles : OpenedFiles[k] = v
    <3>1. /\ DOMAIN OpenedFiles' = 1..(Len(OpenedFiles) - 1)
          /\ \A k \in 1..(Len(OpenedFiles) - 1) :
               OpenedFiles'[k] = OpenedFiles[IF k < i THEN k ELSE k + 1]
      BY <1>1
    <3> QED
      BY <2>1, <2>2, <3>1, WithoutOne
  <2> QED
    BY <1>1, <2>3
<1>6. \A u \in Threads : FDChcker(id[u])' <=> id[u] # id[t] /\ FDChcker(id[u])
  BY <1>2, <1>5 DEF FDChcker
<1>7. TableInv'
  <2>1. \A v : (\E k \in DOMAIN OpenedFiles' : OpenedFiles'[k] = v) => kernel[v] # Nil
    BY <1>4, <1>5 DEF TableSound
  <2>2. TableSound'
    BY <1>2, <1>5, <2>1 DEF TableSound
  <2>3. /\ id[t] \in Fds /\ kernel[id[t]] # Nil
        /\ \A u \in Threads : pc[u] = "push" => id[u] # id[t]
    <3>1. PICK k \in DOMAIN OpenedFiles : OpenedFiles[k] = id[t]
      BY <1>1
    <3>2. id[t] \in Fds
      BY <3>1 DEF TypeInv, TypeOK
    <3>3. \A u \in Threads : pc[u] = "push" => ~FDChcker(id[u])
      BY DEF SoleOK, TableInv
    <3>4. \A u \in Threads : id[u] = id[t] => FDChcker(id[u])
      BY <1>3
    <3> QED
      BY <1>4, <3>1, <3>2, <3>3, <3>4 DEF TableSound
  <2>4. \A u \in Threads : /\ pc'[u] = "push" => pc[u] = "push"
                           /\ pc'[u] \in Erased => u = t \/ pc[u] \in Erased
    BY <1>2 DEF Erased
  <2>5. ASSUME NEW u \in Threads, pc'[u] \in Erased
        PROVE  /\ id'[u] \in Fds /\ kernel'[id'[u]] # Nil /\ ~FDChcker(id[u])'
               /\ \A v \in Threads : pc'[v] = "push" => id'[v] # id'[u]
    <3>1. CASE u = t
      BY <1>2, <1>6, <2>3, <2>4, <3>1
    <3>2. CASE pc[u] \in Erased
      BY <1>2, <1>6, <2>4, <3>2 DEF SoleOK, TableInv
    <3> QED
      BY <2>4, <2>5, <3>1, <3>2
  <2>6. \A u \in Threads : pc'[u] = "push" => /\ kernel'[id'[u]] # Nil
                                              /\ ~FDChcker(id[u])'
    BY <1>2, <1>6, <2>4 DEF SoleOK, TableInv
  <2>7. \A u, v \in Threads :
          pc'[u] = "push" /\ pc'[v] = "push" /\ id'[u] = id'[v] => u = v
    BY <1>2, <2>4 DEF SoleOK, TableInv
  <2> QED
    BY <2>2, <2>5, <2>6, <2>7 DEF TableInv
<1>8. \A u \in Threads : Closer(u)'
  <2> SUFFICES ASSUME NEW u \in Threads PROVE Closer(u)'
    OBVIOUS
  <2>1. CASE u = t
    BY <1>2, <1>3, <2>1 DEF Closer, Checked
  <2>2. CASE u # t
    <3>1. Closer(u) /\ op[u] # "FCLOSE"
      BY <1>3, <2>2, Alone DEF SoleOK
    <3> QED
      BY <1>2, <2>2, <3>1, CloserKept
  <2> QED
    BY <2>1, <2>2
<1>9. NoPoisonedFile'
  <2> SUFFICES ASSUME NEW n \in Keys, FILE_ACCESS[n] # Nil, bIsClosing[FILE_ACCESS[n]]
               PROVE  \E u \in Threads : op[u] = "FCLOSE" /\ name[u] = n
                                           /\ pc'[u] \in Marking
    BY <1>2 DEF NoPoisonedFile, Marking
  <2>1. PICK u \in Threads : op[u] = "FCLOSE" /\ name[u] = n /\ pc[u] \in Marking
    BY DEF SoleOK, NoPoisonedFile, Marking
  <2> QED
    BY <1>2, <2>1 DEF Marking
<1>10. FreedInv'
  BY <1>2, FreedFrame DEF SoleOK
<1> QED
  BY <1>2, <1>7, <1>8, <1>9, <1>10 DEF SoleOK

\* The steps of FCLOSE that change its locals or the maps, or destroy the block.
LEMMA ClosingSole ==
  ASSUME TypeInv, SoleOK, NEW t \in Threads,
         \/ FindIndex(t) \/ CompareName(t) \/ ForgetName(t) \/ UnnameFd(t)
         \/ FindNode(t) \/ Destroy(t)
  PROVE  SoleOK'
<1>1. /\ UNCHANGED <<OpenedFiles, kernel, FILE_ACCESS, bIsClosing, freed, crashed, op,
                     id, name>>
      /\ pc[t] = "search" => pc'[t] = "erase" /\ UNCHANGED ctl
      /\ pc[t] = "compare" => pc'[t] \in {"forget", "unname"} /\ UNCHANGED <<ctl, index>>
      /\ pc[t] = "forget" => pc'[t] = "unname" /\ UNCHANGED <<ctl, index>>
      /\ pc[t] = "unname" => pc'[t] = "find" /\ UNCHANGED <<ctl, index>>
      /\ pc[t] = "find" => ctl'[t] = FILE_ACCESS[name[t]] /\ UNCHANGED index
      /\ pc[t] = "find" /\ FILE_ACCESS[name[t]] # Nil => pc'[t] \in {"clear", "unlink"}
      /\ pc[t] = "destroy" => pc'[t] = "close" /\ UNCHANGED <<ctl, index>>
      /\ pc[t] \in {"search", "compare", "forget", "unname", "find", "destroy"}
  BY DEF FindIndex, CompareName, ForgetName, UnnameFd, FindNode, Destroy, Goto, TypeInv,
         TypeOK, tables, ctls, locals
<1>2. Untouched(t)
  BY CloseFootprint DEF CloseStep, TypeInv
<1>3. Closer(t)
  BY DEF SoleOK
<1>4. /\ op[t] = "FCLOSE" /\ pc[t] = "find" => FILE_ACCESS[name[t]] # Nil
      /\ pc[t] = "search" => IndexOK(t)'
  <2>1. op[t] = "FCLOSE" /\ pc[t] = "find" => FILE_ACCESS[name[t]] # Nil
    BY <1>3 DEF Closer, Guarded
  <2>2. ASSUME pc[t] = "search"
        PROVE  IndexOK(t)'
    <3>1. FDChcker(id[t])
      BY <1>3, <2>2 DEF Closer, Committed, Checked
    <3>2. PICK i \in 1..(Len(OpenedFiles) + 1) :
            /\ i \in DOMAIN OpenedFiles => OpenedFiles[i] = id[t]
            /\ \A j \in 1..(i - 1) : OpenedFiles[j] # id[t]
            /\ index' = [index EXCEPT ![t] = i]
      BY <1>1, <2>2, Zenon DEF FindIndex, CompareName, ForgetName, UnnameFd, FindNode,
         Destroy
    <3>3. i \in DOMAIN OpenedFiles
      <4>1. PICK k \in DOMAIN OpenedFiles : OpenedFiles[k] = id[t]
        BY <3>1 DEF FDChcker
      <4>2. k \notin 1..(i - 1)
        BY <3>2, <4>1
      <4> QED
        BY <3>2, <4>1, <4>2 DEF TypeInv, TypeOK
    <3>4. index'[t] = i
      BY <3>2 DEF TypeInv, TypeOK
    <3> QED
      BY <1>1, <3>2, <3>3, <3>4 DEF IndexOK
  <2> QED
    BY <2>1, <2>2
<1>5. Closer(t)'
  <2>1. op[t] = "FCLOSE"
    BY <1>1, <1>3 DEF Closer, Committed, Erased
  <2>2. FDChcker(id[t])' <=> FDChcker(id[t])
    BY <1>1 DEF FDChcker
  <2> QED
    BY <1>1, <1>3, <1>4, <2>1, <2>2 DEF Closer, Erased, Committed, Checked, Guarded
<1>6. op[t] = "FCLOSE" /\ pc[t] \in Marking => pc'[t] \in Marking
  BY <1>1, <1>4 DEF Marking
<1>7. pc'[t] # "push" /\ (pc'[t] \in Erased => pc[t] \in Erased)
  <2>1. op[t] = "FCLOSE"
    BY <1>1, <1>3 DEF Closer, Committed, Erased
  <2> QED
    BY <1>1, <1>4, <2>1 DEF Erased
<1> QED
  BY <1>1, <1>2, <1>5, <1>6, <1>7, LocalFrame

\* While t closes, no other FCLOSE has destroyed a block and not unlinked it.
LEMMA NoneFreed ==
  ASSUME OneCloser, SoleOK, NEW t \in Threads, op[t] = "FCLOSE", pc[t] # "reset"
  PROVE  freed = {}
<1>1. \A u \in Threads : pc[u] = "reset" => op[u] = "FCLOSE"
  BY DEF SoleOK, Closer, Committed, Erased
<1> QED
  BY <1>1 DEF SoleOK, FreedInv, OneCloser

\* The block is destroyed in place.
LEMMA ClearSole ==
  ASSUME TypeInv, OneCloser, SoleOK, NEW t \in Threads, Clear(t)
  PROVE  SoleOK'
<1>1. /\ pc[t] = "clear" /\ pc'[t] = "reset"
      /\ UNCHANGED <<OpenedFiles, kernel, FILE_ACCESS, bIsClosing, crashed, op, id, name,
                     ctl, index>>
      /\ \A u \in Threads \ {t} : pc'[u] = pc[u]
  BY DEF Clear, Goto, TypeInv, TypeOK, tables, locals
<1>2. op[t] = "FCLOSE"
  BY <1>1 DEF SoleOK, Closer, Erased, Committed
<1>3. TableInv'
  <2>1. TableSound'
    BY <1>1 DEF SoleOK, TableInv, TableSound
  <2>2. \A u \in Threads : /\ pc'[u] = "push" => pc[u] = "push"
                           /\ pc'[u] \in Erased => pc[u] \in Erased
    BY <1>1 DEF Erased
  <2>3. \A u \in Threads : FDChcker(id[u])' <=> FDChcker(id[u])
    BY <1>1 DEF FDChcker
  <2> QED
    BY <1>1, <2>1, <2>2, <2>3 DEF SoleOK, TableInv
<1>4. \A u \in Threads : Closer(u)'
  <2> SUFFICES ASSUME NEW u \in Threads PROVE Closer(u)'
    OBVIOUS
  <2>1. CASE u = t
    BY <1>1, <1>2, <2>1 DEF Closer, Checked, Guarded
  <2>2. CASE u # t
    BY <1>1, <2>2, CloserKept DEF SoleOK, FDChcker, IndexOK
  <2> QED
    BY <2>1, <2>2
<1>5. NoPoisonedFile'
  <2> SUFFICES ASSUME NEW n \in Keys, FILE_ACCESS[n] # Nil, bIsClosing[FILE_ACCESS[n]]
               PROVE  \E u \in Threads : op[u] = "FCLOSE" /\ name[u] = n
                                           /\ pc'[u] \in Marking
    BY <1>1 DEF NoPoisonedFile, Marking
  <2>1. PICK u \in Threads : op[u] = "FCLOSE" /\ name[u] = n /\ pc[u] \in Marking
    BY DEF SoleOK, NoPoisonedFile, Marking
  <2> QED
    BY <1>1, <2>1 DEF Marking
<1>6. FreedInv'
  BY <1>1 DEF FreedInv
<1> QED
  BY <1>1, <1>3, <1>4, <1>5, <1>6 DEF SoleOK

\* The whole map is emptied: no block is left to be closed.
LEMMA ResetSole ==
  ASSUME TypeInv, OneCloser, SoleOK, NEW t \in Threads, Reset(t)
  PROVE  SoleOK'
<1>1. /\ pc[t] = "reset" /\ pc'[t] = "close" /\ freed' = {}
      /\ FILE_ACCESS' = [n \in Keys |-> Nil]
      /\ UNCHANGED <<OpenedFiles, kernel, bIsClosing, crashed, op, id, name, ctl, index>>
      /\ \A u \in Threads \ {t} : pc'[u] = pc[u]
  BY DEF Reset, Goto, TypeInv, TypeOK, tables, locals
<1>2. op[t] = "FCLOSE"
  BY <1>1 DEF SoleOK, Closer, Erased, Committed
<1>3. TableInv'
  <2>1. TableSound'
    BY <1>1 DEF SoleOK, TableInv, TableSound
  <2>2. \A u \in Threads : /\ pc'[u] = "push" => pc[u] = "push"
                           /\ pc'[u] \in Erased => pc[u] \in Erased
    BY <1>1 DEF Erased
  <2>3. \A u \in Threads : FDChcker(id[u])' <=> FDChcker(id[u])
    BY <1>1 DEF FDChcker
  <2> QED
    BY <1>1, <2>1, <2>2, <2>3 DEF SoleOK, TableInv
<1>4. \A u \in Threads : Closer(u)'
  <2> SUFFICES ASSUME NEW u \in Threads PROVE Closer(u)'
    OBVIOUS
  <2>1. CASE u = t
    BY <1>1, <1>2, <2>1 DEF Closer, Checked, Guarded
  <2>2. CASE u # t
    <3>1. Closer(u) /\ op[u] # "FCLOSE"
      BY <1>2, <2>2, Alone DEF SoleOK
    <3> QED
      BY <1>1, <2>2, <3>1, CloserKept
  <2> QED
    BY <2>1, <2>2
<1>5. NoPoisonedFile'
  BY <1>1 DEF NoPoisonedFile
<1>6. FreedInv'
  BY <1>1 DEF FreedInv
<1> QED
  BY <1>1, <1>3, <1>4, <1>5, <1>6 DEF SoleOK

LEMMA UnlinkSole ==
  ASSUME TypeInv, OneCloser, SoleOK, NEW t \in Threads, Unlink(t)
  PROVE  SoleOK'
<1>1. /\ pc[t] = "unlink" /\ pc'[t] = "destroy" /\ name[t] \in Keys
      /\ FILE_ACCESS' = [n \in Keys |-> IF FILE_ACCESS[n] = ctl[t] THEN Nil
                                                                  ELSE FILE_ACCESS[n]]
      /\ UNCHANGED <<OpenedFiles, kernel, bIsClosing, freed, crashed, op, id, name, ctl,
                     index>>
      /\ \A u \in Threads \ {t} : pc'[u] = pc[u]
  BY DEF Unlink, Goto, TypeInv, TypeOK, tables, locals
<1>2. op[t] = "FCLOSE" /\ ctl[t] = FILE_ACCESS[name[t]]
  BY <1>1 DEF SoleOK, Closer, Erased, Committed, Guarded
<1>3. \A u \in Threads : FDChcker(id[u])' <=> FDChcker(id[u])
  BY <1>1 DEF FDChcker
<1>4. TableInv'
  <2>1. TableSound'
    BY <1>1 DEF SoleOK, TableInv, TableSound
  <2>2. \A u \in Threads : /\ pc'[u] = "push" => pc[u] = "push"
                           /\ pc'[u] \in Erased => pc[u] \in Erased
    BY <1>1 DEF Erased
  <2> QED
    BY <1>1, <1>3, <2>1, <2>2 DEF SoleOK, TableInv
<1>5. \A u \in Threads : Closer(u)'
  <2> SUFFICES ASSUME NEW u \in Threads PROVE Closer(u)'
    OBVIOUS
  <2>1. CASE u = t
    BY <1>1, <1>2, <2>1 DEF Closer, Checked, Guarded
  <2>2. CASE u # t
    <3>1. Closer(u) /\ op[u] # "FCLOSE"
      BY <1>2, <2>2, Alone DEF SoleOK
    <3> QED
      BY <1>1, <2>2, <3>1, CloserKept
  <2> QED
    BY <2>1, <2>2
<1>6. NoPoisonedFile'
  <2> SUFFICES ASSUME NEW n \in Keys, FILE_ACCESS'[n] # Nil, bIsClosing[FILE_ACCESS'[n]]
               PROVE  \E u \in Threads : op[u] = "FCLOSE" /\ name[u] = n
                                           /\ pc'[u] \in Marking
    BY <1>1 DEF NoPoisonedFile, Marking
  <2>1. n # name[t] /\ FILE_ACCESS[n] = FILE_ACCESS'[n]
    BY <1>1, <1>2
  <2>2. PICK u \in Threads : op[u] = "FCLOSE" /\ name[u] = n /\ pc[u] \in Marking
    BY <2>1 DEF SoleOK, NoPoisonedFile, Marking
  <2> QED
    BY <1>1, <2>1, <2>2
<1>7. FreedInv'
  BY <1>1, FreedFrame DEF SoleOK
<1> QED
  BY <1>1, <1>4, <1>5, <1>6, <1>7 DEF SoleOK

LEMMA CloseFdSole ==
  ASSUME TypeInv, OneCloser, SoleOK, NEW t \in Threads, CloseFd(t)
  PROVE  SoleOK'
<1>1. /\ pc[t] = "close" /\ pc'[t] = "idle"
      /\ kernel' = [fd \in Fds |-> IF fd = id[t] THEN Nil ELSE kernel[fd]]
      /\ UNCHANGED <<OpenedFiles, FILE_ACCESS, bIsClosing, freed, crashed>>
      /\ \A u \in Threads \ {t} : /\ pc'[u] = pc[u] /\ op'[u] = op[u] /\ id'[u] = id[u]
                                  /\ name'[u] = name[u] /\ ctl'[u] = ctl[u]
                                  /\ index'[u] = index[u]
  BY DEF CloseFd, Return, Goto, TypeInv, TypeOK, tables, ctls
<1>2. /\ op[t] = "FCLOSE" /\ ~FDChcker(id[t])
      /\ \A u \in Threads : pc[u] = "push" => id[u] # id[t]
  BY <1>1 DEF SoleOK, TableInv, Closer, Erased, Committed
<1>3. \A u \in Threads \ {t} : op[u] # "FCLOSE" /\ pc[u] \notin Erased
  BY <1>2, Alone DEF SoleOK, Closer, Committed
<1>4. \A g \in Fds : g # id[t] => kernel'[g] = kernel[g]
  BY <1>1
<1>5. \A u \in Threads \ {t} : FDChcker(id[u])' <=> FDChcker(id[u])
  BY <1>1 DEF FDChcker
<1>6. TableInv'
  <2>1. TableSound'
    <3>1. \A i \in DOMAIN OpenedFiles : OpenedFiles[i] \in Fds /\ OpenedFiles[i] # id[t]
      BY <1>2 DEF FDChcker, TypeInv, TypeOK
    <3> QED
      BY <1>1, <1>4, <3>1 DEF SoleOK, TableInv, TableSound
  <2>2. \A u \in Threads : /\ pc'[u] = "push" => u # t /\ pc[u] = "push" /\ id[u] \in Fds
                           /\ pc'[u] \notin Erased
    BY <1>1, <1>3 DEF Erased, TypeInv, ControlOK, Opened
  <2>3. \A u \in Threads : pc'[u] = "push" => /\ kernel'[id'[u]] # Nil
                                              /\ ~FDChcker(id[u])'
    BY <1>1, <1>2, <1>4, <1>5, <2>2 DEF SoleOK, TableInv
  <2>4. \A u, v \in Threads :
          pc'[u] = "push" /\ pc'[v] = "push" /\ id'[u] = id'[v] => u = v
    BY <1>1, <2>2 DEF SoleOK, TableInv
  <2> QED
    BY <2>1, <2>2, <2>3, <2>4 DEF TableInv
<1>7. \A u \in Threads : Closer(u)'
  <2> SUFFICES ASSUME NEW u \in Threads PROVE Closer(u)'
    OBVIOUS
  <2>1. CASE u = t
    BY <1>1, <2>1, CloserFree DEF Erased, Checked, Guarded, Committed
  <2>2. CASE u # t
    BY <1>1, <1>3, <2>2, CloserKept DEF SoleOK, IndexOK
  <2> QED
    BY <2>1, <2>2
<1>8. NoPoisonedFile'
  <2> SUFFICES ASSUME NEW n \in Keys, FILE_ACCESS[n] # Nil, bIsClosing[FILE_ACCESS[n]]
               PROVE  \E u \in Threads : op'[u] = "FCLOSE" /\ name'[u] = n
                                           /\ pc'[u] \in Marking
    BY <1>1 DEF NoPoisonedFile, Marking
  <2>1. PICK u \in Threads : op[u] = "FCLOSE" /\ name[u] = n /\ pc[u] \in Marking
    BY DEF SoleOK, NoPoisonedFile, Marking
  <2> QED
    BY <1>1, <2>1 DEF Marking
<1>9. FreedInv'
  BY <1>1, FreedFrame DEF SoleOK
<1> QED
  BY <1>1, <1>6, <1>7, <1>8, <1>9 DEF SoleOK

\* Erasing beyond the end and erasing a node again are out of reach: nobody
\* else removes the descriptor or the block.
LEMMA NeverUndefined ==
  ASSUME TypeInv, OneCloser, SoleOK, NEW t \in Threads
  PROVE  ~EraseBeyondEnd(t) /\ ~EraseAgain(t)
<1>1. pc[t] = "erase" => index[t] \in DOMAIN OpenedFiles
  BY DEF SoleOK, Closer, Committed, IndexOK
<1>2. pc[t] \in {"unlink", "clear"} => ctl[t] \in Linked \ freed
  <2> SUFFICES ASSUME pc[t] \in {"unlink", "clear"} PROVE ctl[t] \in Linked \ freed
    OBVIOUS
  <2>1. op[t] = "FCLOSE" /\ ctl[t] # Nil /\ ctl[t] = FILE_ACCESS[name[t]]
    BY DEF SoleOK, Closer, Committed, Erased, Guarded
  <2>2. freed = {}
    BY <2>1, NoneFreed
  <2> QED
    BY <2>1, <2>2 DEF Linked, TypeInv, TypeOK
<1> QED
  BY <1>1, <1>2 DEF EraseBeyondEnd, EraseAgain

-----------------------------------------------------------------------------
(* The theorems.                                                           *)

LEMMA StepSole ==
  ASSUME TypeInv, Apart, OneCloser, SoleOK, Next
  PROVE  SoleOK'
<1>1. PICK t \in Threads : Request(t) \/ Step(t) \/ SpuriousWakeup(t)
  BY DEF Next
<1>2. CASE Request(t)
  BY <1>2, RequestSole
<1>3. CASE SpuriousWakeup(t)
  BY <1>3, SpuriousSole
<1>4. CASE OpenStep(t)
  BY <1>4, CreateSole, PushSole, OpeningSole
<1>5. CASE EntryStep(t)
  BY <1>5, NewControlSole, EntrySole
<1>6. CASE AccessStep(t)
  BY <1>6, AccessSole
<1>7. CASE CloseStep(t)
  BY <1>7, SetClosingSole, EraseOpenedSole, NeverUndefined, ClosingSole, UnlinkSole,
     ClearSole, ResetSole, CloseFdSole DEF CloseStep
<1> QED
  BY <1>1, <1>2, <1>3, <1>4, <1>5, <1>6, <1>7 DEF Step

LEMMA AtMostOne ==
  ASSUME NEW S, IsFiniteSet(S), Cardinality(S) <= 1, NEW t \in S, NEW u \in S
  PROVE  t = u
<1> SUFFICES ASSUME t # u PROVE FALSE
  OBVIOUS
<1>1. IsFiniteSet({t}) /\ Cardinality({t}) = 1
  BY FS_Singleton
<1>2. Cardinality({t} \cup {u}) = Cardinality({t}) + 1
  <2>1. u \notin {t}
    OBVIOUS
  <2> QED
    BY <1>1, <2>1, FS_AddElement
<1>3. {t} \cup {u} \in SUBSET S
  OBVIOUS
<1>4. Cardinality({t} \cup {u}) <= Cardinality(S)
  BY <1>3, FS_Subset
<1>5. Cardinality(S) \in Nat
  BY FS_CardinalityType
<1> QED
  BY <1>1, <1>2, <1>4, <1>5

Counting == sole' = (sole /\ Cardinality({t \in Threads : op'[t] = "FCLOSE"}) <= 1)

LEMMA InitSole == Init => OneCloser /\ SoleOK
<1> SUFFICES ASSUME Init PROVE OneCloser /\ SoleOK
  OBVIOUS
<1>1. /\ OpenedFiles = << >> /\ ~crashed /\ FILE_ACCESS = [n \in Keys |-> Nil]
      /\ \A t \in Threads : pc[t] = "idle" /\ op[t] = "none"
  BY DEF Init
<1>2. OneCloser
  BY <1>1 DEF OneCloser
<1>3. TableInv
  <2>1. TableSound
    BY <1>1 DEF TableSound
  <2> QED
    BY <1>1, <2>1 DEF TableInv, Erased
<1>4. \A t \in Threads : Closer(t)
  BY <1>1 DEF Closer, Committed, Erased
<1>5. NoPoisonedFile
  BY <1>1 DEF NoPoisonedFile
<1>6. FreedInv
  BY DEF Init, FreedInv
<1> QED
  BY <1>1, <1>2, <1>3, <1>4, <1>5, <1>6 DEF SoleOK

LEMMA SoleStutter ==
  ASSUME OneCloser, SoleOK, UNCHANGED vars
  PROVE  OneCloser' /\ SoleOK'
<1>1. UNCHANGED <<OpenedFiles, FILE_ACCESS, bIsClosing, kernel, freed, crashed,
                  pc, op, id, name, ctl, index>>
  BY DEF vars, tables, ctls, locals
<1>2. OneCloser'
  BY <1>1 DEF OneCloser
<1>3. \A t \in Threads : Closer(t)'
  BY <1>1, CloserKept DEF SoleOK, FDChcker, IndexOK
<1> QED
  BY <1>1, <1>2, <1>3, SoleFrame DEF SoleOK

LEMMA StepSoleInv ==
  ASSUME IsFiniteSet(Threads), SoleInv, [Next /\ Counting]_<<vars, sole>>
  PROVE  SoleInv'
<1>1. [Next]_vars
  OBVIOUS
<1>2. TypeInv'
  BY <1>1, StepTypeInv DEF SoleInv
<1>3. Apart'
  BY <1>1, StepApart DEF SoleInv
<1>4. ASSUME sole'
      PROVE  OneCloser' /\ SoleOK'
  <2>1. CASE UNCHANGED <<vars, sole>>
    BY <1>4, <2>1, SoleStutter DEF SoleInv
  <2>2. CASE Next /\ Counting
    <3>1. sole /\ Cardinality({t \in Threads : op'[t] = "FCLOSE"}) <= 1
      BY <1>4, <2>2 DEF Counting
    <3>2. OneCloser'
      <4> DEFINE S == {t \in Threads : op'[t] = "FCLOSE"}
      <4>1. IsFiniteSet(S)
        BY FS_Subset
      <4>2. \A t, u \in S : t = u
        <5> HIDE DEF S
        <5> QED
          BY <3>1, <4>1, AtMostOne DEF S
      <4> QED
        BY <4>2 DEF OneCloser
    <3> QED
      BY <2>2, <3>1, <3>2, StepSole DEF SoleInv
  <2> QED
    BY <2>1, <2>2
<1> QED
  BY <1>2, <1>3, <1>4 DEF SoleInv

LEMMA SoleInvariant ==
  ASSUME IsFiniteSet(Threads)
  PROVE  SoleSpec => []SoleInv
<1>1. Init /\ sole = TRUE => SoleInv
  <2>1. Init => Apart
    BY DEF Init, Apart
  <2> QED
    BY <2>1, InitTypeInv, InitSole DEF SoleInv
<1>2. SoleInv /\ [Next /\ Counting]_<<vars, sole>> => SoleInv'
  BY StepSoleInv
<1> QED
  BY <1>1, <1>2, PTL DEF SoleSpec, Counting

\* As long as no two FCLOSEs overlap, OpenedFiles never lists a descriptor
\* twice or one that the kernel may hand out again: however many threads
\* open, read and write while one closes, FDChcker lets nobody through to a
\* descriptor that close(2) has released.
THEOREM SoleTableIsSound ==
  ASSUME IsFiniteSet(Threads)
  PROVE  SoleSpec => []SoleTableSound
<1>1. SoleInv => SoleTableSound
  BY DEF SoleInv, SoleOK, TableInv, SoleTableSound
<1> QED
  BY <1>1, SoleInvariant, PTL

\* As long as no two FCLOSEs overlap, bIsClosing is set on a file's block only
\* while the FCLOSE that set it is under way: none gives up after setting it.
THEOREM SoleNeverPoisons ==
  ASSUME IsFiniteSet(Threads)
  PROVE  SoleSpec => []SoleNoPoisonedFile
<1>1. SoleInv => SoleNoPoisonedFile
  BY DEF SoleInv, SoleOK, SoleNoPoisonedFile
<1> QED
  BY <1>1, SoleInvariant, PTL

\* As long as no two FCLOSEs overlap, none erases beyond the end of OpenedFiles
\* or a node of FILE_ACCESS that is gone: the undefined behaviour of FCLOSE
\* needs two closers.
THEOREM SoleNeverCrashes ==
  ASSUME IsFiniteSet(Threads)
  PROVE  SoleSpec => [](sole => ~crashed)
<1>1. SoleInv => (sole => ~crashed)
  BY DEF SoleInv, SoleOK
<1> QED
  BY <1>1, SoleInvariant, PTL
=============================================================================
