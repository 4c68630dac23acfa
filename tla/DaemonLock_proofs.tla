--------------------------- MODULE DaemonLock_proofs ---------------------------
(***************************************************************************)
(* The safety of the lock and of the files beside it, for any number of    *)
(* daemons and starts.                                                     *)
(***************************************************************************)
EXTENDS DaemonLock, TLAPS

USE NoneIsNoDaemon, StartsAreBounded

\* Nothing runs, and no file is there.
LEMMA InitInv == Init => LockInv
  BY DEF Init, LockInv, TypeOK, HolderStandsBetween, PidRemoved, StoresInUse, PidFileTrustworthy, NoForeignSocket, StaleNeverBlocks, Holding, Place

\* Only a daemon that finds the lock free comes to hold it.
LEMMA AcquireInv == ASSUME LockInv, NEW d \in Daemon, Acquire(d) PROVE LockInv'
<1>1. TypeOK'
  BY DEF LockInv, TypeOK, Place, Goto, Acquire, Available
<1>2. HolderStandsBetween' /\ PidRemoved' /\ StoresInUse'
  BY DEF LockInv, TypeOK, HolderStandsBetween, PidRemoved, StoresInUse, Holding, Goto, Acquire, Available
<1>3. PidFileTrustworthy'
  BY DEF LockInv, TypeOK, HolderStandsBetween, PidRemoved, PidFileTrustworthy, Holding, Goto, Acquire, Available
<1>4. NoForeignSocket' /\ StaleNeverBlocks'
  BY DEF LockInv, TypeOK, HolderStandsBetween, NoForeignSocket, StaleNeverBlocks, Holding, Goto, Acquire, Available
<1> QED  BY <1>1, <1>2, <1>3, <1>4 DEF LockInv

\* A refused daemon removes the PID file, and nothing else.
LEMMA RefuseInv == ASSUME LockInv, NEW d \in Daemon, Refuse(d) PROVE LockInv'
<1>1. TypeOK'
  BY DEF LockInv, TypeOK, Place, Goto, Refuse, NoFile
<1>2. HolderStandsBetween' /\ PidRemoved' /\ StoresInUse'
  BY DEF LockInv, TypeOK, HolderStandsBetween, PidRemoved, StoresInUse, Holding, Goto, Refuse, NoFile
<1>3. PidFileTrustworthy'
  BY DEF LockInv, TypeOK, HolderStandsBetween, PidRemoved, PidFileTrustworthy, Holding, Goto, Refuse, NoFile
<1>4. NoForeignSocket' /\ StaleNeverBlocks'
  BY DEF LockInv, TypeOK, HolderStandsBetween, NoForeignSocket, StaleNeverBlocks, Holding, Goto, Refuse, NoFile
<1> QED  BY <1>1, <1>2, <1>3, <1>4 DEF LockInv

\* The file names the holder.
LEMMA WritePidInv == ASSUME LockInv, NEW d \in Daemon, WritePid(d) PROVE LockInv'
<1>1. TypeOK'
  BY DEF LockInv, TypeOK, Place, Goto, WritePid
<1>2. HolderStandsBetween' /\ PidRemoved' /\ StoresInUse'
  BY DEF LockInv, TypeOK, HolderStandsBetween, PidRemoved, StoresInUse, Holding, Goto, WritePid
<1>3. PidFileTrustworthy'
  BY DEF LockInv, TypeOK, HolderStandsBetween, PidRemoved, PidFileTrustworthy, Holding, Goto, WritePid
<1>4. NoForeignSocket' /\ StaleNeverBlocks'
  BY DEF LockInv, TypeOK, HolderStandsBetween, NoForeignSocket, StaleNeverBlocks, Holding, Goto, WritePid
<1> QED  BY <1>1, <1>2, <1>3, <1>4 DEF LockInv

\* The holder opens the stores.
LEMMA OpenStoresInv == ASSUME LockInv, NEW d \in Daemon, OpenStores(d) PROVE LockInv'
<1>1. TypeOK'
  BY DEF LockInv, TypeOK, Place, Goto, OpenStores
<1>2. HolderStandsBetween' /\ PidRemoved' /\ StoresInUse'
  BY DEF LockInv, TypeOK, HolderStandsBetween, PidRemoved, StoresInUse, Holding, Goto, OpenStores
<1>3. PidFileTrustworthy'
  BY DEF LockInv, TypeOK, HolderStandsBetween, PidRemoved, PidFileTrustworthy, Holding, Goto, OpenStores
<1>4. NoForeignSocket' /\ StaleNeverBlocks'
  BY DEF LockInv, TypeOK, HolderStandsBetween, NoForeignSocket, StaleNeverBlocks, Holding, Goto, OpenStores
<1> QED  BY <1>1, <1>2, <1>3, <1>4 DEF LockInv

\* The holder has the path free before it binds.
LEMMA RemoveStaleInv == ASSUME LockInv, NEW d \in Daemon, RemoveStale(d) PROVE LockInv'
<1>1. TypeOK'
  BY DEF LockInv, TypeOK, Place, Goto, RemoveStale, AfterStale
<1>2. HolderStandsBetween' /\ PidRemoved' /\ StoresInUse'
  BY DEF LockInv, TypeOK, HolderStandsBetween, PidRemoved, StoresInUse, Holding, Goto, RemoveStale, AfterStale
<1>3. PidFileTrustworthy'
  BY DEF LockInv, TypeOK, HolderStandsBetween, PidRemoved, PidFileTrustworthy, Holding, Goto, RemoveStale, AfterStale
<1>4. NoForeignSocket' /\ StaleNeverBlocks'
  BY DEF LockInv, TypeOK, HolderStandsBetween, NoForeignSocket, StaleNeverBlocks, Holding, Goto, RemoveStale, AfterStale
<1> QED  BY <1>1, <1>2, <1>3, <1>4 DEF LockInv

\* The path is the holder's.
LEMMA BindInv == ASSUME LockInv, NEW d \in Daemon, Bind(d) PROVE LockInv'
<1>1. TypeOK'
  BY DEF LockInv, TypeOK, Place, Goto, Bind
<1>2. HolderStandsBetween' /\ PidRemoved' /\ StoresInUse'
  BY DEF LockInv, TypeOK, HolderStandsBetween, PidRemoved, StoresInUse, Holding, Goto, Bind
<1>3. PidFileTrustworthy'
  BY DEF LockInv, TypeOK, HolderStandsBetween, PidRemoved, PidFileTrustworthy, Holding, Goto, Bind
<1>4. NoForeignSocket' /\ StaleNeverBlocks'
  BY DEF LockInv, TypeOK, HolderStandsBetween, NoForeignSocket, StaleNeverBlocks, Holding, Goto, Bind
<1> QED  BY <1>1, <1>2, <1>3, <1>4 DEF LockInv

\* What failed has closed the stores.
LEMMA FailInv == ASSUME LockInv, NEW d \in Daemon, Fail(d) PROVE LockInv'
<1>1. TypeOK'
  BY DEF LockInv, TypeOK, Place, Goto, Fail
<1>2. HolderStandsBetween' /\ PidRemoved' /\ StoresInUse'
  BY DEF LockInv, TypeOK, HolderStandsBetween, PidRemoved, StoresInUse, Holding, Goto, Fail
<1>3. PidFileTrustworthy'
  BY DEF LockInv, TypeOK, HolderStandsBetween, PidRemoved, PidFileTrustworthy, Holding, Goto, Fail
<1>4. NoForeignSocket' /\ StaleNeverBlocks'
  BY DEF LockInv, TypeOK, HolderStandsBetween, NoForeignSocket, StaleNeverBlocks, Holding, Goto, Fail
<1> QED  BY <1>1, <1>2, <1>3, <1>4 DEF LockInv

\* A shutdown begins with no change to what others see.
LEMMA ShutdownInv == ASSUME LockInv, NEW d \in Daemon, Shutdown(d) PROVE LockInv'
<1>1. TypeOK'
  BY DEF LockInv, TypeOK, Place, Goto, Shutdown
<1>2. HolderStandsBetween' /\ PidRemoved' /\ StoresInUse'
  BY DEF LockInv, TypeOK, HolderStandsBetween, PidRemoved, StoresInUse, Holding, Goto, Shutdown
<1>3. PidFileTrustworthy'
  BY DEF LockInv, TypeOK, HolderStandsBetween, PidRemoved, PidFileTrustworthy, Holding, Goto, Shutdown
<1>4. NoForeignSocket' /\ StaleNeverBlocks'
  BY DEF LockInv, TypeOK, HolderStandsBetween, NoForeignSocket, StaleNeverBlocks, Holding, Goto, Shutdown
<1> QED  BY <1>1, <1>2, <1>3, <1>4 DEF LockInv

\* A late accept loop may take the path away from the one that serves, and gives it to nobody.
LEMMA LoopEndsInv == ASSUME LockInv, NEW d \in Daemon, LoopEnds(d) PROVE LockInv'
<1>1. TypeOK'
  BY DEF LockInv, TypeOK, Place, Goto, LoopEnds, Unlinked
<1>2. HolderStandsBetween' /\ PidRemoved' /\ StoresInUse'
  BY DEF LockInv, TypeOK, HolderStandsBetween, PidRemoved, StoresInUse, Holding, Goto, LoopEnds, Unlinked
<1>3. PidFileTrustworthy'
  BY DEF LockInv, TypeOK, HolderStandsBetween, PidRemoved, PidFileTrustworthy, Holding, Goto, LoopEnds, Unlinked
<1>4. NoForeignSocket' /\ StaleNeverBlocks'
  BY DEF LockInv, TypeOK, HolderStandsBetween, NoForeignSocket, StaleNeverBlocks, Holding, Goto, LoopEnds, Unlinked
<1> QED  BY <1>1, <1>2, <1>3, <1>4 DEF LockInv

\* A watcher may keep the stores open.
LEMMA CloseAllInv == ASSUME LockInv, NEW d \in Daemon, CloseAll(d) PROVE LockInv'
<1>1. TypeOK'
  BY DEF LockInv, TypeOK, Place, Goto, CloseAll, Unlinked, NextDrop
<1>2. HolderStandsBetween' /\ PidRemoved' /\ StoresInUse'
  BY DEF LockInv, TypeOK, HolderStandsBetween, PidRemoved, StoresInUse, Holding, Goto, CloseAll, Unlinked, NextDrop
<1>3. PidFileTrustworthy'
  BY DEF LockInv, TypeOK, HolderStandsBetween, PidRemoved, PidFileTrustworthy, Holding, Goto, CloseAll, Unlinked, NextDrop
<1>4. NoForeignSocket' /\ StaleNeverBlocks'
  BY DEF LockInv, TypeOK, HolderStandsBetween, NoForeignSocket, StaleNeverBlocks, Holding, Goto, CloseAll, Unlinked, NextDrop
<1> QED  BY <1>1, <1>2, <1>3, <1>4 DEF LockInv

\* The file is gone before the lock is.
LEMMA RemovePidInv == ASSUME LockInv, NEW d \in Daemon, RemovePid(d) PROVE LockInv'
<1>1. TypeOK'
  BY DEF LockInv, TypeOK, Place, Goto, RemovePid, NoFile
<1>2. HolderStandsBetween' /\ PidRemoved' /\ StoresInUse'
  BY DEF LockInv, TypeOK, HolderStandsBetween, PidRemoved, StoresInUse, Holding, Goto, RemovePid, NoFile
<1>3. PidFileTrustworthy'
  BY DEF LockInv, TypeOK, HolderStandsBetween, PidRemoved, PidFileTrustworthy, Holding, Goto, RemovePid, NoFile
<1>4. NoForeignSocket' /\ StaleNeverBlocks'
  BY DEF LockInv, TypeOK, HolderStandsBetween, NoForeignSocket, StaleNeverBlocks, Holding, Goto, RemovePid, NoFile
<1> QED  BY <1>1, <1>2, <1>3, <1>4 DEF LockInv

\* Nobody is named by the file any more, and the lock is free.
LEMMA ReleaseInv == ASSUME LockInv, NEW d \in Daemon, Release(d) PROVE LockInv'
<1>1. TypeOK'
  BY DEF LockInv, TypeOK, Place, Goto, Release
<1>2. HolderStandsBetween' /\ PidRemoved' /\ StoresInUse'
  BY DEF LockInv, TypeOK, HolderStandsBetween, PidRemoved, StoresInUse, Holding, Goto, Release
<1>3. PidFileTrustworthy'
  BY DEF LockInv, TypeOK, HolderStandsBetween, PidRemoved, PidFileTrustworthy, Holding, Goto, Release
<1>4. NoForeignSocket' /\ StaleNeverBlocks'
  BY DEF LockInv, TypeOK, HolderStandsBetween, NoForeignSocket, StaleNeverBlocks, Holding, Goto, Release
<1> QED  BY <1>1, <1>2, <1>3, <1>4 DEF LockInv

\* The last of the daemon's tasks end.
LEMMA ExitInv == ASSUME LockInv, NEW d \in Daemon, Exit(d) PROVE LockInv'
<1>1. TypeOK'
  BY DEF LockInv, TypeOK, Place, Goto, Exit, Unlinked
<1>2. HolderStandsBetween' /\ PidRemoved' /\ StoresInUse'
  BY DEF LockInv, TypeOK, HolderStandsBetween, PidRemoved, StoresInUse, Holding, Goto, Exit, Unlinked
<1>3. PidFileTrustworthy'
  BY DEF LockInv, TypeOK, HolderStandsBetween, PidRemoved, PidFileTrustworthy, Holding, Goto, Exit, Unlinked
<1>4. NoForeignSocket' /\ StaleNeverBlocks'
  BY DEF LockInv, TypeOK, HolderStandsBetween, NoForeignSocket, StaleNeverBlocks, Holding, Goto, Exit, Unlinked
<1> QED  BY <1>1, <1>2, <1>3, <1>4 DEF LockInv

\* The kernel frees the lock with its holder.
LEMMA CrashInv == ASSUME LockInv, NEW d \in Daemon, Crash(d) PROVE LockInv'
<1>1. TypeOK'
  BY DEF LockInv, TypeOK, Place, Goto, Crash
<1>2. HolderStandsBetween' /\ PidRemoved' /\ StoresInUse'
  BY DEF LockInv, TypeOK, HolderStandsBetween, PidRemoved, StoresInUse, Holding, Goto, Crash
<1>3. PidFileTrustworthy'
  BY DEF LockInv, TypeOK, HolderStandsBetween, PidRemoved, PidFileTrustworthy, Holding, Goto, Crash
<1>4. NoForeignSocket' /\ StaleNeverBlocks'
  BY DEF LockInv, TypeOK, HolderStandsBetween, NoForeignSocket, StaleNeverBlocks, Holding, Goto, Crash
<1> QED  BY <1>1, <1>2, <1>3, <1>4 DEF LockInv

LEMMA StutterInv == ASSUME LockInv, UNCHANGED vars PROVE LockInv'
  BY DEF LockInv, vars, TypeOK, HolderStandsBetween, PidRemoved, StoresInUse, PidFileTrustworthy, NoForeignSocket, StaleNeverBlocks

\* The invariant holds in every state, however daemons start, stop and crash.
THEOREM LockInvariance == Spec => []LockInv
<1>1. LockInv /\ [Next]_vars => LockInv'
  BY AcquireInv, RefuseInv, WritePidInv, OpenStoresInv, RemoveStaleInv, BindInv, FailInv,
     ShutdownInv, LoopEndsInv, CloseAllInv, RemovePidInv, ReleaseInv, ExitInv, CrashInv, StutterInv
     DEF Next, Start, Stop
<1> QED  BY InitInv, <1>1, PTL DEF Spec

\* The types of the state.
THEOREM LockTypes == Spec => []TypeOK
<1>1. LockInv => TypeOK
  BY DEF LockInv
<1> QED  BY LockInvariance, <1>1, PTL

\* A PID file never misleads about a running daemon.
THEOREM PidFileNamesHolder == Spec => []PidFileTrustworthy
<1>1. LockInv => PidFileTrustworthy
  BY DEF LockInv
<1> QED  BY LockInvariance, <1>1, PTL

\* Two daemons share the stores only while one of them exits: both would hold the lock.
THEOREM StoresNotShared == Spec => []StoresShared
<1>1. LockInv => StoresShared
  <2> SUFFICES ASSUME LockInv, NEW d \in stores, NEW e \in stores,
                      pc[d] # "exiting", pc[e] # "exiting"
               PROVE  d = e
    BY DEF StoresShared
  <2>1. d \in Daemon /\ e \in Daemon
    BY DEF LockInv, TypeOK
  <2>2. pc[d] \in Holding /\ pc[e] \in Holding
    BY DEF LockInv, StoresInUse, Holding
  <2> QED  BY <2>1, <2>2 DEF LockInv, HolderStandsBetween
<1> QED  BY LockInvariance, <1>1, PTL

\* No client of the daemon that serves is led to another one.
THEOREM OwnSocketOrNone == Spec => []NoForeignSocket
<1>1. LockInv => NoForeignSocket
  BY DEF LockInv
<1> QED  BY LockInvariance, <1>1, PTL

\* No file that a crash left behind keeps the next daemon from starting.
THEOREM StaleFilesHarmless == Spec => []StaleNeverBlocks
<1>1. LockInv => StaleNeverBlocks
  BY DEF LockInv
<1> QED  BY LockInvariance, <1>1, PTL
=============================================================================
