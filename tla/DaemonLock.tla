------------------------------ MODULE DaemonLock ------------------------------
(***************************************************************************)
(* Daemons that are started and stopped over one state directory, on Linux *)
(* (daemon/lock.rs, socket.rs, mod.rs): the lock is a name in the kernel's *)
(* abstract socket namespace, which the kernel frees with its holder; the  *)
(* PID file and the socket file stay behind whoever crashes.               *)
(*                                                                         *)
(* Two references keep the guard of the socket file alive: daemon::run has *)
(* one and the accept loop, a task nobody waits for, the other.            *)
(***************************************************************************)
EXTENDS Naturals

CONSTANTS Daemon,    \* processes that run the daemon
          None,      \* nobody; no file
          MaxStarts  \* bound on the starts in a run

ASSUME NoneIsNoDaemon == None \notin Daemon
ASSUME StartsAreBounded == MaxStarts \in Nat

VARIABLES
    pc,      \* where each daemon stands
    held,    \* who holds the lock
    pid,     \* whom the PID file names
    socket,  \* whose listener the socket file belongs to
    loops,   \* the daemons whose accept loop has not ended
    stores,  \* the daemons that use the stores of the workspaces
    starts   \* starts so far

vars == <<pc, held, pid, socket, loops, stores, starts>>

Place == {"off", "refused", "locked", "open", "unlink", "bind", "serve", "closing",
          "remove", "release", "exiting"}

TypeOK ==
    /\ pc \in [Daemon -> Place]
    /\ held \in Daemon \cup {None}
    /\ pid \in Daemon \cup {None}
    /\ socket \in Daemon \cup {None}
    /\ loops \in SUBSET Daemon
    /\ stores \in SUBSET Daemon
    /\ starts \in 0 .. MaxStarts

Init ==
    /\ pc = [d \in Daemon |-> "off"]
    /\ held = None /\ pid = None /\ socket = None
    /\ loops = {} /\ stores = {} /\ starts = 0

Goto(d, place) == pc' = [pc EXCEPT ![d] = place]

(***************************************************************************)
(* Start                                                                   *)
(***************************************************************************)
\* bind() of the abstract name.
SlipAvailable == pid = None
Available == held = None

Acquire(d) ==
    /\ pc[d] = "off" /\ starts < MaxStarts
    /\ starts' = starts + 1
    /\ \/ Available /\ held' = d /\ Goto(d, "locked")
       \/ ~Available /\ Goto(d, "refused") /\ UNCHANGED held
    /\ UNCHANGED <<pid, socket, loops, stores>>

\* DaemonAlreadyRunning: the lock that was not acquired is dropped, and its Drop
\* removes the PID file whoever it names.
NoFile == None

Refuse(d) ==
    /\ pc[d] = "refused"
    /\ pid' = NoFile
    /\ Goto(d, "off")
    /\ UNCHANGED <<held, socket, loops, stores, starts>>

\* write_pid_file, whose errors are ignored.
WritePid(d) ==
    /\ pc[d] = "locked"
    /\ pid' \in {d, pid}
    /\ Goto(d, "open")
    /\ UNCHANGED <<held, socket, loops, stores, starts>>

OpenStores(d) ==
    /\ pc[d] = "open"
    /\ stores' = stores \cup {d}
    /\ Goto(d, "unlink")
    /\ UNCHANGED <<held, pid, socket, loops, starts>>

\* bind_socket removes what it finds at the path...
SlipAfterStale == socket
AfterStale == None

RemoveStale(d) ==
    /\ pc[d] = "unlink"
    /\ socket' = AfterStale
    /\ Goto(d, "bind")
    /\ UNCHANGED <<held, pid, loops, stores, starts>>

\* ... and binds; the accept loop starts.
Bind(d) ==
    /\ pc[d] = "bind" /\ socket = None
    /\ socket' = d
    /\ loops' = loops \cup {d}
    /\ Goto(d, "serve")
    /\ UNCHANGED <<held, pid, stores, starts>>

\* No signal handlers, no listener or no permissions: what run has set up is
\* dropped, the workspaces before the lock.
Fail(d) ==
    /\ pc[d] \in {"unlink", "bind"}
    /\ stores' = stores \ {d}
    /\ Goto(d, "remove")
    /\ UNCHANGED <<held, pid, socket, loops, starts>>

(***************************************************************************)
(* Stop                                                                    *)
(***************************************************************************)
\* The soft token is cancelled; connections are drained.
Shutdown(d) ==
    /\ pc[d] = "serve"
    /\ Goto(d, "closing")
    /\ UNCHANGED <<held, pid, socket, loops, stores, starts>>

\* The last guard of the socket file unlinks it, whoever's it is by then.
Unlinked(last) == IF last THEN None ELSE socket

\* The accept loop sees the token.
LoopEnds(d) ==
    /\ d \in loops /\ pc[d] \in {"closing", "remove", "release", "exiting"}
    /\ loops' = loops \ {d}
    /\ socket' = Unlinked(pc[d] # "closing")
    /\ UNCHANGED <<pc, held, pid, stores, starts>>

\* Workspaces with a watcher are not closed (CloseAll in Workspaces); then
\* drop(guard).
SlipNext == "release"
NextDrop == "remove"

CloseAll(d) ==
    /\ pc[d] = "closing"
    /\ stores' \in {stores, stores \ {d}}
    /\ socket' = Unlinked(d \notin loops)
    /\ Goto(d, NextDrop)
    /\ UNCHANGED <<held, pid, loops, starts>>

\* drop(lock): first DaemonLock::drop, then its fields.
RemovePid(d) ==
    /\ pc[d] = "remove"
    /\ pid' = NoFile
    /\ Goto(d, "release")
    /\ UNCHANGED <<held, socket, loops, stores, starts>>

Release(d) ==
    /\ pc[d] = "release"
    /\ held' = None
    /\ Goto(d, "exiting")
    /\ UNCHANGED <<pid, socket, loops, stores, starts>>

\* The executor drops the tasks that are left.
Exit(d) ==
    /\ pc[d] = "exiting"
    /\ loops' = loops \ {d} /\ socket' = Unlinked(d \in loops)
    /\ stores' = stores \ {d}
    /\ Goto(d, "off")
    /\ UNCHANGED <<held, pid, starts>>

\* Killed: the kernel closes the lock's socket and the listener, files stay.
Crash(d) ==
    /\ pc[d] # "off"
    /\ held' = IF held = d THEN None ELSE held
    /\ loops' = loops \ {d} /\ stores' = stores \ {d}
    /\ Goto(d, "off")
    /\ UNCHANGED <<pid, socket, starts>>

Start(d) == Acquire(d) \/ Refuse(d) \/ WritePid(d) \/ OpenStores(d) \/ RemoveStale(d) \/ Bind(d) \/ Fail(d)
Stop(d)  == Shutdown(d) \/ LoopEnds(d) \/ CloseAll(d) \/ RemovePid(d) \/ Release(d) \/ Exit(d)
Next == \E d \in Daemon : Start(d) \/ Stop(d) \/ Crash(d)

Spec == Init /\ [][Next]_vars

(***************************************************************************)
(* Properties that hold                                                    *)
(***************************************************************************)
\* A PID file that names a running daemon names the one that holds the lock (the
\* file of a crashed one may stay until its number is used again, and a refused one may
\* have removed it).  It holds because the file is removed before the lock's socket is
\* closed.
PidFileTrustworthy == pid # None /\ pc[pid] # "off" => held = pid \/ pc[pid] = "refused"

\* Two daemons have the stores open only while one of them is about to exit: its
\* workspaces with a watcher are still open after the lock is released.
StoresShared ==
    \A d, e \in stores : d = e \/ pc[d] = "exiting" \/ pc[e] = "exiting"

\* While a daemon serves, clients never reach another one through the socket file.
NoForeignSocket == \A d \in Daemon : pc[d] = "serve" => socket \in {d, None}

\* Whatever crashes have left behind, the path is free when it is to be bound: only
\* the holder of the lock creates it, and it has just unlinked it.
StaleNeverBlocks == \A d \in Daemon : pc[d] = "bind" => socket = None

(***************************************************************************)
(* What they rest on; with them it is inductive.                           *)
(***************************************************************************)
\* The lock is held by the daemon that stands between its acquisition and its release.
Holding == {"locked", "open", "unlink", "bind", "serve", "closing", "remove", "release"}
HolderStandsBetween == \A d \in Daemon : pc[d] \in Holding <=> held = d

\* The PID file is gone when the lock is about to be released.
PidRemoved == \A d \in Daemon : pc[d] = "release" => pid = None

\* A daemon uses the stores from their opening to its exit.
StoresInUse ==
    \A d \in stores : pc[d] \in {"unlink", "bind", "serve", "closing", "remove", "release", "exiting"}

LockInv ==
    /\ TypeOK /\ HolderStandsBetween /\ PidRemoved /\ StoresInUse
    /\ PidFileTrustworthy /\ NoForeignSocket /\ StaleNeverBlocks
=============================================================================
