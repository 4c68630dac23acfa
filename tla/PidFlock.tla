------------------------------ MODULE PidFlock ------------------------------
(***************************************************************************)
(* The single-instance lock on macOS (daemon/lock.rs): an flock on the PID *)
(* file, which belongs to the file and not to its path.  The holder        *)
(* removes the path before it closes the file.                             *)
(***************************************************************************)
EXTENDS Naturals, FiniteSets

CONSTANTS Daemon,   \* processes that run the daemon
          NoFile,
          MaxFiles  \* bound on the files created in a run

VARIABLES
    path,     \* the file the PID path names, a number, or NoFile
    files,    \* how many have been created: 1 .. files
    file,     \* the file each daemon has open
    holders,  \* the daemons that have got the lock and run
    leaving   \* those among them that have removed the path

vars == <<path, files, file, holders, leaving>>

Init ==
    /\ path = NoFile /\ files = 0
    /\ file = [d \in Daemon |-> NoFile]
    /\ holders = {} /\ leaving = {}

\* open with create(true)
Open(d) ==
    /\ file[d] = NoFile
    /\ \/ path # NoFile /\ UNCHANGED <<path, files>>
       \/ path = NoFile /\ files < MaxFiles /\ files' = files + 1 /\ path' = files + 1
    /\ file' = [file EXCEPT ![d] = path']
    /\ UNCHANGED <<holders, leaving>>

Locked(f) == \E d \in holders : file[d] = f

\* flock with LOCK_NB: the lock, or the end of the process, which leaves the path alone.
Flock(d) ==
    /\ file[d] # NoFile /\ d \notin holders
    /\ \/ ~Locked(file[d]) /\ holders' = holders \cup {d} /\ UNCHANGED file
       \/ Locked(file[d]) /\ file' = [file EXCEPT ![d] = NoFile] /\ UNCHANGED holders
    /\ UNCHANGED <<path, files, leaving>>

\* DaemonLock::drop
RemovePath(d) ==
    /\ d \in holders \ leaving
    /\ path' = NoFile
    /\ leaving' = leaving \cup {d}
    /\ UNCHANGED <<files, file, holders>>

\* Its fields: the file is closed, by a crash as well.
CloseFile(d) ==
    /\ file[d] # NoFile
    /\ file' = [file EXCEPT ![d] = NoFile]
    /\ holders' = holders \ {d} /\ leaving' = leaving \ {d}
    /\ UNCHANGED <<path, files>>

Next == \E d \in Daemon : Open(d) \/ Flock(d) \/ RemovePath(d) \/ CloseFile(d)

Spec == Init /\ [][Next]_vars

\* "Ensures only one daemon instance runs at a time": at most one daemon has got the
\* lock and not begun to give it up.  But whoever has opened the file before its holder
\* removed the path gets the lock of a file that no path names, and the next daemon
\* creates another.
SingleInstance == Cardinality(holders \ leaving) <= 1
=============================================================================
