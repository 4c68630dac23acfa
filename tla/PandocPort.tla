----------------------------- MODULE PandocPort -----------------------------
(***************************************************************************)
(* The pandoc servers of pandoc_mgr.rs: every Runtime starts one as a      *)
(* child process on the one configured port, takes any answer on that port *)
(* for its own server's, and kills its own child when it is closed.        *)
(*                                                                         *)
(* Runtimes live in processes (the daemon, or a program that opens a       *)
(* Runtime by itself); Host says in which.  When a process is killed its   *)
(* Runtimes are gone, but nothing is dropped and their children go on.     *)
(*                                                                         *)
(* Definitions named Slip... are plausible slips in the definition that    *)
(* follows them; no specification uses them.                               *)
(***************************************************************************)
EXTENDS Naturals, FiniteSets

CONSTANTS
  Runtimes,     \* runtimes that may be open at one time
  Host,         \* Host[r]: the process r lives in
  MaxServers,   \* bound: servers ever started
  MaxAttempts,  \* health checks before open gives up, 10 in the code
  MaxCrashes    \* bound: processes killed

ASSUME BoundsAssumption ==
  MaxServers \in Nat /\ MaxAttempts \in Nat \ {0} /\ MaxCrashes \in Nat

Server == 1 .. MaxServers
None == 0

VARIABLES
  phase,     \* phase[r]: "closed", "opening" or "open"
  child,     \* child[r]: PandocManager.process, or None
  attempts,  \* attempts[r]: failed health checks of this opening
  answered,  \* history: the server that answered r's health check
  server,    \* server[p]: what became of server process p
  port,      \* the server bound to the port, or None
  orphans,   \* history: children of killed processes
  crashes    \* processes killed

vars == <<phase, child, attempts, answered, server, port, orphans, crashes>>

Phase == {"closed", "opening", "open"}
(* A killed server holds the port until the kernel has ended it.           *)
State == {"unborn", "starting", "serving", "killed", "exited"}

TypeOK ==
  /\ phase \in [Runtimes -> Phase]
  /\ child \in [Runtimes -> Server \cup {None}]
  /\ attempts \in [Runtimes -> 0 .. MaxAttempts - 1]
  /\ answered \in [Runtimes -> Server \cup {None}]
  /\ server \in [Server -> State]
  /\ port \in Server \cup {None}
  /\ orphans \subseteq Server
  /\ crashes \in 0 .. MaxCrashes

Init ==
  /\ phase = [r \in Runtimes |-> "closed"]
  /\ child = [r \in Runtimes |-> None]
  /\ attempts = [r \in Runtimes |-> 0]
  /\ answered = [r \in Runtimes |-> None]
  /\ server = [p \in Server |-> "unborn"]
  /\ port = None
  /\ orphans = {}
  /\ crashes = 0

-----------------------------------------------------------------------------
(* Runtime::open, PandocManager::start up to the health check.  A spawn    *)
(* that fails leaves everything as it was.                                 *)
Open(r) ==
  /\ phase[r] = "closed"
  /\ \E p \in Server :
       /\ server[p] = "unborn"
       /\ \A q \in Server : q < p => server[q] # "unborn"
       /\ server' = [server EXCEPT ![p] = "starting"]
       /\ child' = [child EXCEPT ![r] = p]
  /\ phase' = [phase EXCEPT ![r] = "opening"]
  /\ UNCHANGED <<attempts, answered, port, orphans, crashes>>

(* The server binds the port, or finds it taken and exits. *)
Bind(p) ==
  /\ server[p] = "starting"
  /\ IF port = None
       THEN port' = p /\ server' = [server EXCEPT ![p] = "serving"]
       ELSE port' = port /\ server' = [server EXCEPT ![p] = "exited"]
  /\ UNCHANGED <<phase, child, attempts, answered, orphans, crashes>>

(* start_kill *)
Alive(p) == server[p] \in {"starting", "serving"}
Kill(p) == [q \in Server |-> IF q = p /\ Alive(q) THEN "killed" ELSE server[q]]

(* ... and the kernel ends it. *)
End(p) ==
  /\ server[p] = "killed"
  /\ server' = [server EXCEPT ![p] = "exited"]
  /\ port' = IF port = p THEN None ELSE port
  /\ UNCHANGED <<phase, child, attempts, answered, orphans, crashes>>

(* GET /version: whoever has the port may answer, a server that was killed *)
(* a moment ago included; ...                                              *)
SlipHealthCheckPasses(r) ==
  /\ phase[r] = "opening"
  /\ Alive(child[r])
  /\ answered' = [answered EXCEPT ![r] = child[r]]
  /\ phase' = [phase EXCEPT ![r] = "open"]
  /\ attempts' = [attempts EXCEPT ![r] = 0]
  /\ UNCHANGED <<child, server, port, orphans, crashes>>
HealthCheckPasses(r) ==
  /\ phase[r] = "opening"
  /\ port # None
  /\ answered' = [answered EXCEPT ![r] = port]
  /\ phase' = [phase EXCEPT ![r] = "open"]
  /\ attempts' = [attempts EXCEPT ![r] = 0]
  /\ UNCHANGED <<child, server, port, orphans, crashes>>

(* ... or nobody answers in time.  After the last attempt open returns an  *)
(* error, which drops the manager and kills the child.                     *)
SlipDropChild(r) == phase[r] = "open"
DropChild(r) == child[r] # None

Drop(r) ==
  /\ server' = IF DropChild(r) THEN Kill(child[r]) ELSE server
  /\ child' = [child EXCEPT ![r] = None]
  /\ phase' = [phase EXCEPT ![r] = "closed"]
  /\ attempts' = [attempts EXCEPT ![r] = 0]
  /\ answered' = [answered EXCEPT ![r] = None]

LastAttempt(r) == attempts[r] + 1 = MaxAttempts

SlipHealthCheckFails(r) == phase[r] = "opening" /\ UNCHANGED vars
HealthCheckFails(r) ==
  /\ phase[r] = "opening"
  /\ IF LastAttempt(r)
       THEN Drop(r)
       ELSE /\ attempts' = [attempts EXCEPT ![r] = @ + 1]
            /\ UNCHANGED <<phase, child, answered, server>>
  /\ UNCHANGED <<port, orphans, crashes>>

(* Runtime::close, or its drop. *)
Close(r) ==
  /\ phase[r] = "open"
  /\ Drop(r)
  /\ UNCHANGED <<port, orphans, crashes>>

(* A process is killed with all its Runtimes. *)
Crash(h) ==
  /\ crashes < MaxCrashes
  /\ crashes' = crashes + 1
  /\ LET lost == {r \in Runtimes : Host[r] = h /\ phase[r] # "closed"}
     IN /\ lost # {}
        /\ orphans' = orphans \cup ({child[r] : r \in lost} \ {None})
        /\ child' = [r \in Runtimes |-> IF r \in lost THEN None ELSE child[r]]
        /\ phase' = [r \in Runtimes |-> IF r \in lost THEN "closed" ELSE phase[r]]
        /\ attempts' = [r \in Runtimes |-> IF r \in lost THEN 0 ELSE attempts[r]]
        /\ answered' = [r \in Runtimes |-> IF r \in lost THEN None ELSE answered[r]]
  /\ UNCHANGED <<server, port>>

HealthCheck(r) == HealthCheckPasses(r) \/ HealthCheckFails(r)

Next ==
  \/ \E r \in Runtimes : Open(r) \/ HealthCheckPasses(r) \/ HealthCheckFails(r) \/ Close(r)
  \/ \E p \in Server : Bind(p) \/ End(p)
  \/ \E r \in Runtimes : Crash(Host[r])

Spec == Init /\ [][Next]_vars

(* start's loop goes on by itself, and the kernel ends what was killed and *)
(* runs what was started.                                                  *)
Fairness ==
  /\ \A r \in Runtimes : WF_vars(HealthCheck(r))
  /\ \A p \in Server : WF_vars(Bind(p)) /\ WF_vars(End(p))
FairSpec == Spec /\ Fairness

-----------------------------------------------------------------------------
(* Every server that runs is the child of a Runtime that is open or being  *)
(* opened, or was left by a process that was killed: neither an opening    *)
(* that fails nor a child that lost the port leaves one behind.            *)
NoStrayServer ==
  \A p \in Server : Alive(p) => p \in orphans \/ \E r \in Runtimes : child[r] = p

(* No Runtime stops the server another one has started and relies on: a    *)
(* server stops serving only when the Runtime that started it lets it go.  *)
OnlyOwnerStops ==
  [][\A p \in Server :
       server[p] = "serving" /\ server'[p] # "serving" =>
          \E r \in Runtimes : child[r] = p /\ child'[r] = None]_vars

(* An open Runtime is served as long as the server that answered its       *)
(* health check runs, and if that is its own child, until it is closed     *)
(* itself.  (If it is another's, that one may be closed first, and unless  *)
(* its own child has not tried to bind yet, nothing serves it again before *)
(* the next Runtime is opened.)                                            *)
ServedByAnswerer ==
  \A r \in Runtimes :
     phase[r] = "open" =>
        /\ Alive(answered[r]) => port = answered[r]
        /\ answered[r] = child[r] => server[child[r]] = "serving"

(* An opening ends, with a server or with an error.                        *)
OpeningEnds == \A r \in Runtimes : phase[r] = "opening" ~> phase[r] # "opening"
=============================================================================
