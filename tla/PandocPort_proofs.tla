--------------------------- MODULE PandocPort_proofs ---------------------------
(***************************************************************************)
(* The safety of the pandoc servers on one port, for any number of         *)
(* runtimes, processes, servers and health checks.                         *)
(***************************************************************************)
EXTENDS PandocPort, TLAPS

USE BoundsAssumption

\* The server with the port has not ended, and a server serves on the port.
PortHolder ==
  /\ port # None => server[port] \in {"serving", "killed"}
  /\ \A p \in Server : server[p] = "serving" => port = p

\* A runtime has a child from the moment it is being opened, and no longer than it is
\* open; a child was started.
ChildrenStarted ==
  \A r \in Runtimes : /\ phase[r] = "closed" <=> child[r] = None
                      /\ child[r] # None => server[child[r]] # "unborn"

\* No two runtimes have the same child.
OneEach == \A r, s \in Runtimes : child[r] = child[s] /\ child[r] # None => r = s

\* Who has answered once had the port.
AnswerersRan ==
  \A r \in Runtimes : /\ phase[r] = "open" => answered[r] # None
                      /\ answered[r] # None =>
                            server[answered[r]] \in {"serving", "killed", "exited"}

\* Nobody kills the child of a runtime that has not let it go.
ChildrenNotKilled == \A r \in Runtimes : child[r] # None => server[child[r]] # "killed"

PortInv ==
  /\ TypeOK /\ PortHolder /\ ChildrenStarted /\ OneEach
  /\ AnswerersRan /\ ChildrenNotKilled /\ ServedByAnswerer /\ NoStrayServer

\* No server has been started.
LEMMA InitInv == Init => PortInv
  BY DEF Init, PortInv, TypeOK, Server, None, Phase, State, PortHolder, ChildrenStarted, OneEach,
         AnswerersRan, ChildrenNotKilled, ServedByAnswerer, NoStrayServer, Alive

\* A new server is nobody's child yet, and answers nobody.
LEMMA OpenInv == ASSUME PortInv, NEW r \in Runtimes, Open(r) PROVE PortInv'
<1>1. TypeOK'
  BY DEF PortInv, TypeOK, Server, None, Phase, State, Open
<1>2. PortHolder'
  BY DEF PortInv, TypeOK, Server, None, Phase, State, PortHolder, ChildrenStarted, Open
<1>3. ChildrenStarted' /\ OneEach'
  BY DEF PortInv, TypeOK, Server, None, Phase, State, PortHolder, ChildrenStarted, OneEach, Open
<1>4. AnswerersRan'
  BY DEF PortInv, TypeOK, Server, None, Phase, State, PortHolder, AnswerersRan, Open
<1>5. ChildrenNotKilled'
  BY DEF PortInv, TypeOK, Server, None, Phase, State, PortHolder, ChildrenStarted, OneEach, ChildrenNotKilled, Open
<1>6. ServedByAnswerer'
  BY DEF PortInv, TypeOK, Server, None, Phase, State, PortHolder, ChildrenStarted, OneEach, AnswerersRan, ChildrenNotKilled, ServedByAnswerer, Alive, Open
<1>7. NoStrayServer'
  BY DEF PortInv, TypeOK, Server, None, Phase, State, ChildrenStarted, NoStrayServer, Alive, Open
<1> QED  BY <1>1, <1>2, <1>3, <1>4, <1>5, <1>6, <1>7 DEF PortInv

\* Only a free port is bound, and a server that finds it taken ends.
LEMMA BindInv == ASSUME PortInv, NEW p \in Server, Bind(p) PROVE PortInv'
<1>1. TypeOK'
  BY DEF PortInv, TypeOK, Server, None, Phase, State, Bind
<1>2. PortHolder'
  BY DEF PortInv, TypeOK, Server, None, Phase, State, PortHolder, ChildrenStarted, Bind
<1>3. ChildrenStarted' /\ OneEach'
  BY DEF PortInv, TypeOK, Server, None, Phase, State, PortHolder, ChildrenStarted, OneEach, Bind
<1>4. AnswerersRan'
  BY DEF PortInv, TypeOK, Server, None, Phase, State, PortHolder, AnswerersRan, Bind
<1>5. ChildrenNotKilled'
  BY DEF PortInv, TypeOK, Server, None, Phase, State, PortHolder, ChildrenStarted, OneEach, ChildrenNotKilled, Bind
<1>6. ServedByAnswerer'
  BY DEF PortInv, TypeOK, Server, None, Phase, State, PortHolder, ChildrenStarted, OneEach, AnswerersRan, ChildrenNotKilled, ServedByAnswerer, Alive, Bind
<1>7. NoStrayServer'
  BY DEF PortInv, TypeOK, Server, None, Phase, State, ChildrenStarted, NoStrayServer, Alive, Bind
<1> QED  BY <1>1, <1>2, <1>3, <1>4, <1>5, <1>6, <1>7 DEF PortInv

\* What ends was killed, and nobody's child is.
LEMMA EndInv == ASSUME PortInv, NEW p \in Server, End(p) PROVE PortInv'
<1>1. TypeOK'
  BY DEF PortInv, TypeOK, Server, None, Phase, State, End
<1>2. PortHolder'
  BY DEF PortInv, TypeOK, Server, None, Phase, State, PortHolder, ChildrenStarted, End
<1>3. ChildrenStarted' /\ OneEach'
  BY DEF PortInv, TypeOK, Server, None, Phase, State, PortHolder, ChildrenStarted, OneEach, End
<1>4. AnswerersRan'
  BY DEF PortInv, TypeOK, Server, None, Phase, State, PortHolder, AnswerersRan, End
<1>5. ChildrenNotKilled'
  BY DEF PortInv, TypeOK, Server, None, Phase, State, PortHolder, ChildrenStarted, OneEach, ChildrenNotKilled, End
<1>6. ServedByAnswerer'
  BY DEF PortInv, TypeOK, Server, None, Phase, State, PortHolder, ChildrenStarted, OneEach, AnswerersRan, ChildrenNotKilled, ServedByAnswerer, Alive, End
<1>7. NoStrayServer'
  BY DEF PortInv, TypeOK, Server, None, Phase, State, ChildrenStarted, NoStrayServer, Alive, End
<1> QED  BY <1>1, <1>2, <1>3, <1>4, <1>5, <1>6, <1>7 DEF PortInv

\* Whoever answers has the port.
LEMMA HealthCheckPassesInv == ASSUME PortInv, NEW r \in Runtimes, HealthCheckPasses(r) PROVE PortInv'
<1>1. TypeOK'
  BY DEF PortInv, TypeOK, Server, None, Phase, State, HealthCheckPasses
<1>2. PortHolder'
  BY DEF PortInv, TypeOK, Server, None, Phase, State, PortHolder, ChildrenStarted, HealthCheckPasses
<1>3. ChildrenStarted' /\ OneEach'
  BY DEF PortInv, TypeOK, Server, None, Phase, State, PortHolder, ChildrenStarted, OneEach, HealthCheckPasses
<1>4. AnswerersRan'
  BY DEF PortInv, TypeOK, Server, None, Phase, State, PortHolder, AnswerersRan, HealthCheckPasses
<1>5. ChildrenNotKilled'
  BY DEF PortInv, TypeOK, Server, None, Phase, State, PortHolder, ChildrenStarted, OneEach, ChildrenNotKilled, HealthCheckPasses
<1>6. ServedByAnswerer'
  BY DEF PortInv, TypeOK, Server, None, Phase, State, PortHolder, ChildrenStarted, OneEach, AnswerersRan, ChildrenNotKilled, ServedByAnswerer, Alive, HealthCheckPasses
<1>7. NoStrayServer'
  BY DEF PortInv, TypeOK, Server, None, Phase, State, ChildrenStarted, NoStrayServer, Alive, HealthCheckPasses
<1> QED  BY <1>1, <1>2, <1>3, <1>4, <1>5, <1>6, <1>7 DEF PortInv

\* The child of a runtime that is dropped is killed, and nobody else's.
LEMMA DropInv ==
  ASSUME PortInv, NEW r \in Runtimes, Drop(r), UNCHANGED <<port, orphans, crashes>> PROVE PortInv'
<1>1. TypeOK'
  BY DEF PortInv, TypeOK, Server, None, Phase, State, Drop, DropChild, Kill, Alive
<1>2. PortHolder'
  BY DEF PortInv, TypeOK, Server, None, Phase, State, PortHolder, ChildrenStarted, Drop, DropChild, Kill, Alive
<1>3. ChildrenStarted' /\ OneEach'
  BY DEF PortInv, TypeOK, Server, None, Phase, State, PortHolder, ChildrenStarted, OneEach, Drop, DropChild, Kill, Alive
<1>4. AnswerersRan'
  BY DEF PortInv, TypeOK, Server, None, Phase, State, PortHolder, AnswerersRan, Drop, DropChild, Kill, Alive
<1>5. ChildrenNotKilled'
  BY DEF PortInv, TypeOK, Server, None, Phase, State, PortHolder, ChildrenStarted, OneEach, ChildrenNotKilled, Drop, DropChild, Kill, Alive
<1>6. ServedByAnswerer'
  BY DEF PortInv, TypeOK, Server, None, Phase, State, PortHolder, ChildrenStarted, OneEach, AnswerersRan, ChildrenNotKilled, ServedByAnswerer, Drop, DropChild, Kill, Alive
<1>7. NoStrayServer'
  BY DEF PortInv, TypeOK, Server, None, Phase, State, ChildrenStarted, NoStrayServer, Drop, DropChild, Kill, Alive
<1> QED  BY <1>1, <1>2, <1>3, <1>4, <1>5, <1>6, <1>7 DEF PortInv

\* An opening that fails kills its own child only.
LEMMA HealthCheckFailsInv == ASSUME PortInv, NEW r \in Runtimes, HealthCheckFails(r) PROVE PortInv'
<1>1. CASE ~LastAttempt(r)
  <2>1. /\ attempts' = [attempts EXCEPT ![r] = @ + 1]
        /\ UNCHANGED <<phase, child, answered, server, port, orphans, crashes>>
    BY <1>1 DEF HealthCheckFails
  <2>2. attempts[r] + 1 \in 0 .. MaxAttempts - 1
    BY <1>1 DEF PortInv, TypeOK, LastAttempt
  <2> QED
    BY <2>1, <2>2 DEF PortInv, TypeOK, PortHolder, ChildrenStarted, OneEach, AnswerersRan, ChildrenNotKilled,
                      ServedByAnswerer, NoStrayServer, Alive
<1>2. CASE LastAttempt(r)
  <2>1. Drop(r) /\ UNCHANGED <<port, orphans, crashes>>
    BY <1>2 DEF HealthCheckFails
  <2> QED  BY <2>1, DropInv
<1> QED  BY <1>1, <1>2

\* So does a runtime that is closed.
LEMMA CloseInv == ASSUME PortInv, NEW r \in Runtimes, Close(r) PROVE PortInv'
<1> QED  BY DropInv DEF Close

\* A process that is killed leaves its children as orphans, and takes nothing else along.
LEMMA CrashInv == ASSUME PortInv, NEW h, Crash(h) PROVE PortInv'
<1>1. TypeOK'
  <2> DEFINE lost == {r \in Runtimes : Host[r] = h /\ phase[r] # "closed"}
  <2>1. orphans' \subseteq Server
    BY DEF PortInv, TypeOK, Crash
  <2>2. crashes' \in 0 .. MaxCrashes
    BY DEF PortInv, TypeOK, Crash
  <2>3. /\ child' = [r \in Runtimes |-> IF r \in lost THEN None ELSE child[r]]
        /\ phase' = [r \in Runtimes |-> IF r \in lost THEN "closed" ELSE phase[r]]
        /\ attempts' = [r \in Runtimes |-> IF r \in lost THEN 0 ELSE attempts[r]]
        /\ answered' = [r \in Runtimes |-> IF r \in lost THEN None ELSE answered[r]]
        /\ UNCHANGED <<server, port>>
    BY DEF Crash
  <2>4. 0 \in 0 .. MaxAttempts - 1
    OBVIOUS
  <2> QED  BY <2>1, <2>2, <2>3, <2>4 DEF PortInv, TypeOK, None, Phase
<1>2. PortHolder'
  BY DEF PortInv, TypeOK, Server, None, Phase, State, PortHolder, ChildrenStarted, Crash
<1>3. ChildrenStarted' /\ OneEach'
  BY DEF PortInv, TypeOK, Server, None, Phase, State, PortHolder, ChildrenStarted, OneEach, Crash
<1>4. AnswerersRan'
  BY DEF PortInv, TypeOK, Server, None, Phase, State, PortHolder, AnswerersRan, Crash
<1>5. ChildrenNotKilled'
  BY DEF PortInv, TypeOK, Server, None, Phase, State, PortHolder, ChildrenStarted, OneEach, ChildrenNotKilled, Crash
<1>6. ServedByAnswerer'
  BY DEF PortInv, TypeOK, Server, None, Phase, State, PortHolder, ChildrenStarted, OneEach, AnswerersRan, ChildrenNotKilled, ServedByAnswerer, Alive, Crash
<1>7. NoStrayServer'
  BY DEF PortInv, TypeOK, Server, None, Phase, State, ChildrenStarted, NoStrayServer, Alive, Crash
<1> QED  BY <1>1, <1>2, <1>3, <1>4, <1>5, <1>6, <1>7 DEF PortInv

\* No step breaks the invariant.
LEMMA StepInv == PortInv /\ [Next]_vars => PortInv'
<1> SUFFICES ASSUME PortInv, [Next]_vars PROVE PortInv'  OBVIOUS
<1>1. CASE UNCHANGED vars
  BY <1>1 DEF vars, PortInv, TypeOK, PortHolder, ChildrenStarted, OneEach, AnswerersRan, ChildrenNotKilled,
              ServedByAnswerer, NoStrayServer, Alive
<1>2. ASSUME NEW r \in Runtimes, Open(r) \/ HealthCheckPasses(r) \/ HealthCheckFails(r) \/ Close(r) PROVE PortInv'
  BY <1>2, OpenInv, HealthCheckPassesInv, HealthCheckFailsInv, CloseInv
<1>3. ASSUME NEW p \in Server, Bind(p) \/ End(p) PROVE PortInv'
  BY <1>3, BindInv, EndInv
<1>4. ASSUME NEW r \in Runtimes, Crash(Host[r]) PROVE PortInv'
  BY <1>4, CrashInv
<1> QED  BY <1>1, <1>2, <1>3, <1>4 DEF Next

\* The invariant holds in every reachable state.
THEOREM PortInvariance == Spec => []PortInv
<1> QED  BY InitInv, StepInv, PTL DEF Spec

\* Every reachable state is well typed.
THEOREM PortTypes == Spec => []TypeOK
<1>1. PortInv => TypeOK  BY DEF PortInv
<1> QED  BY <1>1, PortInvariance, PTL

\* Neither an opening that fails nor a child that lost the port leaves a server behind.
THEOREM NoServerLeftBehind == Spec => []NoStrayServer
<1>1. PortInv => NoStrayServer  BY DEF PortInv
<1> QED  BY <1>1, PortInvariance, PTL

\* An open runtime is served as long as the server that answered it runs.
THEOREM AnswererServes == Spec => []ServedByAnswerer
<1>1. PortInv => ServedByAnswerer  BY DEF PortInv
<1> QED  BY <1>1, PortInvariance, PTL

\* A server that serves is stopped by the runtime that started it, and by no other.
LEMMA StepOwner ==
  PortInv /\ [Next]_vars =>
    [\A p \in Server : server[p] = "serving" /\ server'[p] # "serving" =>
                          \E r \in Runtimes : child[r] = p /\ child'[r] = None]_vars
<1> SUFFICES ASSUME PortInv, Next, NEW p \in Server, server[p] = "serving", server'[p] # "serving"
             PROVE \E r \in Runtimes : child[r] = p /\ child'[r] = None
  BY DEF vars
<1>1. ASSUME NEW r \in Runtimes, Drop(r) PROVE \E s \in Runtimes : child[s] = p /\ child'[s] = None
  BY <1>1 DEF PortInv, TypeOK, Drop, DropChild, Kill
<1>2. ASSUME NEW r \in Runtimes, Open(r) \/ HealthCheckPasses(r) PROVE FALSE
  BY <1>2 DEF PortInv, TypeOK, Open, HealthCheckPasses
<1>3. ASSUME NEW r \in Runtimes, HealthCheckFails(r) \/ Close(r) PROVE Drop(r)
  BY <1>3 DEF HealthCheckFails, Close
<1>4. ASSUME NEW q \in Server, Bind(q) \/ End(q) PROVE FALSE
  BY <1>4 DEF PortInv, TypeOK, Bind, End
<1>5. ASSUME NEW r \in Runtimes, Crash(Host[r]) PROVE FALSE
  BY <1>5 DEF Crash
<1> QED  BY <1>1, <1>2, <1>3, <1>4, <1>5 DEF Next

(* No runtime stops a server that another one started.                     *)
THEOREM OwnServerOnly == Spec => OnlyOwnerStops
<1> QED  BY PortInvariance, StepOwner, PTL DEF Spec, OnlyOwnerStops
=============================================================================
