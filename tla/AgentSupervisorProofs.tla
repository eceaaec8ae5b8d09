------------------------- MODULE AgentSupervisorProofs --------------------------
(* Proofs about AgentSupervisor, for every set of processes and URLs and any   *)
(* number of failures, crashes and application exits.                          *)
EXTENDS AgentSupervisor, FiniteSetTheorems, TLAPS

(* The application's own variables, which a launch and an exit both reset.     *)
LocalsTyped ==
  /\ up \in BOOLEAN
  /\ pos \in {"off", "check", "spawn", "exec", "store", "sleep"}
  /\ needs_restart \in BOOLEAN
  /\ backoff \in 1 .. MaxBackoff
  /\ url \in Urls \cup {NoUrl}
  /\ child \in Procs \cup {NoProc}
  /\ spawned \in Procs \cup {NoProc}

LEMMA LocalsReset ==
  ASSUME LaunchSupervisor \/ QuitSupervisor
  PROVE  LocalsTyped'
<1>1. up' \in BOOLEAN /\ needs_restart' \in BOOLEAN
  BY DEF LaunchSupervisor, QuitSupervisor
<1>2. backoff' \in 1 .. MaxBackoff
  BY DEF LaunchSupervisor, QuitSupervisor, MaxBackoff
<1> QED
  BY <1>1, <1>2 DEF LaunchSupervisor, QuitSupervisor, LocalsTyped

(* The variables keep their types; the backoff stays within 1 .. MaxBackoff.   *)
THEOREM Typing == Spec => []TypeOK
<1>1. Init => TypeOK
  <2> SUFFICES ASSUME Init PROVE TypeOK
    OBVIOUS
  <2>1. backoff \in 1 .. MaxBackoff /\ faults \in 0 .. MaxFaults
    BY FaultsAssumption DEF Init, MaxBackoff
  <2>2. up \in BOOLEAN /\ needs_restart \in BOOLEAN
    BY DEF Init
  <2>3. agents \in [Procs -> Urls \cup {NoUrl, Dead}]
    BY DEF Init
  <2> QED
    BY <2>1, <2>2, <2>3 DEF Init, TypeOK
<1>2. TypeOK /\ [Next]_vars => TypeOK'
  <2> SUFFICES ASSUME TypeOK, [Next]_vars PROVE TypeOK'
    OBVIOUS
  <2> USE FaultsAssumption DEF TypeOK, Alive, MaxBackoff
  <2>1. CASE Launch
    <3>1. UNCHANGED <<agents, orphans, gateway_url, mutex, faults>>
      BY <2>1 DEF Launch, processes, database
    <3>2. LocalsTyped'
      BY <2>1, LocalsReset DEF Launch
    <3> QED
      BY <3>1, <3>2 DEF LocalsTyped
  <2>2. CASE Quit
    <3>1. agents' = agents /\ orphans' = Alive
      BY <2>2 DEF Quit, QuitSupervisor
    <3>2. gateway_url' = gateway_url /\ mutex' = "free" /\ faults' \in 0 .. MaxFaults
      BY <2>2 DEF Quit, Fault
    <3>3. LocalsTyped'
      BY <2>2, LocalsReset DEF Quit
    <3> QED
      BY <3>1, <3>2, <3>3 DEF LocalsTyped
  <2>3. CASE Supervise
    <3>1. CASE CheckNone
      BY <3>1 DEF CheckNone, Decide, database
    <3>2. CASE CheckExited
      BY <3>2 DEF CheckExited, Decide, database
    <3>3. CASE CheckRunning
      BY <3>3 DEF CheckRunning, Decide, database
    <3>4. CASE CheckError
      BY <3>4 DEF CheckError, Decide, database, Fault
    <3>5. CASE SpawnFails
      BY <3>5 DEF SpawnFails, Fault, processes, database
    <3>6. CASE ReadGateway
      BY <3>6 DEF ReadGateway, processes, database
    <3>7. CASE Exec
      <4>1. PICK p \in Procs \ Alive : /\ agents' = [agents EXCEPT ![p] = url]
                                       /\ spawned' = p
        BY <3>7 DEF Exec
      <4>2. agents' \in [Procs -> Urls \cup {NoUrl, Dead}]
        BY <4>1
      <4>3. \A q \in Alive : agents'[q] # Dead
        BY <4>1
      <4> QED
        BY <3>7, <4>1, <4>2, <4>3 DEF Exec, database
    <3>8. CASE Store
      BY <3>8 DEF Store, processes, database
    <3>9. CASE Wake
      BY <3>9 DEF Wake, Smaller, processes, database
    <3> QED
      BY <2>3, <3>1, <3>2, <3>3, <3>4, <3>5, <3>6, <3>7, <3>8, <3>9 DEF Supervise
  <2>4. CASE OtherThreads
    <3>1. CASE \E u \in Urls : SetGatewayUrl(u)
      BY <3>1 DEF SetGatewayUrl, supervisor, processes
    <3>2. CASE TakeConnection
      BY <3>2 DEF TakeConnection, supervisor, processes
    <3>3. CASE ReleaseConnection
      BY <3>3 DEF ReleaseConnection, supervisor, processes
    <3> QED
      BY <2>4, <3>1, <3>2, <3>3 DEF OtherThreads
  <2>5. ASSUME NEW p \in Procs, AgentDies(p) PROVE TypeOK'
    BY <2>5 DEF AgentDies, Fault, supervisor, database
  <2>6. CASE UNCHANGED vars
    BY <2>6 DEF vars, supervisor, processes, database
  <2> QED
    BY <2>1, <2>2, <2>3, <2>4, <2>5, <2>6 DEF Next
<1> QED
  BY <1>1, <1>2, PTL DEF Spec

---------------------------------------------------------------------------------
(* Every step keeps what the supervisor knows of its agents.                   *)
LEMMA HandleStep ==
  ASSUME TypeOK, HandleInv, [Next]_vars
  PROVE  HandleInv'
<1> USE DEF TypeOK, HandleInv, Alive
<1>1. CASE Launch
  BY <1>1 DEF Launch, LaunchSupervisor, processes, database
<1>2. CASE Quit
  BY <1>2 DEF Quit, QuitSupervisor
<1>3. CASE Supervise
  <2>1. CASE CheckNone
    BY <2>1 DEF CheckNone, Decide, database
  <2>2. CASE CheckExited
    BY <2>2 DEF CheckExited, Decide, database
  <2>3. CASE CheckRunning
    BY <2>3 DEF CheckRunning, Decide, database
  <2>4. CASE CheckError
    BY <2>4 DEF CheckError, Decide, database
  <2>5. CASE SpawnFails
    BY <2>5 DEF SpawnFails, processes, database
  <2>6. CASE ReadGateway
    BY <2>6 DEF ReadGateway, processes, database
  <2>7. CASE Exec
    <3>1. PICK p \in Procs \ Alive : /\ agents' = [agents EXCEPT ![p] = url]
                                     /\ spawned' = p
      BY <2>7 DEF Exec
    <3>2. Alive' \ orphans' \subseteq {p}
      BY <2>7, <3>1, ProcsAssumption DEF Exec
    <3> QED
      BY <2>7, <3>1, <3>2 DEF Exec
  <2>8. CASE Store
    BY <2>8 DEF Store, processes, database
  <2>9. CASE Wake
    BY <2>9 DEF Wake, processes, database
  <2> QED
    BY <1>3, <2>1, <2>2, <2>3, <2>4, <2>5, <2>6, <2>7, <2>8, <2>9 DEF Supervise
<1>4. CASE OtherThreads
  BY <1>4 DEF OtherThreads, SetGatewayUrl, TakeConnection, ReleaseConnection,
              supervisor, processes
<1>5. ASSUME NEW p \in Procs, AgentDies(p) PROVE HandleInv'
  BY <1>5 DEF AgentDies, supervisor, database
<1>6. CASE UNCHANGED vars
  BY <1>6 DEF vars, supervisor, processes, database
<1> QED
  BY <1>1, <1>2, <1>3, <1>4, <1>5, <1>6 DEF Next

(* A session never runs two agents whose handle it has: it spawns one only     *)
(* while `child` is empty, and `child` is emptied only when the agent has      *)
(* exited or its handle is given up.                                           *)
THEOREM OneAgent == Spec => []OneAgentPerSession
<1>1. Init => HandleInv
  BY DEF Init, HandleInv, Alive
<1>2. TypeOK /\ HandleInv => OneAgentPerSession
  BY ProcsAssumption DEF TypeOK, HandleInv, OneAgentPerSession, Alive
<1> QED
  BY <1>1, <1>2, HandleStep, Typing, PTL DEF Spec

---------------------------------------------------------------------------------
(* A supervised agent is looked at every two seconds or oftener.  HandleInv is *)
(* what excludes a failed spawn while there is a child.                        *)
THEOREM CloselyWatched == Spec => []WatchedClosely
<1>1. Init => HandleInv /\ BackoffInv
  BY DEF Init, HandleInv, BackoffInv, WatchedClosely, Alive
<1>2. TypeOK /\ HandleInv /\ BackoffInv /\ [Next]_vars => BackoffInv'
  <2> SUFFICES ASSUME TypeOK, HandleInv, BackoffInv, [Next]_vars
               PROVE  BackoffInv'
    OBVIOUS
  <2> USE DEF BackoffInv, WatchedClosely
  <2>1. backoff \in 1 .. MaxBackoff
    BY DEF TypeOK
  <2>2. CASE Launch \/ Quit
    BY <2>2 DEF Launch, LaunchSupervisor, Quit, QuitSupervisor
  <2>3. CASE CheckNone \/ CheckExited \/ CheckError
    BY <2>3 DEF CheckNone, CheckExited, CheckError, Decide
  <2>4. CASE CheckRunning
    BY <2>4 DEF CheckRunning, Decide
  <2>5. CASE SpawnFails \/ ReadGateway \/ Exec
    BY <2>5 DEF SpawnFails, ReadGateway, Exec, HandleInv
  <2>6. CASE Store
    BY <2>6 DEF Store
  <2>7. CASE Wake
    BY <2>1, <2>7 DEF Wake, Smaller, MaxBackoff
  <2>8. CASE UNCHANGED supervisor
    BY <2>8 DEF supervisor
  <2> QED
    BY <2>2, <2>3, <2>4, <2>5, <2>6, <2>7, <2>8
       DEF Next, Supervise, OtherThreads, SetGatewayUrl, TakeConnection,
           ReleaseConnection, AgentDies, vars
<1>3. BackoffInv => WatchedClosely
  BY DEF BackoffInv
<1> QED
  BY <1>1, <1>2, <1>3, HandleStep, Typing, PTL DEF Spec

---------------------------------------------------------------------------------
(* A count of the orphans makes sense only as long as they are finitely many.  *)
OrphansCounted == IsFiniteSet(orphans) /\ OneOrphanPerFault

(* A set that gains one element at most grows by one at most.                  *)
LEMMA GrowsByOne ==
  ASSUME NEW S, NEW T, NEW x, IsFiniteSet(S), T \subseteq S \cup {x}
  PROVE  IsFiniteSet(T) /\ Cardinality(T) <= Cardinality(S) + 1
<1> DEFINE Grown == S \cup {x}
<1>1. Cardinality(S) \in Nat
  BY FS_CardinalityType
<1>2. /\ IsFiniteSet(Grown)
      /\ \/ Cardinality(Grown) = Cardinality(S)
         \/ Cardinality(Grown) = Cardinality(S) + 1
  BY FS_AddElement
<1>3. /\ IsFiniteSet(T)
      /\ Cardinality(T) <= Cardinality(Grown)
  BY <1>2, FS_Subset
<1>4. Cardinality(T) \in Nat
  BY <1>3, FS_CardinalityType
<1> QED
  BY <1>1, <1>2, <1>3, <1>4

(* An exit of the application orphans the agent it has a handle of, and a      *)
(* failed try_wait the child; HandleInv says that is one agent at most.        *)
THEOREM OrphansAreFaults == Spec => []OneOrphanPerFault
<1>1. Init => HandleInv /\ OrphansCounted
  <2> SUFFICES ASSUME Init PROVE HandleInv /\ OrphansCounted
    OBVIOUS
  <2>1. IsFiniteSet(orphans) /\ Cardinality(orphans) = 0 /\ faults = 0
    BY FS_EmptySet DEF Init
  <2> QED
    BY <2>1 DEF Init, HandleInv, Alive, OrphansCounted, OneOrphanPerFault
<1>2. TypeOK /\ HandleInv /\ OrphansCounted /\ [Next]_vars => OrphansCounted'
  <2> SUFFICES ASSUME TypeOK, HandleInv, OrphansCounted, [Next]_vars
               PROVE  OrphansCounted'
    OBVIOUS
  <2>1. faults \in Nat /\ Cardinality(orphans) \in Nat
    BY FaultsAssumption, FS_CardinalityType DEF TypeOK, OrphansCounted
  <2>2. ASSUME faults' = faults + 1, NEW x, orphans' \subseteq orphans \cup {x}
        PROVE  OrphansCounted'
    <3>1. /\ IsFiniteSet(orphans')
          /\ Cardinality(orphans') <= Cardinality(orphans) + 1
      BY <2>2, GrowsByOne DEF OrphansCounted
    <3>2. Cardinality(orphans') \in Nat
      BY <3>1, FS_CardinalityType
    <3> QED
      BY <2>1, <2>2, <3>1, <3>2 DEF OrphansCounted, OneOrphanPerFault
  <2>3. CASE UNCHANGED <<orphans, faults>>
    BY <2>3 DEF OrphansCounted, OneOrphanPerFault
  <2>4. CASE Quit
    <3>1. faults' = faults + 1 /\ orphans' = Alive
      BY <2>4 DEF Quit, QuitSupervisor, Fault
    <3>2. PICK x : Alive \subseteq orphans \cup {x}
      BY ProcsAssumption DEF TypeOK, HandleInv, Alive
    <3> QED
      BY <2>2, <3>1, <3>2
  <2>5. CASE CheckError
    BY <2>2, <2>5 DEF CheckError, Fault
  <2>6. CASE SpawnFails
    BY <2>2, <2>6 DEF SpawnFails, processes, Fault
  <2>7. ASSUME NEW p \in Procs, AgentDies(p) PROVE OrphansCounted'
    BY <2>2, <2>7 DEF AgentDies, Fault
  <2>8. CASE Supervise /\ ~ CheckError /\ ~ SpawnFails
    BY <2>3, <2>8
       DEF Supervise, CheckNone, CheckExited, CheckRunning, ReadGateway, Exec,
           Store, Wake, processes
  <2> QED
    BY <2>3, <2>4, <2>5, <2>6, <2>7, <2>8
       DEF Next, Launch, OtherThreads, SetGatewayUrl, TakeConnection,
           ReleaseConnection, vars, processes
<1>3. OrphansCounted => OneOrphanPerFault
  BY DEF OrphansCounted
<1> QED
  BY <1>1, <1>2, <1>3, HandleStep, Typing, PTL DEF Spec

=================================================================================
