---------------------------- MODULE DesktopAppProofs ----------------------------
(* The desktop application implements both its parts, the supervisor of        *)
(* AgentSupervisor and the commands of DesktopDb, and so keeps what is proved  *)
(* of each: proofs for every set of rows, URLs and processes.                  *)
EXTENDS DesktopApp, TLAPS

(* A command reads, sets the URL while nobody holds the connection, or leaves  *)
(* the connection and the URL alone.                                           *)
LEMMA CommandShared ==
  ASSUME Db!Command
  PROVE  /\ UNCHANGED <<up, mutex>>
         /\ \/ UNCHANGED gateway_url
            \/ up /\ mutex = "free" /\ \E u \in Urls : gateway_url' = u
<1>1. CASE Db!ReadCommand
  BY <1>1 DEF Db!ReadCommand, Db!vars, Db!tables, Db!thread
<1>2. ASSUME NEW k, NEW state, Db!Write(k, state)
      PROVE  UNCHANGED <<up, mutex, gateway_url>>
  BY <1>2 DEF Db!Write
<1>3. ASSUME NEW k, Db!Create(k) \/ Db!UpdateWorkOrder(k) \/ Db!Delete(k)
      PROVE  UNCHANGED <<up, mutex, gateway_url>>
  BY <1>2, <1>3 DEF Db!Create, Db!UpdateWorkOrder, Db!Delete
<1>4. ASSUME NEW u \in Urls, Db!SetGatewayUrl(u)
      PROVE  UNCHANGED <<up, mutex>> /\ up /\ mutex = "free" /\ gateway_url' = u
  BY <1>4 DEF Db!SetGatewayUrl, Db!Ready, Db!thread
<1>5. ASSUME NEW c \in Conflicts, Db!ResolveConflict(c)
      PROVE  UNCHANGED <<up, mutex, gateway_url>>
  BY <1>5 DEF Db!ResolveConflict, Db!thread
<1>6. ASSUME NEW ids, Db!SyncNow(ids)
      PROVE  UNCHANGED <<up, mutex, gateway_url>>
  BY <1>6 DEF Db!SyncNow, Db!thread
<1> QED
  BY <1>1, <1>3, <1>4, <1>5, <1>6
     DEF Db!Command, Db!CreateWorkOrder, Db!CreateAsset, Db!CreateHelpdeskRequest,
         Db!DeleteWorkOrder, Db!DeleteAsset, Db!DeleteHelpdeskRequest

(* A command begins while the application runs.                                *)
LEMMA CommandPlace ==
  ASSUME Db!Command
  PROVE  up \/ UNCHANGED <<up, pc>>
  BY DEF Db!Command, Db!ReadCommand, Db!CreateWorkOrder, Db!CreateAsset,
         Db!CreateHelpdeskRequest, Db!UpdateWorkOrder, Db!DeleteWorkOrder,
         Db!DeleteAsset, Db!DeleteHelpdeskRequest, Db!Create, Db!Delete, Db!Write,
         Db!SetGatewayUrl, Db!ResolveConflict, Db!SyncNow, Db!Ready

LEMMA IdleStep ==
  ASSUME IdleWhenDown, [Next]_vars
  PROVE  IdleWhenDown'
<1> USE DEF IdleWhenDown
<1>1. CASE Launch
  BY <1>1 DEF Launch, Db!Launch
<1>2. CASE Quit
  BY <1>2 DEF Quit, Db!Quit
<1>3. CASE Db!Command
  BY <1>3, CommandShared, CommandPlace
<1>4. CASE Db!RecordChange
  BY <1>4 DEF Db!RecordChange
<1>5. ASSUME Sup!Supervise, UNCHANGED dbOnly PROVE IdleWhenDown'
  BY <1>5 DEF dbOnly, Sup!Supervise, Sup!CheckNone, Sup!CheckExited,
              Sup!CheckRunning, Sup!CheckError, Sup!SpawnFails, Sup!ReadGateway,
              Sup!Exec, Sup!Store, Sup!Wake, Sup!Decide
<1>6. CASE AgentProcesses
  BY <1>6 DEF AgentProcesses, dbOnly, Sup!AgentDies, Sup!supervisor
<1>7. CASE UNCHANGED vars
  BY <1>7 DEF vars, shared, dbOnly
<1> QED
  BY <1>1, <1>2, <1>3, <1>4, <1>5, <1>6, <1>7
     DEF Next, MainThread, SupervisorThread

---------------------------------------------------------------------------------
(* Every step of the application is a step of the supervisor's module, or      *)
(* changes none of its variables.                                              *)
LEMMA SupervisorStep ==
  ASSUME IdleWhenDown, [Next]_vars
  PROVE  [Sup!Next]_(Sup!vars)
<1>1. CASE Launch
  <2>1. Sup!Launch
    BY <1>1 DEF Launch, Db!Launch, Db!tables, Sup!Launch, Sup!processes,
                Sup!database
  <2> QED
    BY <2>1 DEF Sup!Next
<1>2. CASE Quit
  <2>1. Sup!Quit
    BY <1>2 DEF Quit, Db!Quit, Db!tables, Sup!Quit
  <2> QED
    BY <2>1 DEF Sup!Next
<1>3. ASSUME Db!Command, UNCHANGED supOnly PROVE [Sup!Next]_(Sup!vars)
  <2>1. UNCHANGED <<Sup!supervisor, Sup!processes, faults, mutex>>
    BY <1>3, CommandShared DEF supOnly, Sup!supervisor, Sup!processes
  <2>2. CASE UNCHANGED gateway_url
    BY <2>1, <2>2 DEF Sup!vars, Sup!database
  <2>3. ASSUME NEW u \in Urls, up, mutex = "free", gateway_url' = u
        PROVE  Sup!Next
    <3>1. Sup!SetGatewayUrl(u)
      BY <2>1, <2>3 DEF Sup!SetGatewayUrl
    <3> QED
      BY <3>1 DEF Sup!Next, Sup!OtherThreads
  <2> QED
    BY <1>3, <2>2, <2>3, CommandShared
<1>4. ASSUME Db!RecordChange, UNCHANGED supOnly PROVE Sup!Next
  <2>1. Sup!TakeConnection
    BY <1>4 DEF Db!RecordChange, IdleWhenDown, Db!tables, supOnly,
                Sup!TakeConnection, Sup!supervisor, Sup!processes
  <2> QED
    BY <2>1 DEF Sup!Next, Sup!OtherThreads
<1>5. CASE SupervisorThread
  BY <1>5 DEF SupervisorThread, Sup!Next
<1>6. CASE AgentProcesses
  BY <1>6 DEF AgentProcesses, Sup!Next
<1>7. CASE UNCHANGED vars
  BY <1>7 DEF vars, shared, supOnly, Sup!vars, Sup!supervisor, Sup!processes,
              Sup!database
<1> QED
  BY <1>1, <1>2, <1>3, <1>4, <1>5, <1>6, <1>7 DEF Next, MainThread

(* The commands do to the connection and the URL nothing that the supervisor's *)
(* module does not allow other threads, so what is proved there holds here.    *)
THEOREM AppImplementsSupervisor == Spec => SupervisorSpec
<1>1. Init => IdleWhenDown /\ Sup!Init
  BY DEF Init, Db!Init, IdleWhenDown
<1> QED
  BY <1>1, IdleStep, SupervisorStep, PTL DEF Spec, SupervisorSpec, Sup!Spec

---------------------------------------------------------------------------------
(* What the supervisor's thread leaves alone.                                  *)
LEMMA SuperviseShared ==
  ASSUME Sup!Supervise
  PROVE  UNCHANGED <<up, mutex, gateway_url>>
  BY DEF Sup!Supervise, Sup!CheckNone, Sup!CheckExited, Sup!CheckRunning,
         Sup!CheckError, Sup!SpawnFails, Sup!ReadGateway, Sup!Exec, Sup!Store,
         Sup!Wake, Sup!Decide, Sup!database

(* Every step of the application is a step of the commands' module, or changes *)
(* none of its variables.                                                      *)
LEMMA DbStep ==
  ASSUME [Next]_vars
  PROVE  [Db!Next]_(Db!vars)
<1>1. ASSUME UNCHANGED <<up, mutex, gateway_url>>, UNCHANGED dbOnly
      PROVE  UNCHANGED Db!vars
  BY <1>1 DEF dbOnly, Db!vars, Db!tables, Db!thread
<1>2. CASE Launch \/ Quit \/ MainThread
  BY <1>2 DEF Launch, Quit, MainThread, Db!Next
<1>3. CASE SupervisorThread
  BY <1>1, <1>3, SuperviseShared DEF SupervisorThread
<1>4. CASE AgentProcesses
  BY <1>1, <1>4 DEF AgentProcesses, Sup!AgentDies, Sup!supervisor, Sup!database
<1>5. CASE UNCHANGED vars
  BY <1>1, <1>5 DEF vars, shared
<1> QED
  BY <1>2, <1>3, <1>4, <1>5 DEF Next

(* The supervisor does nothing to the connection or the file that the          *)
(* commands' module does not allow, so what is proved there holds here.        *)
THEOREM AppImplementsDb == Spec => DbSpec
<1>1. Init => Db!Init
  BY DEF Init
<1> QED
  BY <1>1, DbStep, PTL DEF Spec, DbSpec, Db!Spec

---------------------------------------------------------------------------------
(* The theorems of the two parts, with this module's variables for theirs.     *)
DbP == INSTANCE DesktopDbProofs
SupP == INSTANCE AgentSupervisorProofs

(* The commands' specification is the same by either name.                     *)
LEMMA SameDb == Db!Spec <=> DbP!Spec
  BY DEF Db!Spec, Db!Init, Db!Next, Db!vars, Db!tables, Db!thread,
         Db!Launch, Db!Quit, Db!Command, Db!RecordChange, Db!ReadCommand,
         Db!CreateWorkOrder, Db!UpdateWorkOrder, Db!DeleteWorkOrder,
         Db!CreateAsset, Db!DeleteAsset, Db!CreateHelpdeskRequest,
         Db!DeleteHelpdeskRequest, Db!Create, Db!Delete, Db!Write,
         Db!SetGatewayUrl, Db!ResolveConflict, Db!SyncNow, Db!Ready,
         Db!NoUrl, DbP!Spec, DbP!Init, DbP!Next, DbP!vars, DbP!tables,
         DbP!thread, DbP!Launch, DbP!Quit, DbP!Command, DbP!RecordChange,
         DbP!ReadCommand, DbP!CreateWorkOrder, DbP!UpdateWorkOrder,
         DbP!DeleteWorkOrder, DbP!CreateAsset, DbP!DeleteAsset,
         DbP!CreateHelpdeskRequest, DbP!DeleteHelpdeskRequest, DbP!Create,
         DbP!Delete, DbP!Write, DbP!SetGatewayUrl, DbP!ResolveConflict,
         DbP!SyncNow, DbP!Ready, DbP!NoUrl

(* The supervisor's specification, by either name.                            *)
LEMMA SameSupervisor == Sup!Spec <=> SupP!Spec
  BY DEF Sup!Spec, Sup!Init, Sup!Next, Sup!vars, Sup!supervisor,
         Sup!processes, Sup!database, Sup!Launch, Sup!LaunchSupervisor,
         Sup!Quit, Sup!QuitSupervisor, Sup!Fault, Sup!Alive, Sup!Supervise,
         Sup!OtherThreads, Sup!SetGatewayUrl, Sup!TakeConnection,
         Sup!ReleaseConnection, Sup!AgentDies, Sup!CheckNone,
         Sup!CheckExited, Sup!CheckRunning, Sup!CheckError, Sup!SpawnFails,
         Sup!ReadGateway, Sup!Exec, Sup!Store, Sup!Wake, Sup!Decide,
         Sup!Smaller, Sup!MaxBackoff, Sup!NoUrl, Sup!NoProc, Sup!Dead,
         SupP!Spec, SupP!Init, SupP!Next, SupP!vars, SupP!supervisor,
         SupP!processes, SupP!database, SupP!Launch, SupP!LaunchSupervisor,
         SupP!Quit, SupP!QuitSupervisor, SupP!Fault, SupP!Alive,
         SupP!Supervise, SupP!OtherThreads, SupP!SetGatewayUrl,
         SupP!TakeConnection, SupP!ReleaseConnection, SupP!AgentDies,
         SupP!CheckNone, SupP!CheckExited, SupP!CheckRunning,
         SupP!CheckError, SupP!SpawnFails, SupP!ReadGateway, SupP!Exec,
         SupP!Store, SupP!Wake, SupP!Decide, SupP!Smaller, SupP!MaxBackoff,
         SupP!NoUrl, SupP!NoProc, SupP!Dead

(* In the whole application, too, no command brings a deleted row back.        *)
THEOREM AppKeepsRows == Spec => Db!DeletedStaysDeleted
<1>1. DbP!UrlsAssumption /\ DbP!NumbersAssumption
  BY UrlsAssumption, NumbersAssumption
     DEF DbP!UrlsAssumption, DbP!NumbersAssumption, DbP!NoUrl, Db!NoUrl
<1>2. DbP!Spec => DbP!DeletedStaysDeleted
  BY <1>1, DbP!DeletedRows
<1>3. DbP!DeletedStaysDeleted <=> Db!DeletedStaysDeleted
  BY DEF DbP!DeletedStaysDeleted, Db!DeletedStaysDeleted, DbP!vars, DbP!tables,
         DbP!thread, Db!vars, Db!tables, Db!thread
<1> QED
  BY <1>2, <1>3, AppImplementsDb, SameDb, PTL DEF DbSpec

(* Nor do the real commands make the supervisor run two agents in a session,   *)
(* look at its agent less often, or leave more orphans than there are faults.  *)
THEOREM AppKeepsAgents ==
  Spec => [](Sup!OneAgentPerSession /\ Sup!WatchedClosely /\ Sup!OneOrphanPerFault)
<1>1. SupP!UrlsAssumption /\ SupP!ProcsAssumption /\ SupP!FaultsAssumption
  BY UrlsAssumption, ProcsAssumption, NumbersAssumption
     DEF SupP!UrlsAssumption, SupP!ProcsAssumption, SupP!FaultsAssumption,
         SupP!NoUrl, SupP!NoProc, SupP!Dead, Sup!NoProc, Sup!Dead, Db!NoUrl
<1>2. SupP!Spec => []SupP!OneAgentPerSession
  BY <1>1, SupP!OneAgent
<1>3. SupP!Spec => []SupP!WatchedClosely
  BY <1>1, SupP!CloselyWatched
<1>4. SupP!Spec => []SupP!OneOrphanPerFault
  BY <1>1, SupP!OrphansAreFaults
<1>5. /\ SupP!OneAgentPerSession <=> Sup!OneAgentPerSession
      /\ SupP!WatchedClosely <=> Sup!WatchedClosely
      /\ SupP!OneOrphanPerFault <=> Sup!OneOrphanPerFault
  BY DEF SupP!OneAgentPerSession, SupP!WatchedClosely, SupP!OneOrphanPerFault,
         Sup!OneAgentPerSession, Sup!WatchedClosely, Sup!OneOrphanPerFault,
         SupP!Cardinality, Sup!Cardinality, SupP!Alive, Sup!Alive, SupP!Dead,
         Sup!Dead, SupP!NoProc, Sup!NoProc
<1> QED
  BY <1>2, <1>3, <1>4, <1>5, AppImplementsSupervisor, SameSupervisor, PTL
     DEF SupervisorSpec

=================================================================================
