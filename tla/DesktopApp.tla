------------------------------- MODULE DesktopApp -------------------------------
(* The desktop application's Rust side as one process: the IPC commands on the *)
(* main thread (DesktopDb) and the supervisor thread (AgentSupervisor), which  *)
(* share the database connection and the gateway URL, start together in the    *)
(* setup hook of lib.rs and end together with the process.                     *)
EXTENDS Naturals, Sequences

CONSTANTS Keys, Urls, Conflicts, Leftover, MaxWrites,
          Procs, MaxFaults

VARIABLES up, gateway_url, mutex,
          pc, rows, changes, synced, last_push_at, conflicts, written, atLaunch,
          pos, needs_restart, backoff, url, child, spawned,
          agents, orphans, faults

shared == <<up, gateway_url, mutex>>
dbOnly == <<pc, rows, changes, synced, last_push_at, conflicts, written, atLaunch>>
supOnly == <<pos, needs_restart, backoff, url, child, spawned,
             agents, orphans, faults>>
vars == <<shared, dbOnly, supOnly>>

Db == INSTANCE DesktopDb
Sup == INSTANCE AgentSupervisor

ASSUME UrlsAssumption == Db!NoUrl \notin Urls /\ Sup!Dead \notin Urls
ASSUME ProcsAssumption == Sup!NoProc \notin Procs
ASSUME NumbersAssumption == Leftover \in Nat /\ MaxWrites \in Nat /\ MaxFaults \in Nat

Init == Db!Init /\ Sup!Init

(* Mutant of Launch: the setup hook does not start the supervisor.             *)
LaunchWithoutSupervisor == Db!Launch /\ UNCHANGED supOnly

(* lib.rs: open the database, start the supervisor, then serve commands.       *)
Launch == Db!Launch /\ Sup!LaunchSupervisor /\ UNCHANGED <<agents, orphans, faults>>

Quit == Db!Quit /\ Sup!QuitSupervisor /\ Sup!Fault

MainThread == (Db!Command \/ Db!RecordChange) /\ UNCHANGED supOnly

SupervisorThread == Sup!Supervise /\ UNCHANGED dbOnly

AgentProcesses == (\E p \in Procs : Sup!AgentDies(p)) /\ UNCHANGED dbOnly

Next == Launch \/ Quit \/ MainThread \/ SupervisorThread \/ AgentProcesses

Spec == Init /\ [][Next]_vars

(* Both threads are scheduled; the supervisor gets the connection if it is     *)
(* free again and again.                                                       *)
FairSpec == /\ Spec
            /\ WF_vars(Db!RecordChange /\ UNCHANGED supOnly)
            /\ WF_vars(SupervisorThread)
            /\ SF_vars(Sup!ReadGateway /\ UNCHANGED dbOnly)

---------------------------------------------------------------------------------
(* With these commands beside it the supervisor still behaves as its own       *)
(* module says, so it keeps to one agent a session and to its backoff.         *)
SupervisorSpec == Sup!Spec

(* What its proof needs: a command under way belongs to a running application. *)
IdleWhenDown == ~ up => pc = "idle"

(* With the supervisor's thread beside them the commands still behave as their *)
(* own module says: the thread reads the URL through the same connection and   *)
(* changes nothing in the file, and never keeps it from them.                  *)
DbSpec == Db!Spec

(* The application gets its agent to run, as long as no command is stuck with  *)
(* the connection.                                                             *)
AgentComesBackUnlessStuck ==
  up ~> (~ up \/ pc = "get_client_id" \/ child \in Sup!Alive)

=================================================================================
