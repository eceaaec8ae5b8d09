---------------------------- MODULE AgentSupervisor -----------------------------
(* The desktop application's supervisor of the sync agent (sync.rs, started by *)
(* lib.rs): a thread that looks at the agent process, starts one when there is *)
(* none, and sleeps for `backoff` seconds in between.  SyncManager::stop has   *)
(* no caller, so `running` stays true for as long as the application runs, and *)
(* an agent outlives the application that spawned it.                          *)
(*                                                                             *)
(* The database connection and the gateway URL in it are shared with the IPC   *)
(* commands.  Standing alone, this module lets other threads hold the          *)
(* connection for a while and change the URL as they please.                   *)
EXTENDS Naturals, FiniteSets

CONSTANTS Procs,       \* agent processes
          Urls,        \* gateway URLs
          MaxFaults    \* bound: failures and application exits in a behaviour

NoUrl == "none"    \* no URL set: the agent falls back to http://localhost:8080
NoProc == "none"
Dead == "dead"

ASSUME ProcsAssumption == NoProc \notin Procs
ASSUME UrlsAssumption == Dead \notin Urls /\ NoUrl \notin Urls
ASSUME FaultsAssumption == MaxFaults \in Nat

MaxBackoff == 30

VARIABLES
  up,             \* the application is running
  pos,            \* where the supervisor thread is
  needs_restart,  \* the local of that name
  backoff,        \* the sleep between two rounds, in seconds
  url,            \* the gateway URL read for the agent to be spawned
  child,          \* SyncManager.child
  spawned,        \* a process spawned and not yet stored in child
  agents,         \* each agent process: dead, or the gateway URL it was given
  orphans,        \* agents nothing has a handle of any more
  gateway_url,    \* _sync_state.gateway_url
  mutex,          \* Database.conn
  faults          \* failures and exits so far

supervisor == <<up, pos, needs_restart, backoff, url, child, spawned>>
processes == <<agents, orphans>>
database == <<gateway_url, mutex>>
vars == <<supervisor, processes, database, faults>>

Alive == {p \in Procs : agents[p] # Dead}
Smaller(m, n) == IF m <= n THEN m ELSE n

Fault == faults < MaxFaults /\ faults' = faults + 1

---------------------------------------------------------------------------------
Init ==
  /\ up = FALSE
  /\ pos = "off"
  /\ needs_restart = FALSE
  /\ backoff = 1
  /\ url = NoUrl
  /\ child = NoProc
  /\ spawned = NoProc
  /\ agents = [p \in Procs |-> Dead]
  /\ orphans = {}
  /\ gateway_url = NoUrl
  /\ mutex = "free"
  /\ faults = 0

(* The Tauri setup hook: a SyncManager with no child, and its thread.          *)
LaunchSupervisor ==
  /\ up' = TRUE
  /\ pos' = "check"
  /\ needs_restart' = FALSE
  /\ backoff' = 1
  /\ url' = NoUrl
  /\ child' = NoProc
  /\ spawned' = NoProc

Launch ==
  /\ ~ up
  /\ LaunchSupervisor
  /\ UNCHANGED <<processes, database, faults>>

(* The application ends.  Its threads are gone; the agents are not.            *)
QuitSupervisor ==
  /\ up' = FALSE
  /\ pos' = "off"
  /\ needs_restart' = FALSE
  /\ backoff' = 1
  /\ url' = NoUrl
  /\ child' = NoProc
  /\ spawned' = NoProc
  /\ orphans' = Alive
  /\ UNCHANGED agents

Quit ==
  /\ up
  /\ Fault
  /\ QuitSupervisor
  /\ gateway_url' = gateway_url
  /\ mutex' = "free"

---------------------------------------------------------------------------------
(* A round: look at the child, under the lock of `child`.                      *)
Decide(restart) ==
  /\ needs_restart' = restart
  /\ pos' = IF restart THEN "spawn" ELSE "sleep"
  /\ UNCHANGED <<up, backoff, url, spawned, agents, database>>

CheckNone ==
  /\ pos = "check"
  /\ child = NoProc
  /\ Decide(TRUE)
  /\ UNCHANGED <<child, orphans, faults>>

(* Mutant of CheckExited: the exit is seen but no restart is asked for.        *)
CheckExitedOnly ==
  /\ pos = "check"
  /\ child # NoProc
  /\ child \notin Alive
  /\ Decide(FALSE)
  /\ UNCHANGED <<child, orphans, faults>>

CheckExited ==
  /\ pos = "check"
  /\ child # NoProc
  /\ child \notin Alive
  /\ child' = NoProc
  /\ Decide(TRUE)
  /\ UNCHANGED <<orphans, faults>>

(* Mutant of CheckRunning: a running child is restarted.                       *)
CheckRunningRestarts ==
  /\ pos = "check"
  /\ child \in Alive
  /\ Decide(TRUE)
  /\ UNCHANGED <<child, orphans, faults>>

CheckRunning ==
  /\ pos = "check"
  /\ child \in Alive
  /\ Decide(FALSE)
  /\ UNCHANGED <<child, orphans, faults>>

(* try_wait fails: the handle is dropped, whatever the process does.           *)
CheckError ==
  /\ pos = "check"
  /\ child # NoProc
  /\ child' = NoProc
  /\ orphans' = orphans \cup ({child} \cap Alive)
  /\ Decide(TRUE)
  /\ Fault

(* spawn_sync_agent returns an error: no binary among the candidates, or       *)
(* Command::spawn fails after the URL is read.                                 *)
SpawnFails ==
  /\ pos \in {"spawn", "exec"}
  /\ Fault
  /\ pos' = "sleep"
  /\ UNCHANGED <<up, needs_restart, backoff, url, child, spawned>>
  /\ UNCHANGED <<processes, database>>

(* Mutant of ReadGateway: the guard of the connection is kept while the agent   *)
(* is spawned.                                                                 *)
ReadGatewayKeepsLock ==
  /\ pos = "spawn"
  /\ mutex = "free"
  /\ url' = gateway_url
  /\ mutex' = "main"
  /\ pos' = "exec"
  /\ UNCHANGED <<up, needs_restart, backoff, child, spawned, gateway_url>>
  /\ UNCHANGED <<processes, faults>>

(* get_gateway_url: waits for the database connection.                         *)
ReadGateway ==
  /\ pos = "spawn"
  /\ mutex = "free"
  /\ url' = gateway_url
  /\ pos' = "exec"
  /\ UNCHANGED <<up, needs_restart, backoff, child, spawned>>
  /\ UNCHANGED <<processes, database, faults>>

(* Command::spawn: the process runs, with the URL in its environment.          *)
Exec ==
  /\ pos = "exec"
  /\ \E p \in Procs \ Alive :
       /\ agents' = [agents EXCEPT ![p] = url]
       /\ spawned' = p
  /\ pos' = "store"
  /\ UNCHANGED <<up, needs_restart, backoff, url, child>>
  /\ UNCHANGED <<orphans, database, faults>>

(* Mutant of Store: the backoff is not reset.                                  *)
StoreKeepsBackoff ==
  /\ pos = "store"
  /\ child' = spawned
  /\ spawned' = NoProc
  /\ pos' = "sleep"
  /\ UNCHANGED <<up, needs_restart, backoff, url, processes, database, faults>>

(* Only now is_running and the next round can see it.                          *)
Store ==
  /\ pos = "store"
  /\ child' = spawned
  /\ spawned' = NoProc
  /\ backoff' = 1
  /\ pos' = "sleep"
  /\ UNCHANGED <<up, needs_restart, url, processes, database, faults>>

(* Mutant of Wake: the backoff is not capped.                                  *)
WakeUncapped ==
  /\ pos = "sleep"
  /\ backoff' = IF needs_restart THEN backoff * 2 ELSE backoff
  /\ pos' = "check"
  /\ UNCHANGED <<up, needs_restart, url, child, spawned>>
  /\ UNCHANGED <<processes, database, faults>>

(* The sleep is over.                                                          *)
Wake ==
  /\ pos = "sleep"
  /\ backoff' = IF needs_restart THEN Smaller(backoff * 2, MaxBackoff) ELSE backoff
  /\ pos' = "check"
  /\ UNCHANGED <<up, needs_restart, url, child, spawned>>
  /\ UNCHANGED <<processes, database, faults>>

(* An agent process exits (log.Fatalf in its main) or is killed.               *)
AgentDies(p) ==
  /\ p \in Alive
  /\ Fault
  /\ agents' = [agents EXCEPT ![p] = Dead]
  /\ orphans' = orphans \ {p}
  /\ UNCHANGED <<supervisor, database>>

---------------------------------------------------------------------------------
(* Other threads of the application.                                           *)
SetGatewayUrl(u) ==
  /\ up
  /\ mutex = "free"
  /\ gateway_url' = u
  /\ UNCHANGED <<mutex, supervisor, processes, faults>>

TakeConnection ==
  /\ up
  /\ mutex = "free"
  /\ mutex' = "main"
  /\ UNCHANGED <<gateway_url, supervisor, processes, faults>>

ReleaseConnection ==
  /\ up
  /\ mutex = "main"
  /\ mutex' = "free"
  /\ UNCHANGED <<gateway_url, supervisor, processes, faults>>

---------------------------------------------------------------------------------
Supervise == \/ CheckNone \/ CheckExited \/ CheckRunning \/ CheckError
             \/ SpawnFails \/ ReadGateway \/ Exec \/ Store \/ Wake

OtherThreads == \/ \E u \in Urls : SetGatewayUrl(u)
                \/ TakeConnection
                \/ ReleaseConnection

Next == \/ Launch \/ Quit \/ Supervise \/ OtherThreads
        \/ \E p \in Procs : AgentDies(p)

Spec == Init /\ [][Next]_vars

---------------------------------------------------------------------------------
TypeOK ==
  /\ up \in BOOLEAN
  /\ pos \in {"off", "check", "spawn", "exec", "store", "sleep"}
  /\ needs_restart \in BOOLEAN
  /\ backoff \in 1 .. MaxBackoff
  /\ url \in Urls \cup {NoUrl}
  /\ child \in Procs \cup {NoProc}
  /\ spawned \in Procs \cup {NoProc}
  /\ agents \in [Procs -> Urls \cup {NoUrl, Dead}]
  /\ orphans \subseteq Alive
  /\ gateway_url \in Urls \cup {NoUrl}
  /\ mutex \in {"free", "main"}
  /\ faults \in 0 .. MaxFaults

(* A session of the application never runs two agents at once, unless try_wait *)
(* failed and its handle was given up: it spawns one only when it has seen the *)
(* last one exit, and between the spawn and the store nothing looks at `child`.*)
OneAgentPerSession == \A p, q \in Alive \ orphans : p = q

(* While an agent is supervised it is looked at every two seconds or oftener,  *)
(* however long the backoff had grown before it could be spawned.              *)
WatchedClosely == pos \in {"sleep", "check"} /\ child # NoProc => backoff <= 2

(* Each failure or exit leaves at most one agent running that nothing can stop *)
(* any more: however often the application ends, and whatever it was doing     *)
(* then, the agents do not pile up faster than the failures.                   *)
OneOrphanPerFault == Cardinality(orphans) <= faults

(* What the proofs of these need.  An agent is known to the supervisor as  *)
(* the child, or as the process it has just spawned, and never as both.        *)
HandleInv ==
  /\ Alive \ orphans \subseteq {child, spawned}
  /\ pos \in {"off", "spawn", "exec", "store"} => child = NoProc
  /\ pos # "store" => spawned = NoProc
  /\ ~ up => pos = "off"

(* The backoff is doubled at most once after the spawn that set it to 1.       *)
BackoffInv ==
  /\ WatchedClosely
  /\ pos = "sleep" /\ child # NoProc /\ needs_restart => backoff = 1

=================================================================================
