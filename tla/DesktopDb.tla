------------------------------- MODULE DesktopDb --------------------------------
(* The desktop application's local database (db.rs) behind its IPC commands    *)
(* (commands.rs).  There is one SQLite connection, in a std::sync::Mutex.  The *)
(* commands are synchronous, so Tauri runs them one after the other on the     *)
(* main thread; the supervisor thread of sync.rs reads the gateway URL, and    *)
(* nothing else, through the same mutex.                                       *)
(*                                                                             *)
(* A command that takes the mutex once is one step: nobody sees it halfway.    *)
(* The commands that write a row take it again in record_change, and then call *)
(* get_client_id, which takes it a third time while record_change still holds  *)
(* it.  std::sync::Mutex is not reentrant, so that call never returns: it has  *)
(* no action here, and the INSERT INTO _changes after it is never reached.     *)
EXTENDS Naturals, Sequences

CONSTANTS Keys,       \* <<entity, id>>: the rows of the three tables
          Urls,       \* gateway URLs set_gateway_url accepts
          Conflicts,  \* ids of the rows of _conflicts
          Leftover,   \* rows of _changes in the file the application opens
          MaxWrites   \* bound: row writes in a behaviour

NoUrl == "none"

ASSUME UrlsAssumption == NoUrl \notin Urls
ASSUME NumbersAssumption == Leftover \in Nat /\ MaxWrites \in Nat

VARIABLES
  up,            \* the application is running
  pc,            \* where the main thread is
  mutex,         \* Database.conn: free, or held by the main thread across steps
  rows,          \* work_orders, assets and helpdesk_requests
  changes,       \* _changes: the keys, by id
  synced,        \* ids of _changes with synced_at set
  last_push_at,  \* whether _sync_state.last_push_at is set
  conflicts,     \* _conflicts: whether each is resolved
  gateway_url,   \* _sync_state.gateway_url
  written,       \* history: the keys of the row writes committed
  atLaunch       \* history: how many there were when the application started

tables == <<rows, changes, synced, last_push_at, conflicts, gateway_url>>
thread == <<up, pc, mutex, atLaunch>>
vars == <<tables, thread, written>>

Ready == up /\ pc = "idle" /\ mutex = "free"

---------------------------------------------------------------------------------
(* A file with Leftover changes not yet pushed (none in a fresh install).      *)
Init ==
  /\ up = FALSE
  /\ pc = "idle"
  /\ mutex = "free"
  /\ rows = [k \in Keys |-> "absent"]
  /\ changes \in [1 .. Leftover -> Keys]
  /\ synced = {}
  /\ last_push_at = FALSE
  /\ conflicts \in [Conflicts -> {"open"}]
  /\ gateway_url = NoUrl
  /\ written = <<>>
  /\ atLaunch = 0

(* Database::open finds the tables of the last session, or creates them.       *)
Launch ==
  /\ ~ up
  /\ up' = TRUE
  /\ atLaunch' = Len(written)
  /\ UNCHANGED <<pc, mutex, tables, written>>

(* The process ends, at any point: the user closes it, or kills a frozen one.  *)
Quit ==
  /\ up
  /\ up' = FALSE
  /\ pc' = "idle"
  /\ mutex' = "free"
  /\ UNCHANGED <<tables, atLaunch, written>>

(* The list, get and status commands, and the write commands whose input is    *)
(* rejected or whose row is not there.                                         *)
ReadCommand == Ready /\ UNCHANGED vars

Write(k, state) ==
  /\ Ready
  /\ Len(written) < MaxWrites
  /\ rows' = [rows EXCEPT ![k] = state]
  /\ written' = Append(written, k)
  /\ pc' = "record"
  /\ UNCHANGED <<up, mutex, atLaunch,
                 changes, synced, last_push_at, conflicts, gateway_url>>

(* The INSERT of a row with a fresh UUID.                                      *)
Create(k) == rows[k] = "absent" /\ Write(k, "live")

CreateWorkOrder(k) == k[1] = "work_order" /\ Create(k)
CreateAsset(k) == k[1] = "asset" /\ Create(k)
CreateHelpdeskRequest(k) == k[1] = "helpdesk_request" /\ Create(k)

(* Mutant of UpdateWorkOrder: the row is written back as shown, not deleted.   *)
UpdateWorkOrderRevives(k) ==
  k[1] = "work_order" /\ rows[k] # "absent" /\ Write(k, "live")

(* update_work_order reads the row, soft-deleted or not, and writes it back;   *)
(* deleted_at is not among the columns it sets.  The two locks make one step:  *)
(* only the supervisor's read of the URL can come between them.                *)
UpdateWorkOrder(k) ==
  k[1] = "work_order" /\ rows[k] # "absent" /\ Write(k, rows[k])

(* UPDATE ... SET deleted_at ... WHERE deleted_at IS NULL.                     *)
Delete(k) == rows[k] = "live" /\ Write(k, "deleted")

DeleteWorkOrder(k) == k[1] = "work_order" /\ Delete(k)
DeleteAsset(k) == k[1] = "asset" /\ Delete(k)
DeleteHelpdeskRequest(k) == k[1] = "helpdesk_request" /\ Delete(k)

(* The part of record_change that is ever executed: it takes the mutex and     *)
(* waits for itself in get_client_id.                                          *)
RecordChange ==
  /\ pc = "record"
  /\ mutex = "free"
  /\ mutex' = "main"
  /\ pc' = "get_client_id"
  /\ UNCHANGED <<up, atLaunch, tables, written>>

SetGatewayUrl(url) ==
  /\ Ready
  /\ gateway_url' = url
  /\ UNCHANGED <<thread, rows, changes, synced, last_push_at, conflicts, written>>

(* Mutant of ResolveConflict: the action is stored in the flag.                *)
ResolveConflictStoresAction(c) ==
  /\ Ready
  /\ conflicts[c] = "open"
  /\ conflicts' = [conflicts EXCEPT ![c] = "use_mine"]
  /\ UNCHANGED <<thread, rows, changes, synced, last_push_at, gateway_url, written>>

(* resolve_conflict does the same for use_mine, use_cloud and merge.           *)
ResolveConflict(c) ==
  /\ Ready
  /\ conflicts[c] = "open"
  /\ conflicts' = [conflicts EXCEPT ![c] = "resolved"]
  /\ UNCHANGED <<thread, rows, changes, synced, last_push_at, gateway_url, written>>

(* sync_now sends nothing: mark_changes_synced sets synced_at of the ids the   *)
(* caller gives.  The UPDATEs are not in a transaction; one that fails ends    *)
(* the command, with the ids before it marked and last_push_at as it was.      *)
SyncNow(ids) ==
  /\ Ready
  /\ ids # {}
  /\ \/ synced' = synced \cup ids /\ last_push_at' = TRUE
     \/ /\ \E some \in SUBSET ids : synced' = synced \cup some
        /\ UNCHANGED last_push_at
  /\ UNCHANGED <<thread, rows, changes, conflicts, gateway_url, written>>

---------------------------------------------------------------------------------
Command ==
  \/ ReadCommand
  \/ \E k \in Keys :
       \/ CreateWorkOrder(k) \/ UpdateWorkOrder(k) \/ DeleteWorkOrder(k)
       \/ CreateAsset(k) \/ DeleteAsset(k)
       \/ CreateHelpdeskRequest(k) \/ DeleteHelpdeskRequest(k)
  \/ \E url \in Urls : SetGatewayUrl(url)
  \/ \E c \in Conflicts : ResolveConflict(c)
  \/ \E ids \in SUBSET DOMAIN changes : SyncNow(ids)

Next == Launch \/ Quit \/ Command \/ RecordChange

Spec == Init /\ [][Next]_vars

(* The main thread goes on with a command it has begun.                        *)
FairSpec == Spec /\ WF_vars(RecordChange)

---------------------------------------------------------------------------------
TypeOK ==
  /\ up \in BOOLEAN
  /\ pc \in {"idle", "record", "get_client_id"}
  /\ mutex \in {"free", "main"}
  /\ rows \in [Keys -> {"absent", "live", "deleted"}]
  /\ changes \in [1 .. Leftover -> Keys]
  /\ synced \subseteq 1 .. Leftover
  /\ last_push_at \in BOOLEAN
  /\ conflicts \in [Conflicts -> {"open", "resolved"}]
  /\ gateway_url \in Urls \cup {NoUrl}
  /\ written \in Seq(Keys)
  /\ atLaunch \in 0 .. Len(written)

(* A deleted row stays deleted, and a row never disappears: an UPDATE racing a *)
(* DELETE in the UI, which update_work_order does not check for, does not      *)
(* bring the row back.                                                         *)
DeletedStaysDeleted ==
  [][\A k \in Keys : /\ rows[k] = "deleted" => rows'[k] = "deleted"
                     /\ rows[k] # "absent" => rows'[k] # "absent"]_vars

(* The row of the n-th write is in _changes, by a change of these sessions.    *)
Recorded(n) ==
  /\ n <= Len(written)
  /\ \E id \in DOMAIN changes : id > Leftover /\ changes[id] = written[n]

(* Every row write of a session is recorded in _changes, as SYNC.md says,      *)
(* unless the application ends before it is: nothing is asked of the writes of *)
(* an earlier session.                                                         *)
EveryWriteRecorded ==
  \A n \in 1 .. MaxWrites :
    (up /\ n \in atLaunch + 1 .. Len(written)) ~> (~ up \/ Recorded(n))

=================================================================================
