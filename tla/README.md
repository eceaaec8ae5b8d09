# TLA+ models of the RaymondGray platform

This directory holds TLA+ models of the repository's programs, the TLC
configurations that check them on small instances, and TLAPS proofs of the
properties that matter most. Source paths below are relative to `src/`.

    tlc -workers 2 -config AgentFaults.cfg MCSyncAgent.tla
    tlapm SyncAgentProofs.tla   # and the other five modules named ...Proofs

## The system

An offline-first facilities-management platform. A Windows desktop application
(Tauri: React front end, Rust core, SQLite) lets people work without a network.
The Rust core supervises a separate Go process, the sync agent, that pushes the
local changes through an API gateway to three backend services. A mobile
application has a queue of its own.

| Component | State | Operations | Talks to |
|---|---|---|---|
| Sync agent (Go), `rg-sync-agent` | `_changes.synced_at`, `_sync_state.last_push_at`; in memory one batch | tick, read a batch, POST by service, mark, (pull is empty) | SQLite file; gateway over HTTP |
| Desktop database, `rg-desktop-windows/src-tauri/src/db.rs`, `commands.rs` | `work_orders`, `assets`, `helpdesk_requests`, `_changes`, `_conflicts`, `_sync_state`, one connection behind a mutex | 22 IPC commands | front end (IPC), supervisor (mutex) |
| Supervisor, `sync.rs`, `lib.rs` | `child`, `running`, the local `backoff` | look at the child, spawn, back off | operating system; database (gateway URL) |
| Desktop front end (React), `rg-desktop-windows/src` | the views' lists, dialogs and forms; the polled status, the toast, the login screen | load, edit, confirm, save, delete, resolve, poll, log in, update | IPC commands; over HTTP an identity service (8080) and the service at 8082 it posts the token to |
| API gateway (Go), `rg-api-gateway` | none | authenticate, proxy | backends |
| Work order service (Go) and SLA engine | `work_orders` in PostgreSQL | CRUD; every minute escalate what is overdue, publish to Redis | PostgreSQL, Redis |
| CMMS service (.NET) | assets, properties | create an asset (and the default property); hourly maintenance sweep | PostgreSQL |
| Helpdesk service (Python) | requests, bookings | create; queue a notification | PostgreSQL, Celery on Redis |
| Field operations app (Flutter) | `work_orders`, `sync_queue` | insert, upload the queue | gateway |
| Report engine (Ruby) | none | one SQL aggregate | PostgreSQL |
| IoT simulation (C) | none | connect with retries, publish readings | MQTT |
| Scripts, compose file, release workflow | none | build and deploy | — |

### What is hard in it

- *The agent.* It works through a batch in many steps (read, one POST per
  service in random order, one UPDATE per row). A crash, a lost answer, a
  refusal, a failed UPDATE or a second agent can come between any two. There may
  well be a second agent: nothing stops the one an earlier session spawned.
- *The database mutex.* `std::sync::Mutex` is not reentrant, and
  `record_change` calls `get_client_id` while it holds it.
- *The supervisor.* It spawns in several steps, waits for the database in the
  middle of them, and stores the handle last.
- *The front end.* No button is disabled while its call is in flight (the
  login's is), calls are answered in any order, an answer changes whatever dialog
  and form are open by then, and a view that is gone is answered too. `showToast`
  is a new function at every render of `App`, every view's load depends on it,
  and so every render of `App` makes the mounted view load again.
- *The backends.* Two instances of one service, check-then-act on rows, and a
  commit followed by a publication that may be lost.

### What makes each component correct

- Agent: only accepted rows are marked; every row is pushed in the end; services
  see first deliveries in id order; re-pushing never leaves an older version.
- Database: every committed write is recorded; a deleted row stays deleted;
  commands return.
- Supervisor: at most one agent per session; an agent that dies comes back;
  no agent outlives the application; the backoff is short again after a success.
- Front end: no row is written with a required field blank; nothing is deleted
  and no status changed that the user did not confirm; a success toast is right;
  lists and status end up as they are, unless a command never returns; the login
  screen is left by a login only, and a login ends at the dashboard.
- Gateway: unauthenticated requests reach no backend; a request reaches the
  service its path names.
- SLA engine: every breach is escalated and published.
- CMMS: one default property; each due date triggers one maintenance order.
- Helpdesk: each request is notified once; bookings do not overlap.
- Mobile: every inserted work order is uploaded, in order.

## Modules

| Module | Models | Checked by |
|---|---|---|
| `ChangeOutbox` | abstract: an at-least-once outbox (log, delivered, acked) | refinement target |
| `SyncAgent` | the Go agent, with the network, the services and the host application around it | `agent_*` |
| `DesktopDb` | the commands and the connection mutex | `db_*` |
| `AgentSupervisor` | the supervisor thread and the agent processes | `supervisor_*` |
| `DesktopApp` | `DesktopDb` and `AgentSupervisor` in one process | `app_*` |
| `ListView` | what the views have in common: calls in flight, lists, dialogs, the commands' answers | `ui_views` |
| `WorkOrdersView`, `AssetsView`, `HelpdeskView`, `ConflictsView`, `SettingsView` | one view each | `ui_views` |
| `FrontEndViews` | the five together, one mounted at a time | `ui_views` |
| `ConfirmedRows` | abstract: rows that are removed, and whose status changes, only as confirmed | refinement target |
| `AppShell` | `App.tsx`, `TopBar.tsx`, `LoginView.tsx` | `ui_shell`, `ui_login` |
| `SyncAgentProofs`, `DesktopDbProofs`, `AgentSupervisorProofs`, `DesktopAppProofs`, `FrontEndViewsProofs`, `AppShellProofs` | TLAPS proofs about the modules they are named after | |
| `MC...` | the keys and symmetry of the small instances | |

### SyncAgent

`log`, `synced` and `last_push_at` are the SQLite tables. `batch`, `byService`,
`posting`, `reply` and `idsToMark` are the locals of `performPush` and
`PushChanges`, one value per agent; `pc` says where its goroutine is. `late`,
`delivered` and `lastSeen` are the outside world: requests whose sender has gone,
rows accepted so far, the row each service accepted last for a key, and `rejected`,
the history of the rows a 207 refused.

| Action | Code |
|---|---|
| `IdleTick`, `ReadBatch` | `manager.go` Start and the SELECT of performPush |
| `Post`, `TakeAnswer`, `PushFails`, `Disconnect` | `client.go` PushChanges, one group at a time |
| `MarkRow`, `FinishPush` | the marking loop of performPush, row by row, then `last_push_at` |
| `Crash`, `Start` | the process; nothing but the database survives |
| `AppendChange` | another program that writes `_changes` of the same file |
| `HandleAll`, `HandleSome`, `Refuse`, `HandleLate` | the services (200/202, 207, anything else, too late) |

A row is a key, not its contents: services apply rows by id order within a group,
and the properties tell apart only which row was last. The services are outside
`src/` as far as `/sync/*` goes: no service of the repository has that
route, so what is behind the gateway is modelled from how the agent uses it.
`rows.Err()` is never consulted, so a read that fails midway is a shorter batch.
`Faults` names the kinds of failure an instance allows.

### DesktopDb

Tauri runs the synchronous commands one after the other on the main thread, so a
command that takes the mutex once is one step. A row write is one (`CreateWorkOrder`,
`UpdateWorkOrder`, `DeleteAsset`, ...); `RecordChange` is the part of `record_change` that is ever
executed: it takes the mutex, and `get_client_id` waits for it for ever. `Quit`
ends the process anywhere. `written` and `atLaunch` are history variables.

### AgentSupervisor

`pos` follows one round of the loop: check, spawn (find the binary and wait for
the gateway URL), exec, store, sleep. `agents` are operating-system processes;
those of an ended application are `orphans`. Standing alone, the module lets
other threads take and release the connection and set the URL. `stop()` has no
caller and so no action.

### DesktopApp

Instantiates both modules over shared `up`, `mutex` and `gateway_url`. The
supervisor's free environment is replaced by the real commands, and the
composition is shown to refine `AgentSupervisor!Spec`, and `DesktopDb!Spec` too: the
connection is busy, for the commands, while the supervisor has it.

### ListView, the five views, FrontEndViews

Every view has the same skeleton, which is `ListView`: a list that is loaded
(`loading`, `shown`), dialogs over it (`showCreate`, `editing`, `confirmAction`;
`confirmDelete` is `confirmAction` of type "delete"), a form, and calls of the
functions of `api.ts`. A handler is two actions: up to its `await` (`Submit`), and after it
(`Toast`, `ConfirmedAnswered`, `CreateAnswered`). Between them a command handles the
call (`Handle`, `HandleFails`), possibly failing after the row was committed. `calls`
is a bag, since the same click may be made twice. A call remembers the mount that
made it: setters of an unmounted view do nothing (`Sets`), its toasts are shown all
the same.

| Action | Code |
|---|---|
| `Rerender`, `Rendered` | a render of `App` (poll, toast timer) and the effect of the view it causes |
| `Navigate` | the sidebar; the old view's state is lost |
| `handleCreate`, `handleConfirm`, `handleEditSave`, `CreateAsset`, ... | the handlers before their await |
| `WorkOrderCreated`, `EditAnswered`, `ConfirmAnswered`, `AssetDeleted`, ... | the same after it |
| `openEdit`, `handleDelete`, `AskCreate`, `CancelEdit`, `Escape`, ... | what only opens and closes dialogs |

A text is blank or not, which is all a handler looks at (`trim()`); of a form the
required fields are kept. `told` and `acked` are history: what success toasts said,
and what the user confirmed. `ConfirmedRows` forgets calls, lists and dialogs and keeps
`table` and `acked`.

### AppShell

`syncStatus`, `showLogin` and `toast` are the states of `App`; `polls`, `timers` and `loads` the calls
and timers under way; `loading`, `error`, `stage` those of `LoginView`. Going to
another address (`SignIn`, the end of `Store`) loads the page anew, and all of it is
lost. The views are present by their loads only.

`AppState.auth_token` is written by the command `set_auth_token` alone, and nothing
in the repository invokes that command: `LoginView` posts the token to port 8082,
where the compose file puts the CMMS service. Whatever is there cannot write the
memory of the desktop process. So `auth_token` is the constant `None`, and every
`checkAuth` that is answered ends at the login screen. There is no user to show and
no Logout button, and the views are to be used only until the first `checkAuth` of a
page is answered (a main thread that hangs before leaves them shown). `FrontEndViews`
does not depend on this: it is about the views as long as they are shown.

`stuck` stands for what `DesktopDb` shows of a write: it keeps the main thread of the
Rust side, and no later command is answered (`Hang`). A restart by the updater ends it.

## Runs

| Run | Shows | Size |
|---|---|---|
| `agent_faults` | two agents, every failure but 207: a marked row was accepted, first deliveries are in order, the agents implement `ChangeOutbox` | 750 000 states |
| `agent_alone` | one agent, batches of three out of five rows: no older version stays behind, marked rows are a prefix of the log | 126 000 |
| `agent_live` | finitely many failures, 207 and late requests included: a marked row was accepted or refused in a 207; every row is marked in the end | 116 000 |
| `db_commands` | a deleted row stays deleted, and no row disappears | 267 000 |
| `supervisor_faults` | one agent per session, those given up after an error of `try_wait` apart; no more processes left over than exits and failures; the backoff is bounded and short again after a success | 30 000 |
| `app_faults` | the composition refines the supervisor and the database; the agent comes back unless the main thread hangs | 17 000 |
| `ui_views` | three calls in flight and two writes, errors or changes of view: stored rows are filled in, toasts are right, deletions and status changes confirmed; the views implement `ConfirmedRows`; the list is right in the end unless a write never returns | 450 000 |
| `ui_shell` | four events: the login screen holds, the login button is disabled during a login only; toasts and login attempts end; the status shown becomes right unless the main thread hangs | 270 000 |

The other four runs expect a violation; each shows the code doing other than a
document says.

| Run | Document | Code |
|---|---|---|
| `agent_partial` | SYNC-ENGINE-SPEC: on 207 mark the successes | every row of the batch is marked, refused ones included |
| `agent_blocked` | SYNC-ENGINE-SPEC: on 200 mark the records | one refusing service keeps the other's accepted rows unmarked for ever |
| `db_recorded` | SYNC.md: every write is recorded | `record_change` waits for itself before its INSERT; the application is still running and nothing is ever recorded |
| `ui_login` | AUTH.md: after a login the user is taken to the dashboard | the page a login loads finds no token in `AppState` and shows the login screen again |

Disagreements with no run of their own, because they show in one line or follow
from the above: nothing calls `stop()`, so the agent does not terminate on app exit as
SYNC.md:96 says (`Quit` makes its process an orphan); after one write command the
supervisor waits for the connection for ever, so the agent is not restarted as
SYNC.md:95 says (the exception in `AgentComesBackUnlessStuck`);
the edit dialog and the creation of assets and requests write without the
`ConfirmModal` that is shown "before any action that writes" (`ConfirmModal.tsx:15`);
the labels of the `TopBar` are not those of SYNC.md:113-115 (Connected is to mean that the
agent runs and nothing is pending, Syncing that pending changes are being pushed, Offline
that the agent does not run or the gateway is unreachable; `getStatusLabel` says Connected
whenever the agent runs, however much is pending, and Syncing exactly when it does *not*
run and changes are pending, and nothing looks at the gateway); the token is "cleared on
logout" (AUTH.md:64), by a command nothing invokes, behind a button that is never shown;
`LoginView` does not look at the status 8082 answers with; `decode_jwt` pads the payload
and decodes it with an engine that refuses padding (`commands.rs:329`);
`sync_now` says it triggers a sync cycle (`commands.rs:255`) and marks ids without
sending them; the backoff doubles after a successful spawn too (`sync.rs:86`;
the comment above says only after a failure); a gateway URL set while an agent
runs does not reach it; the gateway's proxy says it strips the mount path
(`reverse_proxy.go:10`) and does not; `sync.rs` derives the agent's database path
from `APPDATA/RaymondGray`, `lib.rs` opens the file of the Tauri data directory,
so they need not be the same file; `RG_AUTH_TOKEN` is read from the environment
and never from `AppState`.

### Bounds

- Two services in the keys (`work_order`, `asset`) are enough for batches with
  several groups. `Limit` = 2 with 3 rows, or 3 with 5, gives full batches,
  short batches and rows left out of a batch. The code's limit of 50 is the
  constant `Limit`.
- `MaxRows` bounds appended rows, `MaxFailures` and `MaxFaults` all failures
  together. Two failures suffice for a crash during recovery from another
  failure. Six take the backoff through 1, 2, 4, 8, 16 to 30.
- Two agents are one current and one left over.
- `Procs` has enough processes for the orphans the faults can make. Processes
  are symmetric in the safety run only.
- `MaxWrites` in `DesktopDb` allows a write in each of several sessions (in
  `db_recorded` one write, so that the row left unrecorded is one of the session that
  goes on); `Leftover` gives `sync_now` rows to mark although none is ever recorded.

- `ui_views`: two events are a write and a failure, two writes, or a write and a
  change of view while it is in flight. `MaxCalls` is one more, so that an answer
  that starts a load never has to wait for room. One row at the start and one that
  can be created, two statuses.
  The run takes about three minutes, most of it for `FreshUnlessStuck`.
- `ui_shell`: four events are two changes of status with a failure and a hanging write,
  or two logins and a restart. `ui_login` needs one, the submit.

### Fairness

- Agent steps are weakly fair: the poller goroutine is scheduled, and the
  supervisor starts a dead agent again.
- Answers are weakly fair. This is an assumption about the services and not a
  fact about the agent, which sets no timeout on its HTTP client.
- Failures are never fair and bounded by a counter, so "finitely many failures".
- In `DesktopApp` both threads are scheduled, and waiting for the connection is
  strongly fair: a mutex that is free again and again is got in the end.
- In `FrontEndViews` and `AppShell` timers fire and answers are processed, weakly
  fair, and strongly where the bound on the loads can shut an action out for a while.
  Users do nothing of necessity. Of commands it is assumed only what the Rust side
  gives: they are handled as long as the main thread is free. A command that writes a
  row and records it keeps it for ever (`db_recorded`), so in `FrontEndViews` no command need
  be handled, nor need the status poll render, while such a call waits (`WriteWaits`), and
  in `AppShell` none is after `Hang`. `FreshUnlessStuck` and `StatusShownUnlessStuck` say what
  is left: lists and status end up right unless such a call waits, or the main thread is
  stuck, for ever. With `record_change` repaired both say that they end up right.
- That the services at 8080 and 8082 answer or fail is assumed of them.
- Commands, crashes and exits have no fairness. `DesktopApp` may stop for good
  (both threads stuck), and so may the shell (stuck, with the bound on events reached),
  which is why their runs do not check deadlock.

## Proofs

Each theorem holds for every value of the constants that satisfies the module's
ASSUMEs: every set of agents, keys, URLs and processes, every batch size, every
bound.

| Module | Theorem | Property | Assumes |
|---|---|---|---|
| `SyncAgentProofs` | `Typing` | `TypeOK` | |
| | `SyncedAnswered` | `SyncedIsAnswered` | |
| | `SyncedDelivered` | `SyncedIsDelivered` | no 207 |
| | `DeliveriesInOrder` | `FirstDeliveriesInOrder` | no 207 |
| | `SyncedPrefix` | `SyncedIsPrefix` | no failed UPDATE |
| | `NoStaleOverwrites` | `NoStaleOverwrite` | one agent, no late request, no failed UPDATE, no 207 |
| | `AgentsImplementOutbox` | `OutboxSpec` | no 207 |
| `DesktopDbProofs` | `Typing` | `TypeOK` | |
| | `DeletedRows` | `DeletedStaysDeleted` | |
| `AgentSupervisorProofs` | `Typing` | `TypeOK` | |
| | `OneAgent` | `OneAgentPerSession` | |
| | `CloselyWatched` | `WatchedClosely` | |
| | `OrphansAreFaults` | `OneOrphanPerFault` | |
| `DesktopAppProofs` | `AppImplementsSupervisor` | `SupervisorSpec` | |
| | `AppImplementsDb` | `DbSpec` | |
| | `AppKeepsRows` | `DeletedStaysDeleted` of the application | |
| | `AppKeepsAgents` | `OneAgentPerSession`, `WatchedClosely`, `OneOrphanPerFault` of the application | |
| `FrontEndViewsProofs` | `Typing` | `TypeOK` | |
| | `RowsFilled` | `RequiredFilled` | |
| | `ToastsAreTrue` | `ToldIsDone` | |
| | `OnlyConfirmed` | `ChangesConfirmed` | |
| | `ViewsImplementRows` | `RowsSpec` | |
| `AppShellProofs` | `Typing` | `TypeOK` | |
| | `LoginScreenHolds` | `LoginIsLeftByLogin` | |
| | `LoginsAlternate` | `OneLoginAtATime` | |

### The agent

None of the safety properties is inductive. The strengthenings, at the end of
`SyncAgent`, speak of the batch under way:

- `DeliveryInv`: every row of a batch is answered for (accepted, or refused in a
  207), or its group is still to be posted, or is being posted and not answered
  (`BatchPosted`); marking starts when no group is left (`MarkingIsLast`); only
  rows of the batch are marked (`MarksBatchOnly`). Hence a row being marked was
  answered for, whatever fails: `SyncedIsAnswered` needs no assumption, and 207 is
  the only way to lose a row. Without 207 nothing is refused (`OnlyPartialRejects`),
  so the row was accepted. The refinement follows: the only step that changes
  `synced` adds such a row.
- `OrderInv` adds that a batch omits no older unsynced row (`BatchIsOldest`), nor
  does an abandoned request omit an older undelivered row of its service
  (`LateInOrder`). An older row outside the batch is synced, hence delivered.
- `PrefixInv`: ids leave `idsToMark` by being marked (`BatchIsMarked`), oldest
  first, so what precedes the row being marked is synced. It needs no assumption
  about other agents: they can only add marks.
- `OverwriteInv`: a lone agent's batch is unsynced until it marks it
  (`BatchIsUnsynced`), so a POST concerns only rows newer than all marked ones
  (by `PrefixInv`), and `BatchIsSeen` says the service then holds that row or a
  newer one.

The assumptions are not for convenience: with a 207 `SyncedIsDelivered` fails
(`agent_partial`); with two agents, a late request or a failed UPDATE an older
batch can be pushed after a newer one was marked, and `NoStaleOverwrite` fails.

### The database, the supervisor and the application

- `HandleInv`: an agent whose handle is not given up is `child` or `spawned`, and
  `child` is empty from the decision to restart until the store. So nothing is
  alive when a process is spawned.
- `BackoffInv`: after the store the backoff is 1, and the one round that may
  still have `needs_restart` set doubles it once. It needs `HandleInv`, which
  excludes a failed spawn while there is a child.
- `OrphansCounted` adds to `OneOrphanPerFault` that there are finitely many orphans.
  An exit makes one orphan at most, since by `HandleInv` all other agents alive are
  orphans already, and an error of `try_wait` counts as a failure itself.
- `DesktopApp` refines both of its parts, each in the place where the other is its
  environment. To the supervisor a command is a step of "another thread":
  `SetGatewayUrl` is itself, `RecordChange` is `TakeConnection`, the rest is
  stuttering; it needs only that a command under way belongs to a running
  application (`IdleWhenDown`). To the database a round of the supervisor is
  stuttering, since `ReadGateway` takes and releases the connection in one step and
  leaves the URL alone.
- The theorems of the parts therefore hold of the whole: `DesktopAppProofs`
  instantiates both proof modules, and `AppKeepsRows` and `AppKeepsAgents` follow from
  the refinements.

### The front end

- The properties of the views speak of stored rows, and what will be stored is in the
  calls. `CallsOK` says of every call in flight that what it asks for was filled in
  (`create`, `edit`) or confirmed (`update`, `delete`), is about a row there is, and,
  once answered, that the answer is so: a created row exists and a deleted one is
  gone. These stay true because rows never return to "absent" nor from "gone", and
  `acked` only grows. `DialogsOK` says the same of what dialogs and list are about, so
  a handler makes only such calls; a form may be anything, since the handlers look
  at it when clicked. The bag is handled through two facts: putting a call in adds
  it to the set of those in flight, and taking one out removes at most it.
- `ViewsImplementRows`: a command that handles a call is a step of `ConfirmedRows`
  (`RowStep`): what `CallsOK` says of the call is that step's guard. Everything else
  a user or an answer does is `Confirm` or stuttering.
- The shell's properties are inductive as they stand: `OneLoginAtATime` holds because the
  answers that end a login (`Refused`, and loading a page) reset both of its sides, and
  `LoginIsLeftByLogin` because only they and the updater take `showLogin` away.

Only model-checked: liveness under fairness (`EventuallySynced`,
`AgentComesBackUnlessStuck`, `FreshUnlessStuck`, `StatusShownUnlessStuck`, `ToastsEnd`,
`LoginEnds`), since neither fairness nor ENABLED can be reasoned about with the
provers used here. No operator is recursive, so no induction over data was left out.
Every invariant, action property and refinement that a passing run checks has its
theorem.

## Not modelled

- The contents of rows and payloads, JSON, logging, validation messages.
- `set_auth_token`, `logout` and `get_user_info`, which nothing invokes, and `decode_jwt`;
  what `App` and `TopBar` do with a token that there is (the user, the Logout button).
- A webview reloaded by hand.
- Of the front end: form fields no handler looks at, the counts above the lists,
  icons and layout, focus and the Tab key (a button behind a dialog can be reached with it,
  and in the model always), the doubled effects of React's development mode, and the
  three reads of the settings one by one. `generate-icon.cjs` draws a bitmap.
- `insert_conflict`, `update_last_pull_at`, `get_last_pull_at` and
  `SyncManager::stop`, which nothing calls; `performPull`, which is empty.
- Failures of SQLite in the desktop's single commands: such a command returns
  an error and changes nothing. (`sync_now`, which loops, is modelled with them.)
- Poisoning of the mutex: it needs a panic while the mutex is held. Locking a
  `std::sync::Mutex` again in the same thread may panic or block; on the Windows
  and Linux targets it blocks, and that is what is modelled.
- The report engine, the IoT simulation, scripts and infrastructure.

## Plan

1. Agent, its abstract outbox, its proofs. *Done.*
2. Desktop database, supervisor, their composition. *Done.*
3. Front end: the five views, the shell, their proofs. *Done.*
4. `SlaEngine`: several instances, escalation and publication, crash in between;
   abstract: each breach published at least once. `CmmsService`: the default
   property under concurrent requests; the maintenance sweep.
5. `HelpdeskNotify`: commit, queue, worker. `MobileQueue`: insert, upload, taps
   that overlap, crashes; abstract: `ChangeOutbox`, whose promises the Flutter
   queue keeps only in part. Gateway routing.
6. `sync_now` composed with running agents: what the agent itself marks stays
   delivered. `FrontEndViews` composed with `DesktopDb` instead of free commands.
7. Proofs: the invariants, action properties and refinements of the agent, the
   database, the supervisor, the application and the front end are *done*. Next: what
   `sync_now` and a running agent promise together, and, with their modules, the SLA
   engine's publication and the mobile queue.

Bounds planned: two instances of each service, two or three rows, one or two
failures; small enough for each run to take seconds.
