------------------------------- MODULE ListView ---------------------------------
(* What the views of the desktop front end have in common: App.tsx mounts one  *)
(* of them, it loads its list over IPC (api.ts), shows it, opens dialogs over  *)
(* it and sends writes, and goes on clicking-and-waiting: no button is         *)
(* disabled while a call is in flight, and calls may be handled and answered   *)
(* in any order.                                                               *)
(*                                                                             *)
(* App's showToast is a new function each time App renders, every view's load  *)
(* depends on it, and so every render of App makes the mounted view load       *)
(* again.  A toast is such a render, the poll of the sync status is another.   *)
(*                                                                             *)
(* Outside the front end: the commands.  They apply a write or not, answer     *)
(* with success or an error, and an error can follow a write that was applied  *)
(* (record_change fails after the row is committed).                           *)
EXTENDS Naturals, FiniteSets, Bags

CONSTANTS Views,      \* the views the instance can show
          Ids,        \* ids of rows; an id stands for a UUID
          Stored,     \* the ids of the rows there are at the start
          StoredText, \* what they hold, by view
          Text,       \* what a form field can hold
          Statuses,   \* statuses of work orders
          MaxCalls,   \* bound: calls in flight
          MaxEvents   \* bound: writes, errors and navigations together

Blank == ""             \* a text that trim() makes empty
NoId == "no id"
Pending == "pending"    \* what create_work_order inserts
AllViews == {"workorders", "assets", "helpdesk", "conflicts", "settings"}

ASSUME ViewsAssumption == "workorders" \in Views /\ Views \subseteq AllViews
ASSUME DataAssumption == Ids # {} /\ Blank \in Text /\ Pending \in Statuses
                         /\ Stored \subseteq Ids /\ NoId \notin Ids
ASSUME BoundsAssumption == MaxCalls \in Nat /\ MaxEvents \in Nat

VARIABLES
  table,          \* the rows, by view: what the commands keep
  view,           \* App.activeView
  loading,        \* the view has not shown anything yet
  shown,          \* the list it shows: orders, assets, requests, conflicts
  showCreate,     \* the dialog with the form for a new row is open
  editing,        \* the row the edit dialog is about
  confirmAction,  \* what the confirmation dialog is about
  form,           \* the two fields of the form that matter
  calls,          \* the calls in flight, a bag
  mounts,         \* how often a view was mounted after another
  events,         \* writes submitted, errors answered and navigations, so far
  acked,          \* history: what the user confirmed in a ConfirmModal
  told            \* history: what a success toast said was done

dialogs == <<showCreate, editing, confirmAction, form>>
list == <<loading, shown>>
counts == <<mounts, events>>
vars == <<table, view, list, dialogs, calls, counts, acked, told>>

(* Title and description; name and type; subject and resident; gateway URL.    *)
Form == [1 .. 2 -> Text]
Empty == [k \in 1 .. 2 |-> Blank]
Row == [state : {"absent", "live", "gone"}, text : Form, status : Statuses]
Live(v) == {i \in Ids : table[v][i].state = "live"}
Listing(v) == [i \in Live(v) |-> table[v][i]]
Listings == UNION {[I -> Row] : I \in SUBSET Ids}
NoList == [i \in {} |-> NoId]

(* The fields the handlers do not send blank.                                  *)
Required(v) == CASE v = "workorders" -> {1}
                 [] v = "assets" -> {1, 2}
                 [] v = "helpdesk" -> {1, 2}
                 [] v = "settings" -> {1}
                 [] OTHER -> {}
Filled(v, text) == \A k \in Required(v) : text[k] # Blank

ASSUME StoredAssumption ==
  /\ StoredText \in [AllViews -> Form]
  /\ \A v \in AllViews : Filled(v, StoredText[v])

NoAction == [type |-> "none", id |-> NoId, status |-> Pending]
Actions == [type : {"none", "create", "update", "delete"},
            id : Ids \cup {NoId}, status : Statuses]
Deletion(i) == [type |-> "delete", id |-> i, status |-> Pending]

---------------------------------------------------------------------------------
(* Calls.  `mount` tells whether the view that made the call is still mounted. *)
Ops == {"list", "create", "edit", "update", "delete", "resolve", "set_url"}
Call == [op : Ops, view : AllViews, mount : 0 .. MaxEvents, id : Ids \cup {NoId},
         text : Form, status : Statuses, reply : {"none", "ok", "error"},
         answer : Listings]

Invoke(op, i, text, status) ==
  [op |-> op, view |-> view, mount |-> mounts, id |-> i, text |-> text,
   status |-> status, reply |-> "none", answer |-> NoList]
ListCall == Invoke("list", NoId, Empty, Pending)

Room(n) == BagCardinality(calls) + n <= MaxCalls
Put(cs, c) == cs (+) SetToBag({c})
Drop(c) == calls (-) SetToBag({c})
InFlight == BagToSet(calls)

Event == events < MaxEvents /\ events' = events + 1

(* Mutant of Rendered: the load has [] for dependencies.                       *)
RenderedOnce(cs) == cs

(* The effect of a view, run when App has rendered: showToast is new.          *)
Rendered(cs) == Put(cs, ListCall)

(* The sync status is read every five seconds, and App renders; likewise when  *)
(* the timer of a toast takes it down.                                         *)
Rerender ==
  /\ Room(2)
  /\ calls' = Rendered(calls)
  /\ UNCHANGED <<table, view, list, dialogs, counts, acked, told>>

(* The sidebar.  The old view's state is lost; its calls go on without it.     *)
Navigate(v) ==
  /\ v \in Views \ {view}
  /\ Event /\ mounts' = mounts + 1
  /\ Room(2)
  /\ view' = v
  /\ loading' = TRUE /\ shown' = NoList
  /\ showCreate' = FALSE /\ editing' = NoId
  /\ confirmAction' = NoAction /\ form' = Empty
  /\ calls' = Put(calls, [ListCall EXCEPT !.view = v, !.mount = mounts'])
  /\ UNCHANGED <<table, acked, told>>

---------------------------------------------------------------------------------
(* The commands.                                                               *)
Change(v, i, row) == table' = [table EXCEPT ![v][i] = row]

Apply(c) ==
  LET row == table[c.view][c.id] IN
  CASE c.op = "create" ->
         Change(c.view, c.id, [state |-> "live", text |-> c.text, status |-> Pending])
    [] c.op \in {"edit", "set_url"} ->
         Change(c.view, c.id, [row EXCEPT !.text = c.text])
    [] c.op = "update" -> Change(c.view, c.id, [row EXCEPT !.status = c.status])
    [] c.op \in {"delete", "resolve"} -> Change(c.view, c.id, [row EXCEPT !.state = "gone"])
    [] OTHER -> UNCHANGED table

(* Mutant of Given: ids are given again, and the INSERT replaces the row.      *)
GivenAgain(c) == IF c.op # "create" THEN c ELSE [c EXCEPT !.id = CHOOSE i \in Ids : TRUE]

(* A new row has a new id.                                                     *)
Given(c) == IF c.op # "create" THEN c
            ELSE [c EXCEPT !.id = CHOOSE i \in Ids : table[c.view][i].state = "absent"]

HasId(c) == c.op = "create" => \E i \in Ids : table[c.view][i].state = "absent"

Replied(c, reply) == Put(Drop(c), reply)

Handle(c) ==
  /\ c.reply = "none" /\ HasId(c)
  /\ Apply(Given(c))
  /\ calls' = Replied(c, [Given(c) EXCEPT !.reply = "ok",
                          !.answer = IF c.op = "list" THEN Listing(c.view) ELSE NoList])
  /\ UNCHANGED <<view, list, dialogs, counts, acked, told>>

HandleFails(c) ==
  /\ c.reply = "none"
  /\ Event
  /\ calls' = Replied(c, [c EXCEPT !.reply = "error"])
  /\ \/ UNCHANGED table
     \/ c.op \in {"create", "edit", "update", "delete"} /\ HasId(c) /\ Apply(Given(c))
  /\ UNCHANGED <<view, list, dialogs, mounts, acked, told>>

---------------------------------------------------------------------------------
(* The handlers after their await.  Mutant of Succeeded: no try around it.     *)
SucceededAny(c) == c.reply # "none"

Succeeded(c) == c.reply = "ok"
Failed(c) == c.reply = "error"

(* setX(value), which does nothing once the view is unmounted.                 *)
Sets(c, x, value) == IF c.mount = mounts THEN value ELSE x

(* showToast of an error: App renders.                                         *)
ToastError(c) == calls' = Rendered(Drop(c)) /\ UNCHANGED told

(* showToast of a success, and a load of the handler's own.  What the toast    *)
(* says of the row the call was about goes into `told`.                        *)
ToastDone(c, says) ==
  /\ Room(1)
  /\ calls' = Rendered(Put(Drop(c), [ListCall EXCEPT !.view = c.view,
                                                     !.mount = c.mount]))
  /\ told' = told \cup {<<what, c.view, c.id>> : what \in says}

(* The load of a view: loadOrders, loadAssets, loadRequests, loadConflicts.    *)
Load(c) ==
  /\ c.op = "list"
  /\ loading' = Sets(c, loading, FALSE)
  /\ \/ /\ Succeeded(c)
        /\ shown' = Sets(c, shown, c.answer)
        /\ calls' = Drop(c) /\ UNCHANGED told
     \/ Failed(c) /\ ToastError(c) /\ UNCHANGED shown
  /\ UNCHANGED <<table, view, dialogs, counts, acked>>

(* A handler that finds a required field blank.                                *)
ToastRequired ==
  /\ Room(1)
  /\ calls' = Rendered(calls)
  /\ UNCHANGED <<table, view, list, dialogs, counts, acked, told>>

(* A handler up to its await.                                                  *)
Submit(op, i, text, status) ==
  /\ Room(1)
  /\ Event
  /\ calls' = Put(calls, Invoke(op, i, text, status))
  /\ UNCHANGED <<table, view, list, mounts, told>>

(* A click that only opens or closes dialogs or fills in a form.               *)
OnlyDialogs == UNCHANGED <<table, view, list, calls, counts, acked, told>>

(* Its row of the table, with its buttons, is there.                           *)
Clickable(i) == ~ loading /\ i \in DOMAIN shown

OpenCreate ==
  /\ showCreate' = TRUE
  /\ form' = Empty
  /\ UNCHANGED <<editing, confirmAction>>
  /\ OnlyDialogs

CancelCreate ==
  showCreate /\ showCreate' = FALSE /\ UNCHANGED <<editing, confirmAction, form>> /\ OnlyDialogs

CancelConfirm ==
  /\ confirmAction # NoAction
  /\ confirmAction' = NoAction
  /\ UNCHANGED <<showCreate, editing, form>>
  /\ OnlyDialogs

(* Each open dialog listens to the Escape key, and each one closes.            *)
Escape ==
  /\ showCreate' = FALSE /\ editing' = NoId /\ confirmAction' = NoAction
  /\ UNCHANGED form
  /\ OnlyDialogs

Type(k, t) ==
  /\ form' = [form EXCEPT ![k] = t]
  /\ UNCHANGED <<showCreate, editing, confirmAction>>
  /\ OnlyDialogs

(* handleDelete opens the confirmation dialog about the row as it is shown.    *)
AskDelete(i) ==
  /\ confirmAction' = Deletion(i)
  /\ UNCHANGED <<showCreate, editing, form>>
  /\ OnlyDialogs

(* The confirming button of the dialog; the user has read what it says.        *)
Acknowledge == acked' = acked \cup {<<view, confirmAction>>}

(* The toast at the end of a handler.                                          *)
Toast(c, says) ==
  \/ Succeeded(c) /\ ToastDone(c, says)
  \/ Failed(c) /\ ToastError(c)

(* The answers to a delete, and to an update by status: the dialog closes      *)
(* either way, whatever dialog is open by then.                                *)
ConfirmedAnswered(c, says) ==
  /\ confirmAction' = Sets(c, confirmAction, NoAction)
  /\ Toast(c, says)
  /\ UNCHANGED <<table, view, list, showCreate, editing, form, counts, acked>>

(* The answer to a create; `closed` is the confirmation dialog afterwards.     *)
CreateAnswered(c, closed) ==
  /\ c.op = "create"
  /\ \/ /\ Succeeded(c)
        /\ ToastDone(c, {"new"})
        /\ showCreate' = Sets(c, showCreate, FALSE)
        /\ confirmAction' = Sets(c, confirmAction, closed)
        /\ form' = Sets(c, form, Empty)
        /\ UNCHANGED editing
     \/ Failed(c) /\ ToastError(c) /\ UNCHANGED dialogs
  /\ UNCHANGED <<table, view, list, counts, acked>>

=================================================================================
