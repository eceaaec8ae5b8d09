----------------------------- MODULE FrontEndViews ------------------------------
(* The five views of the desktop front end together: App shows one at a time,  *)
(* and what an unmounted view still waits for is answered all the same.        *)
EXTENDS WorkOrdersView, AssetsView, HelpdeskView, ConflictsView, SettingsView

AtStart(v, i) == IF i \in Stored
  THEN [state |-> "live", text |-> StoredText[v], status |-> Pending]
  ELSE [state |-> "absent", text |-> Empty, status |-> Pending]

Init ==
  /\ table = [v \in AllViews |-> [i \in Ids |-> AtStart(v, i)]]
  /\ view = "workorders"
  /\ loading = TRUE /\ shown = NoList
  /\ showCreate = FALSE /\ editing = NoId /\ confirmAction = NoAction /\ form = Empty
  /\ mounts = 0 /\ events = 0
  /\ calls = SetToBag({ListCall})
  /\ acked = {} /\ told = {}

User ==
  \/ WorkOrdersUser \/ AssetsUser \/ HelpdeskUser \/ ConflictsUser \/ SettingsUser
  \/ CancelCreate \/ CancelConfirm \/ Escape
  \/ \E v \in Views : Navigate(v)

Answer(c) ==
  \/ WorkOrdersAnswer(c) \/ AssetsAnswer(c) \/ HelpdeskAnswer(c)
  \/ ConflictsAnswer(c) \/ SettingsAnswer(c)

Next ==
  \/ User \/ Rerender
  \/ \E c \in InFlight : Handle(c) \/ HandleFails(c) \/ Answer(c)

Spec == Init /\ [][Next]_vars

(* A command that writes a row and records it has been called and has not      *)
(* returned.  It may never return, and keep the main thread, so that no other  *)
(* command is handled and no poll answered either: see DesktopDb.              *)
WriteWaits ==
  \E c \in InFlight : c.op \in {"create", "edit", "update", "delete"} /\ c.reply = "none"

(* The poll goes on and the commands that only read, or write without a        *)
(* record, are handled, as long as no such write waits; what has been answered *)
(* arrives.  Nothing is assumed of the writes, nor of the user.                *)
FairSpec ==
  /\ Spec
  /\ WF_vars(~ WriteWaits /\ Rerender)
  /\ WF_vars(~ WriteWaits /\ \E c \in InFlight : Handle(c))
  /\ WF_vars(\E c \in InFlight : Answer(c))

---------------------------------------------------------------------------------
TypeOK ==
  /\ table \in [AllViews -> [Ids -> Row]]
  /\ view \in Views
  /\ loading \in BOOLEAN
  /\ shown \in Listings
  /\ showCreate \in BOOLEAN
  /\ editing \in Ids \cup {NoId}
  /\ confirmAction \in Actions
  /\ form \in Form
  /\ InFlight \subseteq Call
  /\ events \in 0 .. MaxEvents /\ mounts \in 0 .. events
  /\ acked \subseteq AllViews \X Actions
  /\ told \subseteq {"new", "gone"} \X AllViews \X (Ids \cup {NoId})

(* A row never has a required field blank.  An answer that comes late resets   *)
(* the form under a dialog opened meanwhile, and update_work_order does not    *)
(* check what it is sent, nor create_asset the type: only the handlers'        *)
(* checks, of the form as it is at the click, stand in between.                *)
RequiredFilled ==
  \A v \in AllViews \ {"settings"}, i \in Ids :
    table[v][i].state # "absent" => Filled(v, table[v][i].text)

(* What a success toast said is so: the row was created, or is gone.  This     *)
(* with answers out of order, views unmounted, and a second click on a button  *)
(* whose call is in flight.                                                    *)
ToldIsDone ==
  \A what \in told :
    /\ what[3] \in Ids
    /\ what[1] = "new" => table[what[2]][what[3]].state # "absent"
    /\ what[1] = "gone" => table[what[2]][what[3]].state = "gone"

(* No work order changes its status, and no row is deleted, unless the user    *)
(* confirmed that change of that row, although an answer may close or another  *)
(* click replace the dialog, and the list reload under it.                     *)
ChangesConfirmed ==
  \A i \in Ids :
    /\ \A v \in {"workorders", "assets", "helpdesk"} : table[v][i].state = "gone" =>
         <<v, Deletion(i)>> \in acked
    /\ LET status == table["workorders"][i].status IN
       status # Pending =>
         <<"workorders", [type |-> "update", id |-> i, status |-> status]>> \in acked

(* The views implement the promise about the rows: an answer out of order, a   *)
(* second click or a write reported as an error never makes a row come back,   *)
(* changes two rows, blanks a field, or removes a row before that is confirmed.*)
RowViews == AllViews \ {"settings"}
Rows == INSTANCE ConfirmedRows
  WITH Kinds <- RowViews, Unguarded <- {"conflicts"}, First <- Pending,
       Acceptable <- [v \in RowViews |-> {t \in Form : Filled(v, t)}],
       rows <- [v \in RowViews |-> table[v]],
       confirmed <- acked
RowsSpec == Rows!Spec

(* When the user has stopped and commands fail no more, the view ends up       *)
(* showing the rows as they are, whatever order the answers came in: the last  *)
(* load may have been answered with an old list, or have failed, or a write    *)
(* have been applied that was reported as an error.  Unless a write never      *)
(* returns: then nothing is answered any more.                                 *)
Fresh == ~ loading /\ (view # "settings" => shown = Listing(view))
FreshUnlessStuck == <>[]WriteWaits \/ <>[]Fresh

=================================================================================
