----------------------------- MODULE WorkOrdersView -----------------------------
(* WorkOrdersView.tsx.  A new work order, a change of status and a deletion go *)
(* through the ConfirmModal; the edit dialog saves without it.  The create and *)
(* the edit dialog share one form.                                             *)
EXTENDS ListView

OnWorkOrders == view = "workorders"
OrderRow(i) == OnWorkOrders /\ Clickable(i)

loadOrders(c) == c.op = "list" /\ c.view = "workorders" /\ Load(c)

NewWorkOrder == OnWorkOrders /\ OpenCreate

(* The title; nothing looks at the other fields.                               *)
WorkOrderForm(t) ==
  /\ OnWorkOrders
  /\ showCreate \/ editing # NoId
  /\ Type(1, t)

(* The Create button of the form.                                              *)
AskCreate ==
  /\ OnWorkOrders
  /\ showCreate
  /\ confirmAction' = [NoAction EXCEPT !.type = "create"]
  /\ UNCHANGED <<showCreate, editing, form>>
  /\ OnlyDialogs

(* Mutant of handleStatusChange: a type that handleConfirm does not know.      *)
handleStatusChangeType(i, status) ==
  /\ OrderRow(i) /\ status # shown[i].status
  /\ confirmAction' = [type |-> "status", id |-> i, status |-> status]
  /\ UNCHANGED <<showCreate, editing, form>>
  /\ OnlyDialogs

(* Another status is chosen in the row.                                        *)
handleStatusChange(i, status) ==
  /\ OrderRow(i) /\ status # shown[i].status
  /\ confirmAction' = [type |-> "update", id |-> i, status |-> status]
  /\ UNCHANGED <<showCreate, editing, form>>
  /\ OnlyDialogs

(* Mutant of handleDelete: the row's button deletes it.                        *)
handleDeleteAtOnce(i) ==
  OrderRow(i) /\ Submit("delete", i, Empty, Pending)
  /\ UNCHANGED <<dialogs, acked>>

handleDelete(i) == OrderRow(i) /\ AskDelete(i)

(* The form is filled in from the row as it is shown.                          *)
openEdit(i) ==
  /\ OrderRow(i)
  /\ editing' = i /\ form' = shown[i].text
  /\ UNCHANGED <<showCreate, confirmAction>>
  /\ OnlyDialogs

CancelEdit ==
  /\ OnWorkOrders
  /\ editing # NoId /\ editing' = NoId
  /\ UNCHANGED <<showCreate, confirmAction, form>>
  /\ OnlyDialogs

(* handleCreate up to its await; it reads the form when Confirm is clicked.    *)
handleCreate ==
  \/ ~ Filled(view, form) /\ ToastRequired
  \/ /\ Filled(view, form)
     /\ Submit("create", NoId, form, Pending)
     /\ Acknowledge /\ UNCHANGED dialogs

handleConfirm ==
  /\ OnWorkOrders
  /\ \/ confirmAction.type = "create" /\ handleCreate
     \/ /\ confirmAction.type \in {"update", "delete"}
        /\ Submit(confirmAction.type, confirmAction.id, Empty, confirmAction.status)
        /\ Acknowledge /\ UNCHANGED dialogs

(* Mutant of handleEditSave: the title is not looked at.                       *)
handleEditSaveAny ==
  /\ OnWorkOrders
  /\ editing # NoId
  /\ Submit("edit", editing, form, Pending)
  /\ UNCHANGED <<dialogs, acked>>

handleEditSave ==
  /\ OnWorkOrders
  /\ editing # NoId
  /\ \/ ~ Filled(view, form) /\ ToastRequired
     \/ /\ Filled(view, form)
        /\ Submit("edit", editing, form, Pending)
        /\ UNCHANGED <<dialogs, acked>>

WorkOrderCreated(c) ==
  c.op = "create" /\ c.view = "workorders" /\ CreateAnswered(c, NoAction)

(* handleEditSave after its await: the form is reset whoever uses it by then.  *)
EditAnswered(c) ==
  /\ c.op = "edit"
  /\ \/ /\ Succeeded(c)
        /\ ToastDone(c, {})
        /\ editing' = Sets(c, editing, NoId)
        /\ confirmAction' = Sets(c, confirmAction, NoAction)
        /\ form' = Sets(c, form, Empty)
        /\ UNCHANGED showCreate
     \/ Failed(c) /\ ToastError(c) /\ UNCHANGED dialogs
  /\ UNCHANGED <<table, view, list, counts, acked>>

(* handleConfirm after its await.                                              *)
ConfirmAnswered(c) ==
  \/ c.op = "update" /\ ConfirmedAnswered(c, {})
  \/ c.op = "delete" /\ c.view = "workorders" /\ ConfirmedAnswered(c, {"gone"})

WorkOrdersUser ==
  \/ NewWorkOrder \/ AskCreate \/ handleConfirm \/ handleEditSave \/ CancelEdit
  \/ \E t \in Text : WorkOrderForm(t)
  \/ \E i \in Ids : handleDelete(i) \/ openEdit(i)
  \/ \E i \in Ids, status \in Statuses : handleStatusChange(i, status)

WorkOrdersAnswer(c) ==
  loadOrders(c) \/ WorkOrderCreated(c) \/ EditAnswered(c) \/ ConfirmAnswered(c)

=================================================================================
