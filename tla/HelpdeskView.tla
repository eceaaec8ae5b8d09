------------------------------ MODULE HelpdeskView ------------------------------
(* HelpdeskView.tsx: requests are created straight from the form, and deleted  *)
(* through the ConfirmModal.                                                   *)
EXTENDS ListView

OnHelpdesk == view = "helpdesk"
RequestRow(i) == OnHelpdesk /\ Clickable(i)

loadRequests(c) == c.op = "list" /\ c.view = "helpdesk" /\ Load(c)

NewRequest == OnHelpdesk /\ OpenCreate

(* Subject and resident name.                                                  *)
RequestForm(k, t) == OnHelpdesk /\ showCreate /\ Type(k, t)

CreateRequest ==
  /\ OnHelpdesk /\ showCreate
  /\ \/ ~ Filled(view, form) /\ ToastRequired
     \/ /\ Filled(view, form)
        /\ Submit("create", NoId, form, Pending)
        /\ UNCHANGED <<dialogs, acked>>

DeleteRequest(i) == RequestRow(i) /\ AskDelete(i)

ConfirmDeleteRequest ==
  /\ OnHelpdesk
  /\ confirmAction # NoAction
  /\ Submit("delete", confirmAction.id, Empty, Pending)
  /\ Acknowledge /\ UNCHANGED dialogs

RequestCreated(c) ==
  c.op = "create" /\ c.view = "helpdesk" /\ CreateAnswered(c, confirmAction)

RequestDeleted(c) ==
  c.op = "delete" /\ c.view = "helpdesk" /\ ConfirmedAnswered(c, {"gone"})

HelpdeskUser ==
  \/ NewRequest \/ CreateRequest \/ ConfirmDeleteRequest
  \/ \E k \in 1 .. 2, t \in Text : RequestForm(k, t)
  \/ \E i \in Ids : DeleteRequest(i)

HelpdeskAnswer(c) == loadRequests(c) \/ RequestCreated(c) \/ RequestDeleted(c)

=================================================================================
