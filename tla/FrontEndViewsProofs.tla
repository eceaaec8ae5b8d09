--------------------------- MODULE FrontEndViewsProofs --------------------------
(* Proofs about FrontEndViews, for all views, rows, texts and bounds.  What    *)
(* makes the safety properties inductive is what holds of the calls in flight: *)
(* what they were asked for was filled in, or confirmed, about a row there is, *)
(* and what they answered is so.                                               *)
EXTENDS FrontEndViews, TLAPS

Known(v, i) == i \in Ids /\ table[v][i].state # "absent"
Confirmed(v, i) == <<v, Deletion(i)>> \in acked

CallOK(c) ==
  /\ c.mount <= mounts /\ (c.mount = mounts => c.view = view)
  /\ c.op \in {"edit", "update", "delete", "resolve"} => Known(c.view, c.id)
  /\ c.op \in {"create", "edit"} => Filled(c.view, c.text)
  /\ c.op = "update" =>
       /\ c.view = "workorders"
       /\ <<c.view, [type |-> "update", id |-> c.id, status |-> c.status]>> \in acked
  /\ c.op = "delete" => Confirmed(c.view, c.id)
  /\ c.op = "resolve" => c.view = "conflicts"
  /\ c.op = "set_url" => c.view = "settings" /\ c.id \in Ids
  /\ \A i \in DOMAIN c.answer : Known(c.view, i)
  /\ c.reply = "ok" /\ c.op = "create" => Known(c.view, c.id)
  /\ c.reply = "ok" /\ c.op \in {"delete", "resolve"} => table[c.view][c.id].state = "gone"
CallsOK == \A c \in InFlight : CallOK(c)

(* What the dialogs and the list are about is a row there is.                  *)
DialogsOK ==
  /\ \A i \in DOMAIN shown : Known(view, i)
  /\ editing # NoId => Known(view, editing)
  /\ confirmAction.type \in {"update", "delete"} => Known(view, confirmAction.id)
  /\ confirmAction.type = "delete" => confirmAction.status = Pending
  /\ confirmAction.type = "none" => confirmAction = NoAction
  /\ view # "workorders" => confirmAction.type \in {"none", "delete"}

IInv == /\ TypeOK /\ DialogsOK /\ CallsOK
        /\ RequiredFilled /\ ToldIsDone /\ ChangesConfirmed

---------------------------------------------------------------------------------
(* Bags of calls.                                                              *)
LEMMA PutSet == ASSUME NEW cs, NEW c PROVE BagToSet(Put(cs, c)) = BagToSet(cs) \cup {c}
  BY DEF Put, BagToSet, SetToBag, (+)

LEMMA DropSet == ASSUME NEW c PROVE BagToSet(Drop(c)) \subseteq InFlight
  BY DEF Drop, InFlight, BagToSet, SetToBag, (-)

(* What the shapes of values that the handlers build are.                      *)
LEMMA Shapes ==
  /\ Empty \in Form /\ NoAction \in Actions /\ NoList \in Listings
  /\ NoId \notin Ids
  /\ Pending \in Statuses
  /\ Views \subseteq AllViews
<1>1. Empty \in Form
  BY DataAssumption DEF Empty, Form
<1>2. NoAction \in Actions
  BY DataAssumption DEF NoAction, Actions
<1>3. NoList \in Listings
  <2>1. NoList \in [{} -> Row]
    BY DEF NoList
  <2>. QED BY <2>1 DEF Listings
<1>. QED BY <1>1, <1>2, <1>3, DataAssumption, ViewsAssumption

LEMMA ListingShape ==
  ASSUME TypeOK, NEW v \in AllViews
  PROVE  Listing(v) \in Listings
<1>1. Live(v) \in SUBSET Ids
  BY DEF Live
<1>2. Listing(v) \in [Live(v) -> Row]
  BY DEF Listing, Live, TypeOK
<1>. QED BY <1>1, <1>2 DEF Listings

LEMMA ShownShape ==
  ASSUME NEW l \in Listings
  PROVE  /\ DOMAIN l \subseteq Ids
         /\ \A i \in DOMAIN l : l[i] \in Row /\ l[i].text \in Form
  BY DEF Listings, Row

LEMMA InvokeShape ==
  ASSUME TypeOK, NEW op \in Ops, NEW i \in Ids \cup {NoId}, NEW text \in Form,
         NEW status \in Statuses
  PROVE  Invoke(op, i, text, status) \in Call
<1>1. mounts \in 0 .. MaxEvents /\ view \in AllViews
  BY Shapes, BoundsAssumption DEF TypeOK
<1>. QED BY <1>1, Shapes DEF Invoke, Call

LEMMA ListCallOK ==
  ASSUME TypeOK
  PROVE  /\ ListCall \in Call /\ CallOK(ListCall)
         /\ ListCall.op = "list"
<1>1. ListCall \in Call
  BY InvokeShape, Shapes DEF ListCall, Ops
<1>2. CallOK(ListCall)
  BY DEF ListCall, Invoke, CallOK, NoList, TypeOK
<1>. QED BY <1>1, <1>2 DEF ListCall, Invoke

LEMMA CallStays ==
  ASSUME NEW c, CallOK(c), UNCHANGED <<table, view, mounts>>, acked \subseteq acked'
  PROVE  CallOK(c)'
  BY DEF CallOK, Known, Confirmed, Filled

LEMMA CallsStay ==
  ASSUME CallsOK, UNCHANGED <<table, view, mounts>>, acked \subseteq acked',
         \A c \in InFlight' : CallOK(c)
  PROVE  CallsOK'
  BY CallStays DEF CallsOK

(* A step that leaves the table alone.                                         *)
LEMMA TableStays ==
  ASSUME IInv, TypeOK', DialogsOK', CallsOK', ToldIsDone',
         table' = table, acked \subseteq acked'
  PROVE  IInv'
<1>1. RequiredFilled'
  BY DEF IInv, RequiredFilled, Filled
<1>2. ChangesConfirmed'
  BY DEF IInv, ChangesConfirmed
<1>. QED BY <1>1, <1>2 DEF IInv

LEMMA ToldStays ==
  ASSUME ToldIsDone, UNCHANGED <<table, told>>
  PROVE  ToldIsDone'
  BY DEF ToldIsDone

---------------------------------------------------------------------------------
(* The parts of steps.                                                         *)
DialogShape ==
  /\ showCreate \in BOOLEAN
  /\ editing \in Ids \cup {NoId}
  /\ confirmAction \in Actions
  /\ form \in Form

LEMMA RenderedSet ==
  ASSUME TypeOK, NEW cs, BagToSet(cs) \subseteq InFlight, calls' = Rendered(cs)
  PROVE  InFlight' \subseteq InFlight \cup {ListCall} /\ InFlight' \subseteq Call
<1>1. InFlight' = BagToSet(cs) \cup {ListCall}
  BY PutSet DEF Rendered, InFlight
<1>. QED BY <1>1, ListCallOK DEF TypeOK

(* A click on dialogs only.                                                    *)
LEMMA OnlyDialogsStep ==
  ASSUME IInv, OnlyDialogs, DialogShape', DialogsOK'
  PROVE  IInv'
<1>1. UNCHANGED <<table, view, mounts, events, loading, shown, calls, acked, told>>
  BY DEF OnlyDialogs, list, counts
<1>2. TypeOK'
  BY <1>1 DEF IInv, TypeOK, DialogShape, InFlight
<1>3. CallsOK'
  <2>1. \A c \in InFlight' : CallOK(c)
    BY <1>1 DEF InFlight, IInv, CallsOK
  <2>. QED BY <1>1, <2>1, CallsStay DEF IInv
<1>4. ToldIsDone'
  BY <1>1, ToldStays DEF IInv
<1>. QED BY <1>1, <1>2, <1>3, <1>4, TableStays

(* App renders and nothing else happens.                                       *)
LEMMA RenderStep ==
  ASSUME IInv, calls' = Rendered(calls),
         UNCHANGED <<table, view, list, dialogs, counts, acked, told>>
  PROVE  IInv'
<1>1. InFlight' \subseteq InFlight \cup {ListCall} /\ InFlight' \subseteq Call
  BY RenderedSet DEF IInv, InFlight
<1>2. TypeOK'
  BY <1>1 DEF IInv, TypeOK, list, dialogs, counts
<1>3. CallOK(ListCall)
  BY ListCallOK DEF IInv
<1>4. CallsOK'
  <2>1. \A c \in InFlight' : CallOK(c)
    BY <1>1, <1>3 DEF IInv, CallsOK
  <2>2. UNCHANGED <<table, view, mounts>> /\ acked \subseteq acked'
    BY DEF counts
  <2>. QED BY <2>1, <2>2, CallsStay DEF IInv
<1>5. DialogsOK'
  BY DEF IInv, DialogsOK, Known, list, dialogs
<1>6. ToldIsDone'
  BY ToldStays DEF IInv
<1>. QED BY <1>2, <1>4, <1>5, <1>6, TableStays

(* A handler sends its call.                                                   *)
LEMMA SubmitStep ==
  ASSUME IInv, NEW op \in Ops, NEW i \in Ids \cup {NoId}, NEW text \in Form,
         NEW status \in Statuses, Submit(op, i, text, status), UNCHANGED dialogs,
         acked \subseteq acked', acked' \subseteq AllViews \X Actions,
         NEW n, n = Invoke(op, i, text, status), CallOK(n)'
  PROVE  IInv'
<1>1. n \in Call
  BY InvokeShape DEF IInv
<1>2. InFlight' = InFlight \cup {n}
  BY PutSet DEF Submit, InFlight
<1>3. TypeOK'
  <2>1. events' \in 0 .. MaxEvents /\ mounts' \in 0 .. events'
    BY BoundsAssumption DEF IInv, TypeOK, Submit, Event
  <2>2. InFlight' \subseteq Call
    BY <1>1, <1>2 DEF IInv, TypeOK
  <2>. QED BY <2>1, <2>2 DEF IInv, TypeOK, Submit, list, dialogs
<1>4. CallsOK'
  BY <1>2, CallStays DEF IInv, CallsOK, Submit
<1>5. DialogsOK'
  BY DEF IInv, DialogsOK, Known, Submit, list, dialogs
<1>6. ToldIsDone'
  BY ToldStays DEF IInv, Submit
<1>. QED BY <1>3, <1>4, <1>5, <1>6, TableStays DEF Submit

(* The toast at the end of a handler, and the loads that follow.               *)
LEMMA ToastStep ==
  ASSUME IInv, NEW c \in InFlight, NEW says \in SUBSET {"new", "gone"},
         \/ Succeeded(c) /\ ToastDone(c, says)
         \/ ToastError(c),
         "new" \in says => c.op = "create",
         "gone" \in says => c.op \in {"delete", "resolve"},
         DialogShape', DialogsOK',
         UNCHANGED <<table, view, shown, counts, acked>>, loading' \in BOOLEAN
  PROVE  IInv'
<1>. DEFINE own == [ListCall EXCEPT !.view = c.view, !.mount = c.mount]
<1>. c \in Call /\ CallOK(c)
  BY DEF IInv, TypeOK, CallsOK
<1>1. own \in Call /\ CallOK(own)
  <2>1. own \in Call
    BY ListCallOK DEF IInv, Call
  <2>2. own = [ListCall EXCEPT !.view = c.view, !.mount = c.mount]
    OBVIOUS
  <2>3. own.op = "list" /\ own.mount = c.mount /\ own.view = c.view
        /\ own.answer = NoList
    BY ListCallOK DEF Call, ListCall, Invoke
  <2>4. CallOK(own)
    BY <2>3 DEF CallOK, NoList
  <2>. QED BY <2>1, <2>4
<1>2. InFlight' \subseteq InFlight \cup {ListCall, own} /\ InFlight' \subseteq Call
  <2>1. CASE ToastDone(c, says)
    <3>1. InFlight' = BagToSet(Drop(c)) \cup {own} \cup {ListCall}
      BY <2>1, PutSet DEF ToastDone, Rendered, InFlight
    <3>. QED BY <3>1, <1>1, DropSet, ListCallOK DEF IInv, TypeOK
  <2>2. CASE ToastError(c)
    BY <2>2, DropSet, RenderedSet DEF ToastError, IInv
  <2>. QED BY <2>1, <2>2
<1>3. told' \subseteq {"new", "gone"} \X AllViews \X (Ids \cup {NoId})
  BY DEF ToastDone, ToastError, IInv, TypeOK, Call
<1>4. TypeOK'
  BY <1>2, <1>3 DEF IInv, TypeOK, DialogShape, counts
<1>5. CallOK(ListCall)
  BY ListCallOK DEF IInv
<1>6. CallsOK'
  <2>. HIDE DEF own
  <2>1. \A n \in InFlight' : CallOK(n)
    BY <1>1, <1>2, <1>5 DEF IInv, CallsOK
  <2>2. UNCHANGED <<table, view, mounts>> /\ acked \subseteq acked'
    BY DEF counts
  <2>. QED BY <2>1, <2>2, CallsStay DEF IInv
<1>7. ToldIsDone'
  <2>1. \A what \in told' \ told :
          /\ what[3] \in Ids
          /\ what[1] = "new" => table[what[2]][what[3]].state # "absent"
          /\ what[1] = "gone" => table[what[2]][what[3]].state = "gone"
    BY DEF ToastDone, ToastError, Succeeded, CallOK, Known
  <2>. QED BY <2>1 DEF IInv, ToldIsDone
<1>. QED BY <1>4, <1>6, <1>7, TableStays

LEMMA ToastErrorStep ==
  ASSUME IInv, NEW c \in InFlight, ToastError(c), DialogShape', DialogsOK',
         UNCHANGED <<table, view, shown, counts, acked>>, loading' \in BOOLEAN
  PROVE  IInv'
<1>1. {} \in SUBSET {"new", "gone"} /\ "new" \notin {} /\ "gone" \notin {}
  OBVIOUS
<1>. QED BY <1>1, ToastStep

---------------------------------------------------------------------------------
(* The user's actions.                                                         *)
LEMMA DialogStep ==
  ASSUME IInv,
         \/ OpenCreate \/ CancelCreate \/ CancelConfirm \/ Escape \/ CancelEdit \/ AskCreate
         \/ \E k \in 1 .. 2, t \in Text : Type(k, t)
         \/ \E i \in Ids : (Clickable(i) /\ AskDelete(i)) \/ openEdit(i)
         \/ \E i \in Ids, status \in Statuses : handleStatusChange(i, status)
  PROVE  IInv'
<1>. USE DEF DialogShape
<1>a. OnlyDialogs /\ DialogShape
  BY DEF OpenCreate, CancelCreate, CancelConfirm, Escape, CancelEdit, AskCreate, Type,
         AskDelete, openEdit, handleStatusChange, IInv, TypeOK
<1>b. UNCHANGED <<table, view, shown>> /\ DialogsOK
  BY <1>a DEF OnlyDialogs, list, IInv
<1>. SUFFICES DialogShape' /\ DialogsOK'
  BY <1>a, OnlyDialogsStep
<1>1. CASE OpenCreate
  BY <1>1, <1>a, <1>b, Shapes DEF OpenCreate, DialogsOK, Known
<1>2. CASE CancelCreate
  BY <1>2, <1>a, <1>b DEF CancelCreate, DialogsOK, Known
<1>3. CASE CancelConfirm
  BY <1>3, <1>a, <1>b, Shapes DEF CancelConfirm, DialogsOK, Known, NoAction
<1>4. CASE Escape
  BY <1>4, <1>a, <1>b, Shapes DEF Escape, DialogsOK, Known, NoAction
<1>5. CASE CancelEdit
  BY <1>5, <1>a, <1>b DEF CancelEdit, DialogsOK, Known
<1>6. CASE AskCreate
  <2>1. confirmAction' = [NoAction EXCEPT !.type = "create"] /\ view = "workorders"
        /\ UNCHANGED <<showCreate, editing, form>>
    BY <1>6 DEF AskCreate, OnWorkOrders
  <2>2. confirmAction' \in Actions /\ confirmAction'.type = "create"
    BY <2>1, DataAssumption DEF NoAction, Actions
  <2>. QED BY <2>1, <2>2, <1>a, <1>b DEF DialogsOK, Known
<1>7. CASE \E k \in 1 .. 2, t \in Text : Type(k, t)
  <2>1. PICK k \in 1 .. 2, t \in Text : Type(k, t)
    BY <1>7
  <2>2. form' \in Form
    BY <2>1, <1>a DEF Type, Form
  <2>. QED BY <2>1, <2>2, <1>a, <1>b DEF Type, DialogsOK, Known
<1>8. CASE \E i \in Ids : Clickable(i) /\ AskDelete(i)
  <2>1. PICK i \in Ids : Clickable(i) /\ AskDelete(i)
    BY <1>8
  <2>2. confirmAction' = [type |-> "delete", id |-> i, status |-> Pending]
    BY <2>1 DEF AskDelete, Deletion
  <2>3. confirmAction' \in Actions
    BY <2>2, DataAssumption DEF Actions
  <2>4. DialogShape'
    BY <2>1, <2>3, <1>a DEF AskDelete
  <2>5. Known(view, i)
    BY <2>1, <1>b DEF Clickable, DialogsOK
  <2>6. DialogsOK'
    <3>1. UNCHANGED <<table, view, shown, editing>>
      BY <2>1, <1>b DEF AskDelete
    <3>2. confirmAction'.type = "delete" /\ confirmAction'.id = i /\ confirmAction'.status = Pending
      BY <2>2
    <3>. QED BY <2>5, <1>b, <3>1, <3>2 DEF DialogsOK, Known
  <2>. QED BY <2>4, <2>6
<1>9. CASE \E i \in Ids : openEdit(i)
  <2>1. PICK i \in Ids : openEdit(i)
    BY <1>9
  <2>2. form' \in Form
    BY <2>1, ShownShape DEF openEdit, OrderRow, Clickable, IInv, TypeOK
  <2>. QED BY <2>1, <2>2, <1>a, <1>b DEF openEdit, OrderRow, Clickable, DialogsOK, Known
<1>10. CASE \E i \in Ids, status \in Statuses : handleStatusChange(i, status)
  <2>1. PICK i \in Ids, status \in Statuses : handleStatusChange(i, status)
    BY <1>10
  <2>2. confirmAction' = [type |-> "update", id |-> i, status |-> status]
    BY <2>1 DEF handleStatusChange
  <2>3. confirmAction' \in Actions
    BY <2>2 DEF Actions
  <2>. QED BY <2>1, <2>2, <2>3, <1>a, <1>b
           DEF handleStatusChange, OnWorkOrders, OrderRow, Clickable, DialogsOK, Known
<1>. QED BY <1>1, <1>2, <1>3, <1>4, <1>5, <1>6, <1>7, <1>8, <1>9, <1>10

(* A call that was just made, about something the user asked for.              *)
LEMMA Invoked ==
  ASSUME IInv, NEW op, NEW i, NEW text, NEW status, NEW n,
         n = Invoke(op, i, text, status)
  PROVE  /\ n.op = op /\ n.id = i /\ n.text = text /\ n.status = status
         /\ n.view = view /\ n.mount = mounts /\ n.reply = "none" /\ DOMAIN n.answer = {}
  BY DEF Invoke, NoList

(* A form is sent.                                                             *)
LEMMA CreateStep ==
  ASSUME IInv, Filled(view, form), Submit("create", NoId, form, Pending),
         UNCHANGED dialogs, acked \subseteq acked', acked' \subseteq AllViews \X Actions
  PROVE  IInv'
<1>1. PICK n : n = Invoke("create", NoId, form, Pending)
  OBVIOUS
<1>2. CallOK(n)'
  BY <1>1, Invoked DEF CallOK, Submit, Filled, IInv, TypeOK
<1>. QED BY <1>1, <1>2, SubmitStep, Shapes DEF Ops, IInv, TypeOK

(* A confirmed change is sent.                                                 *)
LEMMA ConfirmedStep ==
  ASSUME IInv, confirmAction.type \in {"update", "delete"},
         Submit(confirmAction.type, confirmAction.id, Empty, confirmAction.status),
         Acknowledge, UNCHANGED dialogs
  PROVE  IInv'
<1>. DEFINE a == confirmAction
<1>1. PICK n : n = Invoke(a.type, a.id, Empty, a.status)
  OBVIOUS
<1>2. a = [type |-> a.type, id |-> a.id, status |-> a.status] /\ a \in Actions
      /\ a.status \in Statuses /\ a.id \in Ids \cup {NoId}
  BY DEF IInv, TypeOK, Actions
<1>3. acked \subseteq acked' /\ <<view, a>> \in acked' /\ acked' \subseteq AllViews \X Actions
  BY <1>2, Shapes DEF Acknowledge, IInv, TypeOK
<1>4. Known(view, a.id) /\ (a.type = "delete" => a.status = Pending)
      /\ (a.type = "update" => view = "workorders")
  BY DEF IInv, DialogsOK
<1>5. CallOK(n)'
  <2>1. UNCHANGED <<table, view, mounts>>
    BY DEF Submit
  <2>2. n.op = a.type /\ n.id = a.id /\ n.status = a.status /\ n.view = view
        /\ n.mount = mounts /\ n.reply = "none" /\ DOMAIN n.answer = {}
    BY <1>1, Invoked
  <2>. HIDE DEF a
  <2>3. a.type = "update" =>
          <<n.view, [type |-> "update", id |-> n.id, status |-> n.status]>> \in acked'
    BY <1>2, <1>3, <2>2
  <2>4. a.type = "delete" => Confirmed(n.view, n.id)'
    BY <1>2, <1>3, <1>4, <2>2, <2>1 DEF Confirmed, Deletion
  <2>5. a.type \in {"update", "delete"}
    BY DEF a
  <2>6. mounts <= mounts
    BY DEF IInv, TypeOK
  <2>. QED BY <1>4, <2>1, <2>2, <2>3, <2>4, <2>5, <2>6 DEF CallOK, Known
<1>. QED BY <1>1, <1>2, <1>3, <1>5, SubmitStep, Shapes DEF Ops

LEMMA ToastRequiredStep == ASSUME IInv, ToastRequired PROVE IInv'
  BY RenderStep DEF ToastRequired

(* Every click of a user.                                                      *)
LEMMA WorkOrdersStep == ASSUME IInv, WorkOrdersUser PROVE IInv'
<1>1. CASE handleConfirm
  <2>1. CASE confirmAction.type = "create" /\ handleCreate
    <3>1. CASE ToastRequired
      BY <3>1, ToastRequiredStep
    <3>2. CASE Filled(view, form) /\ Submit("create", NoId, form, Pending) /\ Acknowledge
               /\ UNCHANGED dialogs
      <4>1. acked \subseteq acked' /\ acked' \subseteq AllViews \X Actions
        BY <3>2, Shapes DEF Acknowledge, IInv, TypeOK
      <4>. QED BY <3>2, <4>1, CreateStep
    <3>. QED BY <2>1, <3>1, <3>2 DEF handleCreate
  <2>2. CASE confirmAction.type \in {"update", "delete"}
    BY <1>1, <2>2, ConfirmedStep DEF handleConfirm
  <2>. QED BY <1>1, <2>1, <2>2 DEF handleConfirm
<1>2. CASE handleEditSave
  <2>1. CASE ToastRequired
    BY <2>1, ToastRequiredStep
  <2>2. CASE Filled(view, form) /\ Submit("edit", editing, form, Pending)
             /\ UNCHANGED <<dialogs, acked>>
    <3>1. PICK n : n = Invoke("edit", editing, form, Pending)
      OBVIOUS
    <3>2. Known(view, editing) /\ view = "workorders"
      BY <1>2 DEF handleEditSave, OnWorkOrders, IInv, DialogsOK
    <3>3. CallOK(n)'
      BY <2>2, <3>1, <3>2, Invoked DEF CallOK, Known, Submit, Filled, IInv, TypeOK
    <3>4. acked \subseteq acked' /\ acked' \subseteq AllViews \X Actions
      BY <2>2 DEF IInv, TypeOK
    <3>. QED BY <2>2, <3>1, <3>3, <3>4, SubmitStep, Shapes DEF Ops, IInv, TypeOK
  <2>. QED BY <1>2, <2>1, <2>2 DEF handleEditSave
<1>3. CASE \E t \in Text : WorkOrderForm(t)
  BY <1>3, DialogStep DEF WorkOrderForm
<1>. QED BY <1>1, <1>2, <1>3, DialogStep DEF WorkOrdersUser, NewWorkOrder, handleDelete,
                                                OrderRow

(* Assets and requests: created from the form, deleted when confirmed.         *)
LEMMA FormStep ==
  ASSUME IInv, \/ ~ Filled(view, form) /\ ToastRequired
               \/ /\ Filled(view, form)
                  /\ Submit("create", NoId, form, Pending)
                  /\ UNCHANGED <<dialogs, acked>>
  PROVE  IInv'
<1>1. CASE ToastRequired
  BY <1>1, ToastRequiredStep
<1>2. CASE Filled(view, form) /\ Submit("create", NoId, form, Pending)
           /\ UNCHANGED <<dialogs, acked>>
  <2>1. acked \subseteq acked' /\ acked' \subseteq AllViews \X Actions
    BY <1>2 DEF IInv, TypeOK
  <2>. QED BY <1>2, <2>1, CreateStep
<1>. QED BY <1>1, <1>2

LEMMA ConfirmDeleteStep ==
  ASSUME IInv, view # "workorders", confirmAction # NoAction,
         Submit("delete", confirmAction.id, Empty, Pending),
         Acknowledge, UNCHANGED dialogs
  PROVE  IInv'
<1>1. confirmAction.type = "delete" /\ confirmAction.status = Pending
  BY DEF IInv, DialogsOK
<1>. QED BY <1>1, ConfirmedStep

LEMMA AssetsStep == ASSUME IInv, AssetsUser PROVE IInv'
<1>1. CASE CreateAsset
  BY <1>1, FormStep DEF CreateAsset
<1>2. CASE ConfirmDeleteAsset
  BY <1>2, ConfirmDeleteStep DEF ConfirmDeleteAsset, OnAssets
<1>. QED BY <1>1, <1>2, DialogStep DEF AssetsUser, NewAsset, AssetForm, DeleteAsset, AssetRow

LEMMA HelpdeskStep == ASSUME IInv, HelpdeskUser PROVE IInv'
<1>1. CASE CreateRequest
  BY <1>1, FormStep DEF CreateRequest
<1>2. CASE ConfirmDeleteRequest
  BY <1>2, ConfirmDeleteStep DEF ConfirmDeleteRequest, OnHelpdesk
<1>. QED BY <1>1, <1>2, DialogStep DEF HelpdeskUser, NewRequest, RequestForm, DeleteRequest,
                                                RequestRow

LEMMA ConflictsStep == ASSUME IInv, ConflictsUser PROVE IInv'
<1>1. PICK i \in Ids : handleResolve(i)
  BY DEF ConflictsUser
<1>2. PICK n : n = Invoke("resolve", i, Empty, Pending)
  OBVIOUS
<1>3. Known(view, i) /\ view = "conflicts"
  BY <1>1 DEF handleResolve, OnConflicts, ConflictCard, Clickable, IInv, DialogsOK
<1>4. CallOK(n)'
  BY <1>1, <1>2, <1>3, Invoked DEF CallOK, Known, handleResolve, Submit, IInv, TypeOK
<1>5. acked \subseteq acked' /\ acked' \subseteq AllViews \X Actions
  BY <1>1 DEF handleResolve, IInv, TypeOK
<1>. QED BY <1>1, <1>2, <1>4, <1>5, SubmitStep, Shapes DEF Ops, handleResolve

LEMMA SettingsStep == ASSUME IInv, SettingsUser PROVE IInv'
<1>1. CASE handleSaveGateway
  <2>1. CASE ToastRequired
    BY <2>1, ToastRequiredStep
  <2>2. CASE Submit("set_url", SyncState, form, Pending) /\ UNCHANGED <<dialogs, acked>>
    <3>1. PICK n : n = Invoke("set_url", SyncState, form, Pending)
      OBVIOUS
    <3>2. SyncState \in Ids
      BY DataAssumption DEF SyncState
    <3>3. CallOK(n)'
      BY <1>1, <2>2, <3>1, <3>2, Invoked
      DEF CallOK, handleSaveGateway, OnSettings, Submit, IInv, TypeOK
    <3>4. acked \subseteq acked' /\ acked' \subseteq AllViews \X Actions
      BY <2>2 DEF IInv, TypeOK
    <3>. QED BY <2>2, <3>1, <3>2, <3>3, <3>4, SubmitStep, Shapes DEF Ops, IInv, TypeOK
  <2>. QED BY <1>1, <2>1, <2>2 DEF handleSaveGateway
<1>2. CASE \E t \in Text : GatewayInput(t)
  BY <1>2, DialogStep DEF GatewayInput
<1>. QED BY <1>1, <1>2 DEF SettingsUser

(* Another view is mounted.                                                    *)
LEMMA NavigateStep ==
  ASSUME IInv, NEW v \in Views, Navigate(v)
  PROVE  IInv'
<1>1. events' \in 0 .. MaxEvents /\ mounts' \in 0 .. events' /\ mounts' = mounts + 1
      /\ mounts \in Nat
  BY BoundsAssumption DEF IInv, TypeOK, Navigate, Event
<1>2. v \in AllViews /\ mounts' \in 0 .. MaxEvents
  BY <1>1, Shapes, BoundsAssumption
<1>3. PICK n \in Call : /\ n = [ListCall EXCEPT !.view = v, !.mount = mounts']
                        /\ n.op = "list" /\ n.view = v /\ n.mount = mounts'
                        /\ n.reply = "none" /\ n.answer = NoList
  <2>1. [ListCall EXCEPT !.view = v, !.mount = mounts'] \in Call
    BY <1>2, ListCallOK DEF IInv, Call
  <2>2. ListCall.reply = "none" /\ ListCall.answer = NoList
    BY DEF ListCall, Invoke
  <2>. QED BY <2>1, <2>2, ListCallOK DEF IInv, Call
<1>4. InFlight' = InFlight \cup {n}
  BY <1>3, PutSet DEF Navigate, InFlight
<1>5. UNCHANGED <<table, acked, told>> /\ view' = v
  BY DEF Navigate
<1>6. TypeOK'
  BY <1>1, <1>3, <1>4, <1>5, Shapes DEF IInv, TypeOK, Navigate
<1>7. DialogsOK'
  BY Shapes DEF Navigate, DialogsOK, NoList, NoAction
<1>8. CallsOK'
  <2>1. ASSUME NEW c \in InFlight PROVE CallOK(c)'
    <3>1. CallOK(c) /\ c.mount \in Nat
      BY BoundsAssumption DEF IInv, TypeOK, Call, CallsOK
    <3>2. c.mount <= mounts' /\ c.mount # mounts'
      BY <1>1, <3>1 DEF CallOK
    <3>. QED BY <1>5, <3>1, <3>2 DEF CallOK, Known, Confirmed, Filled
  <2>2. CallOK(n)'
    BY <1>1, <1>3, <1>5 DEF CallOK, NoList
  <2>. QED BY <1>4, <2>1, <2>2 DEF CallsOK
<1>9. ToldIsDone'
  BY <1>5, ToldStays DEF IInv
<1>. QED BY <1>5, <1>6, <1>7, <1>8, <1>9, TableStays

---------------------------------------------------------------------------------
(* The answers.                                                                *)
LEMMA LoadStep ==
  ASSUME IInv, NEW c \in InFlight, Load(c)
  PROVE  IInv'
<1>1. c \in Call /\ CallOK(c) /\ c.op = "list"
  BY DEF IInv, TypeOK, CallsOK, Load
<1>2. loading' \in BOOLEAN
  BY DEF Load, Sets, IInv, TypeOK
<1>3. UNCHANGED <<table, view, mounts, events, dialogs, acked>>
  BY DEF Load, counts
<1>4. CASE Succeeded(c) /\ shown' = Sets(c, shown, c.answer) /\ calls' = Drop(c)
           /\ UNCHANGED told
  <2>1. InFlight' \subseteq InFlight
    BY <1>4, DropSet DEF InFlight
  <2>2. shown' = shown \/ (shown' = c.answer /\ c.view = view)
    <3>1. c.mount = mounts => c.view = view
      BY <1>1 DEF CallOK
    <3>. QED BY <1>4, <3>1 DEF Sets
  <2>3. shown' \in Listings
    BY <1>1, <2>2 DEF Call, IInv, TypeOK
  <2>4. TypeOK'
    BY <1>2, <1>3, <1>4, <2>1, <2>3 DEF IInv, TypeOK, dialogs
  <2>5. \A i \in DOMAIN shown' : Known(view, i)
    BY <1>1, <2>2 DEF IInv, DialogsOK, CallOK
  <2>6. DialogsOK'
    BY <1>3, <2>5 DEF IInv, DialogsOK, Known, dialogs
  <2>7. CallsOK'
    BY <1>3, <2>1, CallsStay DEF IInv, CallsOK
  <2>8. ToldIsDone'
    BY <1>3, <1>4, ToldStays DEF IInv
  <2>. QED BY <1>3, <2>4, <2>6, <2>7, <2>8, TableStays
<1>5. CASE Failed(c) /\ ToastError(c) /\ UNCHANGED shown
  <2>1. DialogShape' /\ DialogsOK'
    BY <1>3, <1>5 DEF DialogShape, IInv, TypeOK, DialogsOK, Known, dialogs
  <2>2. UNCHANGED counts
    BY DEF Load
  <2>. QED BY <1>2, <1>3, <1>5, <2>1, <2>2, ToastErrorStep
<1>. QED BY <1>4, <1>5 DEF Load

LEMMA CreateAnsweredStep ==
  ASSUME IInv, NEW c \in InFlight, NEW closed \in {NoAction, confirmAction},
         CreateAnswered(c, closed)
  PROVE  IInv'
<1>1. UNCHANGED <<table, view, loading, shown, counts, acked>> /\ c.op = "create"
      /\ loading \in BOOLEAN
  BY DEF CreateAnswered, list, IInv, TypeOK
<1>2. DialogShape /\ DialogsOK
  BY DEF DialogShape, IInv, TypeOK
<1>3. CASE Failed(c) /\ ToastError(c) /\ UNCHANGED dialogs
  <2>1. DialogShape' /\ DialogsOK'
    BY <1>1, <1>2, <1>3 DEF DialogShape, DialogsOK, Known, dialogs
  <2>2. loading' \in BOOLEAN
    BY <1>1
  <2>. QED BY <1>1, <1>3, <2>1, <2>2, ToastErrorStep
<1>4. CASE Succeeded(c) /\ ToastDone(c, {"new"}) /\ ~ (Failed(c) /\ UNCHANGED dialogs)
  <2>1. /\ showCreate' \in {showCreate, FALSE} /\ editing' = editing
        /\ confirmAction' \in {confirmAction, NoAction} /\ form' \in {form, Empty}
    BY <1>4 DEF CreateAnswered, Sets, Succeeded, Failed
  <2>2. DialogShape'
    BY <1>2, <2>1, Shapes DEF DialogShape
  <2>3. DialogsOK'
    <3>1. NoAction.type = "none"
      BY DEF NoAction
    <3>. QED BY <1>1, <1>2, <2>1, <3>1 DEF DialogsOK, Known
  <2>. QED BY <1>1, <1>4, <2>2, <2>3, ToastStep
<1>. QED BY <1>3, <1>4 DEF CreateAnswered, Succeeded, Failed

LEMMA ConfirmedAnsweredStep ==
  ASSUME IInv, NEW c \in InFlight, NEW says \in SUBSET {"gone"},
         says # {} => c.op = "delete", ConfirmedAnswered(c, says)
  PROVE  IInv'
<1>1. UNCHANGED <<table, view, loading, shown, counts, acked>> /\ loading \in BOOLEAN
  BY DEF ConfirmedAnswered, list, IInv, TypeOK
<1>2. UNCHANGED <<showCreate, editing, form>> /\ confirmAction' \in {confirmAction, NoAction}
  BY DEF ConfirmedAnswered, Sets
<1>3. DialogShape' /\ DialogsOK'
  BY <1>1, <1>2, Shapes DEF DialogShape, DialogsOK, Known, NoAction, IInv, TypeOK
<1>. QED BY <1>1, <1>3, ToastStep DEF ConfirmedAnswered, Toast

LEMMA EditAnsweredStep ==
  ASSUME IInv, NEW c \in InFlight, EditAnswered(c)
  PROVE  IInv'
<1>1. UNCHANGED <<table, view, loading, shown, counts, acked>> /\ loading \in BOOLEAN
  BY DEF EditAnswered, list, IInv, TypeOK
<1>2. /\ showCreate' = showCreate /\ editing' \in {editing, NoId}
      /\ confirmAction' \in {confirmAction, NoAction} /\ form' \in {form, Empty}
  BY DEF EditAnswered, Sets, dialogs
<1>3. DialogShape' /\ DialogsOK'
  BY <1>1, <1>2, Shapes DEF DialogShape, DialogsOK, Known, NoAction, IInv, TypeOK
<1>4. (Succeeded(c) /\ ToastDone(c, {})) \/ ToastError(c)
  BY DEF EditAnswered
<1>. QED BY <1>1, <1>3, <1>4, ToastStep

(* An answer that leaves the dialogs alone.                                    *)
LEMMA AnswerStep ==
  ASSUME IInv, NEW c \in InFlight, NEW says \in SUBSET {"gone"},
         says # {} => c.op \in {"delete", "resolve"}, Toast(c, says),
         UNCHANGED <<table, view, list, dialogs, counts, acked>>
  PROVE  IInv'
<1>1. DialogShape' /\ DialogsOK' /\ UNCHANGED shown /\ loading' \in BOOLEAN
  BY DEF DialogShape, DialogsOK, Known, IInv, TypeOK, list, dialogs
<1>. QED BY <1>1, ToastStep DEF Toast

LEMMA LoadSettingsStep ==
  ASSUME IInv, NEW c \in InFlight, loadSettings(c)
  PROVE  IInv'
<1>1. UNCHANGED <<table, view, shown, dialogs, mounts, events, acked>>
      /\ loading' \in BOOLEAN
  BY DEF loadSettings, Sets, counts, IInv, TypeOK
<1>2. DialogShape' /\ DialogsOK'
  BY <1>1 DEF DialogShape, DialogsOK, Known, IInv, TypeOK, dialogs
<1>3. CASE calls' = Drop(c) /\ UNCHANGED told
  <2>1. InFlight' \subseteq InFlight
    BY <1>3, DropSet DEF InFlight
  <2>2. TypeOK'
    BY <1>1, <1>3, <2>1 DEF IInv, TypeOK, dialogs
  <2>3. CallsOK'
    BY <1>1, <2>1, CallsStay DEF IInv, CallsOK
  <2>4. ToldIsDone'
    BY <1>1, <1>3, ToldStays DEF IInv
  <2>. QED BY <1>1, <1>2, <2>2, <2>3, <2>4, TableStays
<1>4. CASE ToastError(c)
  <2>1. UNCHANGED counts
    BY DEF loadSettings
  <2>. QED BY <1>1, <1>2, <1>4, <2>1, ToastErrorStep
<1>. QED BY <1>3, <1>4 DEF loadSettings

LEMMA AnswersStep ==
  ASSUME IInv, NEW c \in InFlight, Answer(c)
  PROVE  IInv'
<1>1. CASE WorkOrdersAnswer(c)
  <2>1. CASE ConfirmAnswered(c)
    BY <2>1, ConfirmedAnsweredStep DEF ConfirmAnswered
  <2>. QED BY <1>1, <2>1, LoadStep, CreateAnsweredStep, EditAnsweredStep
           DEF WorkOrdersAnswer, loadOrders, WorkOrderCreated
<1>2. CASE AssetsAnswer(c)
  BY <1>2, LoadStep, CreateAnsweredStep, ConfirmedAnsweredStep
  DEF AssetsAnswer, loadAssets, AssetCreated, AssetDeleted
<1>3. CASE HelpdeskAnswer(c)
  BY <1>3, LoadStep, CreateAnsweredStep, ConfirmedAnsweredStep
  DEF HelpdeskAnswer, loadRequests, RequestCreated, RequestDeleted
<1>4. CASE ConflictsAnswer(c)
  BY <1>4, LoadStep, AnswerStep DEF ConflictsAnswer, loadConflicts, Resolved
<1>5. CASE SettingsAnswer(c)
  BY <1>5, LoadSettingsStep, AnswerStep DEF SettingsAnswer, GatewaySaved
<1>. QED BY <1>1, <1>2, <1>3, <1>4, <1>5 DEF Answer

---------------------------------------------------------------------------------
(* The commands.                                                               *)
LEMMA GivenShape ==
  ASSUME IInv, NEW c \in InFlight, c.reply = "none", HasId(c)
  PROVE  /\ Given(c) \in Call /\ CallOK(Given(c)) /\ Given(c).reply = "none"
         /\ Given(c).op = c.op /\ Given(c).view = c.view /\ Given(c).mount = c.mount
         /\ c.op = "create" =>
              Given(c).id \in Ids /\ table[c.view][Given(c).id].state = "absent"
         /\ c.op # "create" => Given(c) = c
<1>. c \in Call /\ CallOK(c)
  BY DEF IInv, TypeOK, CallsOK
<1>1. CASE c.op # "create"
  BY <1>1 DEF Given
<1>2. CASE c.op = "create"
  <2>. DEFINE i == CHOOSE i \in Ids : table[c.view][i].state = "absent"
  <2>1. i \in Ids /\ table[c.view][i].state = "absent"
    BY <1>2 DEF HasId
  <2>2. Given(c) = [c EXCEPT !.id = i]
    BY <1>2 DEF Given
  <2>. HIDE DEF i
  <2>3. Given(c) \in Call
    BY <2>1, <2>2 DEF Call
  <2>4. /\ Given(c).op = c.op /\ Given(c).view = c.view /\ Given(c).mount = c.mount
        /\ Given(c).id = i /\ Given(c).text = c.text /\ Given(c).reply = c.reply
        /\ Given(c).answer = c.answer
    BY <2>2 DEF Call
  <2>5. CallOK(Given(c))
    BY <1>2, <2>4 DEF CallOK
  <2>. QED BY <1>2, <2>1, <2>3, <2>4, <2>5
<1>. QED BY <1>1, <1>2

(* A write replaces one row by one that differs in what the call is for.       *)
RowWritten(c, row, new) ==
  /\ table' = [table EXCEPT ![c.view][c.id] = new]
  /\ c.op = "create" =>
       row.state = "absent" /\ new.state = "live" /\ new.text = c.text
       /\ new.status = Pending
  /\ c.op \in {"edit", "set_url"} =>
       new.text = c.text /\ new.state = row.state /\ new.status = row.status
  /\ c.op = "update" =>
       new.status = c.status /\ new.text = row.text /\ new.state = row.state
  /\ c.op \in {"delete", "resolve"} =>
       new.state = "gone" /\ new.text = row.text /\ new.status = row.status

LEMMA RowStep ==
  ASSUME IInv, NEW c \in Call, CallOK(c), c.op # "list",
         c.op = "create" => c.id \in Ids /\ table[c.view][c.id].state = "absent",
         Apply(c)
  PROVE  /\ c.id \in Ids /\ table[c.view][c.id] \in Row
         /\ c.op \notin {"create", "set_url"} => table[c.view][c.id].state # "absent"
         /\ \E new \in Row : RowWritten(c, table[c.view][c.id], new)
<1>. DEFINE row == table[c.view][c.id]
<1>0. table \in [AllViews -> [Ids -> Row]] /\ c.view \in AllViews /\ c.text \in Form
      /\ c.status \in Statuses /\ c.op \in Ops /\ Pending \in Statuses
  BY DataAssumption DEF IInv, TypeOK, Call
<1>1. c.id \in Ids /\ row \in Row
      /\ (c.op \notin {"create", "set_url"} => row.state # "absent")
  BY <1>0 DEF CallOK, Known, Ops
<1>. USE DEF RowWritten
<1>2. CASE c.op = "create"
  <2>. DEFINE new == [state |-> "live", text |-> c.text, status |-> Pending]
  <2>1. new \in Row /\ table' = [table EXCEPT ![c.view][c.id] = new]
    BY <1>0, <1>2 DEF Row, Apply, Change
  <2>. QED BY <1>1, <1>2, <2>1
<1>3. CASE c.op \in {"edit", "set_url"}
  <2>. DEFINE new == [row EXCEPT !.text = c.text]
  <2>1. table' = [table EXCEPT ![c.view][c.id] = new]
    BY <1>3 DEF Apply, Change
  <2>2. new \in Row /\ new.text = c.text /\ new.state = row.state /\ new.status = row.status
    BY <1>0, <1>1 DEF Row
  <2>. QED BY <1>1, <1>3, <2>1, <2>2
<1>4. CASE c.op = "update"
  <2>. DEFINE new == [row EXCEPT !.status = c.status]
  <2>1. table' = [table EXCEPT ![c.view][c.id] = new]
    BY <1>4 DEF Apply, Change
  <2>2. new \in Row /\ new.status = c.status /\ new.text = row.text /\ new.state = row.state
    BY <1>0, <1>1 DEF Row
  <2>. QED BY <1>1, <1>4, <2>1, <2>2
<1>5. CASE c.op \in {"delete", "resolve"}
  <2>. DEFINE new == [row EXCEPT !.state = "gone"]
  <2>1. table' = [table EXCEPT ![c.view][c.id] = new]
    BY <1>5 DEF Apply, Change
  <2>2. new \in Row /\ new.state = "gone" /\ new.text = row.text /\ new.status = row.status
    BY <1>1 DEF Row
  <2>. QED BY <1>1, <1>5, <2>1, <2>2
<1>. QED BY <1>0, <1>1, <1>2, <1>3, <1>4, <1>5 DEF Ops

(* A write changes one row, and in the ways CallOK allows.                     *)
LEMMA ApplyStep ==
  ASSUME IInv, NEW c \in Call, CallOK(c),
         c.op = "create" => c.id \in Ids /\ table[c.view][c.id].state = "absent",
         Apply(c), UNCHANGED acked
  PROVE  /\ table' \in [AllViews -> [Ids -> Row]]
         /\ \A v \in AllViews, i \in Ids :
              /\ table[v][i].state # "absent" => table'[v][i].state # "absent"
              /\ table[v][i].state = "gone" => table'[v][i].state = "gone"
         /\ c.op = "create" => c.id \in Ids /\ table'[c.view][c.id].state # "absent"
         /\ c.op \in {"delete", "resolve"} => table'[c.view][c.id].state = "gone"
         /\ c.op = "list" => UNCHANGED table
         /\ RequiredFilled' /\ ChangesConfirmed'
<1>. DEFINE row == table[c.view][c.id]
<1>0. table \in [AllViews -> [Ids -> Row]] /\ c.view \in AllViews /\ c.text \in Form
      /\ c.status \in Statuses /\ c.op \in Ops /\ Pending \in Statuses
  BY DataAssumption DEF IInv, TypeOK, Call
<1>1. CASE c.op = "list"
  BY <1>0, <1>1 DEF Apply, IInv, RequiredFilled, Filled, ChangesConfirmed
<1>2. CASE c.op # "list"
  <2>1. c.id \in Ids /\ row \in Row
        /\ (c.op \notin {"create", "set_url"} => row.state # "absent")
    BY <1>2, RowStep
  <2>2. PICK new \in Row : RowWritten(c, row, new)
    BY <1>2, RowStep
  <2>. HIDE DEF row
  <2>. USE DEF RowWritten
  <2>3. /\ table' \in [AllViews -> [Ids -> Row]] /\ table'[c.view][c.id] = new
        /\ \A v \in AllViews, i \in Ids :
             v # c.view \/ i # c.id => table'[v][i] = table[v][i]
    BY <1>0, <2>1, <2>2
  <2>4. row.state # "absent" => new.state # "absent" /\ (row.state = "gone" => new.state = "gone")
    BY <1>0, <1>2, <2>2 DEF Ops
  <2>5. \A v \in AllViews, i \in Ids :
              /\ table[v][i].state # "absent" => table'[v][i].state # "absent"
              /\ table[v][i].state = "gone" => table'[v][i].state = "gone"
    BY <2>3, <2>4 DEF row
  <2>6. RequiredFilled'
    <3>1. ASSUME c.view # "settings", new.state # "absent"
          PROVE  Filled(c.view, new.text)
      <4>1. row.state # "absent" => Filled(c.view, row.text)
        BY <1>0, <2>1, <3>1 DEF row, IInv, RequiredFilled
      <4>. QED BY <1>0, <1>2, <2>1, <2>2, <3>1, <4>1 DEF Ops, CallOK
    <3>2. ASSUME NEW v \in AllViews \ {"settings"}, NEW i \in Ids,
                 table'[v][i].state # "absent"
          PROVE  Filled(v, table'[v][i].text)
      <4>1. CASE v = c.view /\ i = c.id
        BY <2>3, <3>1, <3>2, <4>1
      <4>2. CASE v # c.view \/ i # c.id
        BY <2>3, <3>2, <4>2 DEF IInv, RequiredFilled
      <4>. QED BY <4>1, <4>2
    <3>. QED BY <3>2 DEF RequiredFilled, Filled
  <2>7. ChangesConfirmed'
    <3>1. ASSUME NEW i \in Ids, NEW v \in {"workorders", "assets", "helpdesk"},
                 table'[v][i].state = "gone"
          PROVE  <<v, Deletion(i)>> \in acked
      <4>1. CASE table[v][i].state = "gone"
        BY <4>1 DEF IInv, ChangesConfirmed
      <4>2. CASE table[v][i].state # "gone"
        <5>1. v = c.view /\ i = c.id /\ new.state = "gone" /\ row.state # "gone"
          BY <2>3, <3>1, <4>2 DEF AllViews, row
        <5>2. c.op = "delete"
          BY <1>0, <1>2, <2>2, <5>1, <3>1 DEF Ops, CallOK
        <5>. QED BY <5>1, <5>2 DEF CallOK, Confirmed
      <4>. QED BY <4>1, <4>2
    <3>2. ASSUME NEW i \in Ids, table'["workorders"][i].status # Pending
          PROVE  <<"workorders", [type |-> "update", id |-> i,
                                 status |-> table'["workorders"][i].status]>> \in acked
      <4>1. CASE table'["workorders"][i].status = table["workorders"][i].status
        BY <3>2, <4>1 DEF IInv, ChangesConfirmed
      <4>2. CASE table'["workorders"][i].status # table["workorders"][i].status
        <5>1. "workorders" = c.view /\ i = c.id /\ new.status # row.status
              /\ new.status = table'["workorders"][i].status
          BY <2>3, <4>2 DEF AllViews, row
        <5>2. c.op = "update" /\ new.status = c.status
          BY <1>0, <1>2, <2>2, <3>2, <5>1 DEF Ops
        <5>. QED BY <5>1, <5>2 DEF CallOK
      <4>. QED BY <4>1, <4>2
    <3>. QED BY <3>1, <3>2 DEF ChangesConfirmed
  <2>8. c.op = "create" => c.id \in Ids /\ table'[c.view][c.id].state # "absent"
    BY <2>1, <2>2, <2>3
  <2>9. c.op \in {"delete", "resolve"} => table'[c.view][c.id].state = "gone"
    BY <2>2, <2>3
  <2>. QED BY <1>2, <2>3, <2>5, <2>6, <2>7, <2>8, <2>9
<1>. QED BY <1>1, <1>2

(* What is known of a call stays so when the table changes as it may.          *)
LEMMA CallKept ==
  ASSUME NEW c \in Call, CallOK(c), UNCHANGED <<view, mounts, acked>>,
         \A v \in AllViews, i \in Ids :
           /\ table[v][i].state # "absent" => table'[v][i].state # "absent"
           /\ table[v][i].state = "gone" => table'[v][i].state = "gone",
         c.reply = "ok" /\ c.op \in {"create", "delete", "resolve"} => c.id \in Ids
  PROVE  CallOK(c)'
<1>. c.view \in AllViews
  BY DEF Call
<1>1. \A i : Known(c.view, i) => Known(c.view, i)'
  BY DEF Known
<1>2. c.reply = "ok" /\ c.op \in {"delete", "resolve"} => table'[c.view][c.id].state = "gone"
  BY DEF CallOK
<1>. QED BY <1>1, <1>2 DEF CallOK, Filled, Confirmed

(* A command: what it replies with joins the calls.                            *)
LEMMA CommandStep ==
  ASSUME IInv, NEW c \in InFlight, NEW r \in Call, calls' = Replied(c, r), CallOK(r)',
         \A v \in AllViews, i \in Ids :
           /\ table[v][i].state # "absent" => table'[v][i].state # "absent"
           /\ table[v][i].state = "gone" => table'[v][i].state = "gone",
         table' \in [AllViews -> [Ids -> Row]], RequiredFilled', ChangesConfirmed',
         events' \in {events, events + 1}, events' \in 0 .. MaxEvents,
         UNCHANGED <<view, list, dialogs, mounts, acked, told>>
  PROVE  IInv'
<1>1. InFlight' \subseteq InFlight \cup {r}
  BY PutSet, DropSet DEF Replied, InFlight
<1>2. TypeOK'
  <2>1. mounts' \in 0 .. events'
    BY BoundsAssumption DEF IInv, TypeOK
  <2>. QED BY <1>1, <2>1 DEF IInv, TypeOK, list, dialogs
<1>3. DialogsOK'
  <2>1. view \in AllViews
    BY Shapes DEF IInv, TypeOK
  <2>2. \A i : Known(view, i) => Known(view, i)'
    BY <2>1 DEF Known
  <2>. QED BY <2>2 DEF IInv, DialogsOK, list, dialogs
<1>4. CallsOK'
  <2>1. ASSUME NEW n \in InFlight PROVE CallOK(n)'
    <3>1. n \in Call /\ CallOK(n)
      BY DEF IInv, TypeOK, CallsOK
    <3>2. n.reply = "ok" /\ n.op \in {"create", "delete", "resolve"} => n.id \in Ids
      BY <3>1 DEF CallOK, Known
    <3>. QED BY <3>1, <3>2, CallKept
  <2>. QED BY <1>1, <2>1 DEF CallsOK
<1>5. ToldIsDone'
  <2>1. \A what \in told : what[2] \in AllViews
    BY DEF IInv, TypeOK
  <2>. QED BY <2>1 DEF IInv, ToldIsDone
<1>. QED BY <1>2, <1>3, <1>4, <1>5 DEF IInv

LEMMA HandleStep ==
  ASSUME IInv, NEW c \in InFlight, Handle(c)
  PROVE  IInv'
<1>1. PICK r : /\ r = [Given(c) EXCEPT !.reply = "ok",
                      !.answer = IF c.op = "list" THEN Listing(c.view) ELSE NoList]
               /\ calls' = Replied(c, r)
  BY DEF Handle
<1>2. PICK k : k = Given(c)
  OBVIOUS
<1>3. /\ k \in Call /\ CallOK(k) /\ k.op = c.op /\ k.view = c.view /\ k.mount = c.mount
      /\ k.op = "create" => k.id \in Ids /\ table[k.view][k.id].state = "absent"
      /\ Apply(k)
  BY <1>2, GivenShape DEF Handle
<1>4. /\ table' \in [AllViews -> [Ids -> Row]]
      /\ \A v \in AllViews, i \in Ids :
            /\ table[v][i].state # "absent" => table'[v][i].state # "absent"
            /\ table[v][i].state = "gone" => table'[v][i].state = "gone"
      /\ k.op = "create" => k.id \in Ids /\ table'[k.view][k.id].state # "absent"
      /\ k.op \in {"delete", "resolve"} => table'[k.view][k.id].state = "gone"
      /\ k.op = "list" => UNCHANGED table
      /\ RequiredFilled' /\ ChangesConfirmed'
  BY <1>3, ApplyStep DEF Handle
<1>5. PICK answer : answer = IF c.op = "list" THEN Listing(c.view) ELSE NoList
  OBVIOUS
<1>6. answer \in Listings /\ (\A i \in DOMAIN answer : Known(k.view, i) /\ k.op = "list")
  <2>1. k.view \in AllViews
    BY <1>3 DEF Call
  <2>2. CASE c.op = "list"
    BY <1>3, <1>5, <2>1, <2>2, ListingShape DEF IInv, Listing, Live, Known
  <2>3. CASE c.op # "list"
    BY <1>5, <2>3, Shapes DEF NoList
  <2>. QED BY <2>2, <2>3
<1>7. /\ r \in Call /\ r.op = k.op /\ r.view = k.view /\ r.mount = k.mount /\ r.id = k.id
      /\ r.text = k.text /\ r.status = k.status /\ r.reply = "ok" /\ r.answer = answer
  BY <1>1, <1>2, <1>3, <1>5, <1>6 DEF Call
<1>8. CallOK(r)'
  <2>1. k.view \in AllViews
    BY <1>3 DEF Call
  <2>2. UNCHANGED <<view, mounts, acked>>
    BY DEF Handle, counts
  <2>3. \A i : Known(k.view, i) => Known(k.view, i)'
    BY <1>4, <2>1 DEF Known
  <2>4. \A i \in DOMAIN answer : Known(k.view, i)'
    BY <1>6, <2>3
  <2>5. k.op = "create" => Known(k.view, k.id)'
    BY <1>4 DEF Known
  <2>. QED BY <1>3, <1>4, <1>7, <2>2, <2>3, <2>4, <2>5 DEF CallOK, Filled, Confirmed
<1>9. events' = events /\ events \in 0 .. MaxEvents
      /\ UNCHANGED <<view, list, dialogs, mounts, acked, told>>
  BY DEF Handle, counts, IInv, TypeOK
<1>. QED BY <1>1, <1>4, <1>7, <1>8, <1>9, CommandStep

LEMMA HandleFailsStep ==
  ASSUME IInv, NEW c \in InFlight, HandleFails(c)
  PROVE  IInv'
<1>1. PICK r : r = [c EXCEPT !.reply = "error"] /\ calls' = Replied(c, r)
  BY DEF HandleFails
<1>2. c \in Call /\ CallOK(c)
  BY DEF IInv, TypeOK, CallsOK
<1>3. /\ r \in Call /\ r.op = c.op /\ r.view = c.view /\ r.mount = c.mount /\ r.id = c.id
      /\ r.text = c.text /\ r.status = c.status /\ r.reply = "error" /\ r.answer = c.answer
  BY <1>1, <1>2 DEF Call
<1>4. CallOK(r)
  BY <1>2, <1>3 DEF CallOK
<1>5. events' = events + 1 /\ events' \in 0 .. MaxEvents
      /\ UNCHANGED <<view, list, dialogs, mounts, acked, told>>
  BY BoundsAssumption DEF HandleFails, Event, IInv, TypeOK
<1>6. /\ table' \in [AllViews -> [Ids -> Row]]
      /\ \A v \in AllViews, i \in Ids :
            /\ table[v][i].state # "absent" => table'[v][i].state # "absent"
            /\ table[v][i].state = "gone" => table'[v][i].state = "gone"
      /\ RequiredFilled' /\ ChangesConfirmed'
  <2>1. CASE UNCHANGED table
    BY <1>5, <2>1 DEF IInv, TypeOK, RequiredFilled, Filled, ChangesConfirmed
  <2>2. CASE HasId(c) /\ Apply(Given(c))
    <3>1. PICK k : k = Given(c)
      OBVIOUS
    <3>2. /\ k \in Call /\ CallOK(k) /\ k.op = c.op /\ k.view = c.view
          /\ k.op = "create" => k.id \in Ids /\ table[k.view][k.id].state = "absent"
          /\ Apply(k)
      BY <2>2, <3>1, GivenShape DEF HandleFails
    <3>. QED BY <1>5, <3>2, ApplyStep
  <2>. QED BY <2>1, <2>2 DEF HandleFails
<1>7. CallOK(r)'
  BY <1>3, <1>4, <1>5, <1>6, CallKept
<1>. QED BY <1>1, <1>3, <1>5, <1>6, <1>7, CommandStep

---------------------------------------------------------------------------------
LEMMA InitInv == Init => IInv
<1>. SUFFICES ASSUME Init PROVE IInv
  OBVIOUS
<1>1. \A v \in AllViews, i \in Ids :
        /\ table[v][i] = AtStart(v, i) /\ AtStart(v, i) \in Row
        /\ AtStart(v, i).state \in {"live", "absent"} /\ AtStart(v, i).status = Pending
        /\ AtStart(v, i).state = "live" => AtStart(v, i).text = StoredText[v]
  BY Shapes, StoredAssumption DEF Init, AtStart, Row
<1>2. table \in [AllViews -> [Ids -> Row]]
  BY <1>1 DEF Init
<1>3. /\ view \in Views /\ loading \in BOOLEAN /\ shown \in Listings
      /\ showCreate \in BOOLEAN /\ editing \in Ids \cup {NoId}
      /\ confirmAction \in Actions /\ form \in Form
      /\ events \in 0 .. MaxEvents /\ mounts \in 0 .. events
      /\ acked = {} /\ told = {} /\ InFlight = {ListCall}
  <2>1. InFlight = {ListCall}
    BY DEF Init, InFlight, BagToSet, SetToBag
  <2>2. events \in 0 .. MaxEvents /\ mounts \in 0 .. events
    BY BoundsAssumption DEF Init
  <2>. QED BY <2>1, <2>2, Shapes, ViewsAssumption DEF Init
<1>4. ListCall \in Call
  BY <1>3, Shapes, BoundsAssumption DEF Init, ListCall, Invoke, Call, Ops
<1>5. TypeOK
  BY <1>2, <1>3, <1>4 DEF TypeOK
<1>6. CallsOK
  BY <1>3, <1>5, ListCallOK DEF CallsOK
<1>7. DialogsOK
  BY DEF Init, DialogsOK, NoList, NoAction
<1>8. RequiredFilled
  <2>1. ASSUME NEW v \in AllViews \ {"settings"}, NEW i \in Ids,
               table[v][i].state # "absent"
        PROVE  Filled(v, table[v][i].text)
    BY <1>1, <2>1, StoredAssumption
  <2>. QED BY <2>1 DEF RequiredFilled
<1>9. ToldIsDone
  BY <1>3 DEF ToldIsDone
<1>10. ChangesConfirmed
  BY <1>1 DEF ChangesConfirmed, AllViews
<1>. QED BY <1>5, <1>6, <1>7, <1>8, <1>9, <1>10 DEF IInv

LEMMA NextInv == IInv /\ [Next]_vars => IInv'
<1>. SUFFICES ASSUME IInv, [Next]_vars PROVE IInv'
  OBVIOUS
<1>1. CASE User
  <2>1. CASE CancelCreate \/ CancelConfirm \/ Escape
    BY <2>1, DialogStep
  <2>. QED BY <1>1, <2>1, WorkOrdersStep, AssetsStep, HelpdeskStep, ConflictsStep,
              SettingsStep, NavigateStep DEF User
<1>2. CASE Rerender
  BY <1>2, RenderStep DEF Rerender
<1>3. CASE \E c \in InFlight : Handle(c) \/ HandleFails(c) \/ Answer(c)
  BY <1>3, HandleStep, HandleFailsStep, AnswersStep
<1>4. CASE UNCHANGED vars
  <2>1. UNCHANGED <<table, view, loading, shown, showCreate, editing, confirmAction, form,
                    calls, mounts, events, acked, told>>
    BY <1>4 DEF vars, list, dialogs, counts
  <2>2. TypeOK' /\ DialogsOK' /\ ToldIsDone'
    BY <2>1 DEF IInv, TypeOK, InFlight, DialogsOK, Known, ToldIsDone
  <2>3. CallsOK'
    BY <2>1, CallsStay DEF IInv, InFlight, CallsOK
  <2>. QED BY <2>1, <2>2, <2>3, TableStays
<1>. QED BY <1>1, <1>2, <1>3, <1>4 DEF Next

(* What makes them inductive holds of every reachable state.                   *)
THEOREM Invariance == Spec => []IInv
  BY InitInv, NextInv, PTL DEF Spec

(* Every value stays of its type: no list, form, dialog or call is confused    *)
(* with another, whatever order the answers come in.                           *)
THEOREM Typing == Spec => []TypeOK
<1>1. IInv => TypeOK
  BY DEF IInv
<1>. QED BY <1>1, Invariance, PTL

(* The checks of the forms at the click are enough for every row the commands  *)
(* keep, although answers reset forms, and the commands check less.            *)
THEOREM RowsFilled == Spec => []RequiredFilled
<1>1. IInv => RequiredFilled
  BY DEF IInv
<1>. QED BY <1>1, Invariance, PTL

(* A toast that says a row was created or deleted, or a conflict resolved, is  *)
(* right, for any number of calls in flight.                                   *)
THEOREM ToastsAreTrue == Spec => []ToldIsDone
<1>1. IInv => ToldIsDone
  BY DEF IInv
<1>. QED BY <1>1, Invariance, PTL

(* Rows are deleted, and statuses change, as confirmed in a ConfirmModal.      *)
THEOREM OnlyConfirmed == Spec => []ChangesConfirmed
<1>1. IInv => ChangesConfirmed
  BY DEF IInv
<1>. QED BY <1>1, Invariance, PTL

---------------------------------------------------------------------------------
(* The promise about the rows.                                                 *)
LEMMA RowsInit == Init => Rows!Init
<1>. SUFFICES ASSUME Init PROVE Rows!Init
  OBVIOUS
<1>1. IInv /\ acked = {}
  BY InitInv DEF Init
<1>2. ASSUME NEW v \in RowViews, NEW i \in Ids
      PROVE  /\ table[v][i].state \in {"absent", "live"}
             /\ table[v][i].state # "absent" => table[v][i].text \in {t \in Form : Filled(v, t)}
             /\ table[v][i].status = Pending
  <2>1. v \in AllViews \ {"settings"} /\ table[v][i] = AtStart(v, i)
    BY DEF RowViews, Init
  <2>2. table[v][i].state \in {"absent", "live"} /\ table[v][i].status = Pending
    BY <2>1 DEF AtStart
  <2>3. table[v][i].state # "absent" => table[v][i].text \in {t \in Form : Filled(v, t)}
    BY <1>1, <2>1 DEF IInv, RequiredFilled, TypeOK, Row
  <2>. QED BY <2>2, <2>3
<1>. QED BY <1>1, <1>2 DEF Rows!Init, Rows!Exists

(* A write of a command is a step of the promise, or changes nothing of it.    *)
LEMMA RowsWrite ==
  ASSUME IInv, NEW c \in Call, CallOK(c),
         c.op = "create" => c.id \in Ids /\ table[c.view][c.id].state = "absent",
         Apply(c), UNCHANGED acked
  PROVE  [Rows!Next]_(Rows!vars)
<1>. DEFINE k == c.view
            i == c.id
            row == table[k][i]
            rows == [v \in RowViews |-> table[v]]
            rows2 == [v \in RowViews |-> table'[v]]
<1>1. CASE c.op = "list"
  BY <1>1 DEF Apply, Rows!vars
<1>2. CASE c.op # "list"
  <2>1. i \in Ids /\ row \in Row
        /\ (c.op \notin {"create", "set_url"} => row.state # "absent")
    BY <1>2, RowStep
  <2>2. PICK new \in Row : RowWritten(c, row, new)
    BY <1>2, RowStep
  <2>3. table \in [AllViews -> [Ids -> Row]] /\ k \in AllViews
    BY DEF IInv, TypeOK, Call
  <2>4. CASE k = "settings"
    <3>1. \A v \in RowViews : table'[v] = table[v]
      BY <2>2, <2>3, <2>4 DEF RowWritten, RowViews
    <3>. QED BY <3>1 DEF Rows!vars
  <2>5. CASE k \in RowViews
    <3>1. rows2 = [rows EXCEPT ![k][i] = new] /\ rows[k][i] = row
      BY <2>1, <2>2, <2>3, <2>5 DEF RowWritten, RowViews
    <3>2. Rows!Create(k, i) \/ Rows!Edit(k, i) \/ Rows!SetStatus(k, i)
            \/ Rows!Remove(k, i) => Rows!Next
      BY <2>1, <2>5 DEF Rows!Next
    <3>3. Rows!Exists(k, i) <=> row.state # "absent"
      BY <3>1 DEF Rows!Exists
    <3>4. c.text \in Form /\ c.status \in Statuses /\ c.op \in Ops
      BY DEF Call
    <3>5. row = [state |-> row.state, text |-> row.text, status |-> row.status]
          /\ new = [state |-> new.state, text |-> new.text, status |-> new.status]
      BY <2>1, <2>2 DEF Row
    <3>6. rows2[k][i] = new /\ rows \in [RowViews -> [Ids -> Row]]
      BY <2>1, <2>3, <2>5, <3>1 DEF RowViews
    <3>. DEFINE acceptable == [v \in RowViews |-> {t \in Form : Filled(v, t)}]
    <3>7. c.op \in {"create", "edit"} => c.text \in acceptable[k]
      BY <2>5, <3>4 DEF CallOK
    <3>. HIDE DEF k, i, row, rows, rows2, acceptable
    <3>8. CASE c.op = "create"
      <4>1. new = [state |-> "live", text |-> c.text, status |-> Pending]
            /\ row.state = "absent"
        BY <2>2, <3>5, <3>8 DEF RowWritten
      <4>2. ~ Rows!Exists(k, i)
        BY <3>3, <4>1
      <4>3. Rows!Create(k, i)
        BY <3>1, <3>7, <3>8, <4>1, <4>2 DEF Rows!Create, rows, rows2, acceptable
      <4>. QED BY <3>2, <4>3
    <3>9. CASE c.op = "edit"
      <4>1. new = [row EXCEPT !.text = c.text]
        BY <2>2, <3>5, <3>9 DEF RowWritten
      <4>2. rows2 = [rows EXCEPT ![k][i].text = c.text]
        BY <2>1, <2>5, <3>1, <3>6, <4>1
      <4>3. Rows!Edit(k, i)
        BY <2>1, <3>3, <3>7, <3>9, <4>2 DEF Rows!Edit, rows, rows2, acceptable
      <4>. QED BY <3>2, <4>3
    <3>10. CASE c.op = "update"
      <4>1. new = [row EXCEPT !.status = c.status]
        BY <2>2, <3>5, <3>10 DEF RowWritten
      <4>2. rows2 = [rows EXCEPT ![k][i].status = c.status]
        BY <2>1, <2>5, <3>1, <3>6, <4>1
      <4>3. <<k, Rows!Setting(i, c.status)>> \in acked
        BY <3>10 DEF CallOK, Rows!Setting, k, i
      <4>4. Rows!SetStatus(k, i)
        BY <2>1, <3>3, <3>4, <3>10, <4>2, <4>3 DEF Rows!SetStatus, rows, rows2
      <4>. QED BY <3>2, <4>4
    <3>11. CASE c.op \in {"delete", "resolve"}
      <4>1. new = [row EXCEPT !.state = "gone"]
        BY <2>2, <3>5, <3>11 DEF RowWritten
      <4>2. rows2 = [rows EXCEPT ![k][i].state = "gone"]
        BY <2>1, <2>5, <3>1, <3>6, <4>1
      <4>3. k \in {"conflicts"} \/ <<k, Rows!Removal(i)>> \in acked
        BY <3>11 DEF CallOK, Confirmed, Deletion, Rows!Removal, k, i
      <4>4. Rows!Remove(k, i)
        BY <2>1, <3>3, <3>11, <4>2, <4>3 DEF Rows!Remove, rows, rows2
      <4>. QED BY <3>2, <4>4
    <3>12. c.op # "set_url"
      BY <2>5 DEF CallOK, RowViews, k
    <3>. QED BY <1>2, <3>4, <3>8, <3>9, <3>10, <3>11, <3>12 DEF Ops
  <2>. QED BY <2>3, <2>4, <2>5 DEF RowViews
<1>. QED BY <1>1, <1>2

(* A click writes nothing, and takes no confirmation back.                     *)
LEMMA UserRows ==
  ASSUME User
  PROVE  UNCHANGED table /\ acked \subseteq acked'
<1>1. CASE OnlyDialogs \/ ToastRequired
  BY <1>1 DEF OnlyDialogs, ToastRequired
<1>2. ASSUME NEW op, NEW i, NEW text, NEW status, Submit(op, i, text, status),
             UNCHANGED acked \/ Acknowledge
      PROVE  UNCHANGED table /\ acked \subseteq acked'
  BY <1>2 DEF Submit, Acknowledge
<1>3. CASE WorkOrdersUser
  BY <1>1, <1>2, <1>3
  DEF WorkOrdersUser, NewWorkOrder, OpenCreate, AskCreate, handleConfirm, handleCreate,
      handleEditSave, CancelEdit, WorkOrderForm, Type, handleDelete, AskDelete, openEdit,
      handleStatusChange
<1>4. CASE AssetsUser
  BY <1>1, <1>2, <1>4
  DEF AssetsUser, NewAsset, OpenCreate, CreateAsset, ConfirmDeleteAsset, AssetForm, Type,
      DeleteAsset, AskDelete
<1>5. CASE HelpdeskUser
  BY <1>1, <1>2, <1>5
  DEF HelpdeskUser, NewRequest, OpenCreate, CreateRequest, ConfirmDeleteRequest,
      RequestForm, Type, DeleteRequest, AskDelete
<1>6. CASE ConflictsUser \/ SettingsUser
  BY <1>1, <1>2, <1>6
  DEF ConflictsUser, handleResolve, SettingsUser, handleSaveGateway, GatewayInput, Type
<1>7. CASE CancelCreate \/ CancelConfirm \/ Escape
  BY <1>1, <1>7 DEF CancelCreate, CancelConfirm, Escape
<1>8. CASE \E v \in Views : Navigate(v)
  BY <1>8 DEF Navigate
<1>. QED BY <1>3, <1>4, <1>5, <1>6, <1>7, <1>8 DEF User

LEMMA AnswerRows ==
  ASSUME NEW c, Answer(c)
  PROVE  UNCHANGED <<table, acked>>
  BY DEF Answer, WorkOrdersAnswer, AssetsAnswer, HelpdeskAnswer, ConflictsAnswer,
         SettingsAnswer, loadOrders, loadAssets, loadRequests, loadConflicts, Load,
         loadSettings, WorkOrderCreated, AssetCreated, RequestCreated, CreateAnswered,
         EditAnswered, ConfirmAnswered, AssetDeleted, RequestDeleted, ConfirmedAnswered,
         Resolved, GatewaySaved

LEMMA RowsNext == IInv /\ [Next]_vars => [Rows!Next]_(Rows!vars)
<1>. SUFFICES ASSUME IInv, [Next]_vars PROVE [Rows!Next]_(Rows!vars)
  OBVIOUS
<1>1. ASSUME UNCHANGED table, acked \subseteq acked' PROVE Rows!Next
  BY <1>1 DEF Rows!Next, Rows!Confirm
<1>2. CASE User \/ Rerender \/ \E c \in InFlight : Answer(c)
  BY <1>1, <1>2, UserRows, AnswerRows DEF Rerender
<1>3. ASSUME NEW c \in InFlight, c.reply = "none", HasId(c), Apply(Given(c)), UNCHANGED acked
      PROVE  [Rows!Next]_(Rows!vars)
  <2>1. PICK k : k = Given(c)
    OBVIOUS
  <2>2. /\ k \in Call /\ CallOK(k)
        /\ k.op = "create" => k.id \in Ids /\ table[k.view][k.id].state = "absent"
        /\ Apply(k)
    BY <1>3, <2>1, GivenShape
  <2>. QED BY <1>3, <2>2, RowsWrite
<1>4. ASSUME NEW c \in InFlight, Handle(c) \/ HandleFails(c)
      PROVE  [Rows!Next]_(Rows!vars)
  BY <1>1, <1>3, <1>4 DEF Handle, HandleFails
<1>5. CASE UNCHANGED vars
  BY <1>5 DEF vars, Rows!vars
<1>. QED BY <1>2, <1>4, <1>5 DEF Next

(* Whatever order calls are handled and answered in, one row changes at a time *)
(* (ListView's Apply), it stays filled in and never comes back, and its status *)
(* changes and it is removed only as the user has confirmed before.            *)
THEOREM ViewsImplementRows == Spec => RowsSpec
  BY RowsInit, RowsNext, InitInv, NextInv, PTL DEF Spec, RowsSpec, Rows!Spec

=================================================================================
