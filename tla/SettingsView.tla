------------------------------ MODULE SettingsView ------------------------------
(* SettingsView.tsx: the gateway URL, the sync status and the changes not yet  *)
(* pushed.  Its three reads are one call here: Promise.all succeeds when all   *)
(* of them have, and nothing of it is set before.  It has no "finally": the    *)
(* view is loading until a load succeeds.                                      *)
EXTENDS ListView

OnSettings == view = "settings"

(* The only row of _sync_state.                                                *)
SyncState == CHOOSE i \in Ids : TRUE

loadSettings(c) ==
  /\ c.op = "list" /\ c.view = "settings"
  /\ \/ /\ Succeeded(c)
        /\ loading' = Sets(c, loading, FALSE)
        /\ calls' = Drop(c) /\ UNCHANGED told
     \/ Failed(c) /\ ToastError(c) /\ UNCHANGED loading
  /\ UNCHANGED <<table, view, shown, dialogs, counts, acked>>

GatewayInput(t) == OnSettings /\ Type(1, t)

handleSaveGateway ==
  /\ OnSettings
  /\ \/ ~ Filled(view, form) /\ ToastRequired
     \/ /\ Filled(view, form)
        /\ Submit("set_url", SyncState, form, Pending)
        /\ UNCHANGED <<dialogs, acked>>

(* set_gateway_url refuses what is neither https nor local: an error.          *)
GatewaySaved(c) ==
  /\ c.op = "set_url"
  /\ Toast(c, {})
  /\ UNCHANGED <<table, view, list, dialogs, counts, acked>>

SettingsUser == handleSaveGateway \/ \E t \in Text : GatewayInput(t)

SettingsAnswer(c) == loadSettings(c) \/ GatewaySaved(c)

=================================================================================
