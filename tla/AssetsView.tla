------------------------------- MODULE AssetsView -------------------------------
(* AssetsView.tsx: assets are created straight from the form, and deleted      *)
(* through the ConfirmModal.                                                   *)
EXTENDS ListView

OnAssets == view = "assets"
AssetRow(i) == OnAssets /\ Clickable(i)

loadAssets(c) == c.op = "list" /\ c.view = "assets" /\ Load(c)

NewAsset == OnAssets /\ OpenCreate

(* Name and asset type.                                                        *)
AssetForm(k, t) == OnAssets /\ showCreate /\ Type(k, t)

CreateAsset ==
  /\ OnAssets /\ showCreate
  /\ \/ ~ Filled(view, form) /\ ToastRequired
     \/ /\ Filled(view, form)
        /\ Submit("create", NoId, form, Pending)
        /\ UNCHANGED <<dialogs, acked>>

DeleteAsset(i) == AssetRow(i) /\ AskDelete(i)

ConfirmDeleteAsset ==
  /\ OnAssets
  /\ confirmAction # NoAction
  /\ Submit("delete", confirmAction.id, Empty, Pending)
  /\ Acknowledge /\ UNCHANGED dialogs

AssetCreated(c) ==
  c.op = "create" /\ c.view = "assets" /\ CreateAnswered(c, confirmAction)

AssetDeleted(c) ==
  c.op = "delete" /\ c.view = "assets" /\ ConfirmedAnswered(c, {"gone"})

AssetsUser ==
  \/ NewAsset \/ CreateAsset \/ ConfirmDeleteAsset
  \/ \E k \in 1 .. 2, t \in Text : AssetForm(k, t)
  \/ \E i \in Ids : DeleteAsset(i)

AssetsAnswer(c) == loadAssets(c) \/ AssetCreated(c) \/ AssetDeleted(c)

=================================================================================
