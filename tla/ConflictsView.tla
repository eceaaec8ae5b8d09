------------------------------ MODULE ConflictsView -----------------------------
(* ConflictsView.tsx: three buttons on each unresolved conflict, which differ  *)
(* in the action they send and in nothing else.                                *)
EXTENDS ListView

OnConflicts == view = "conflicts"
ConflictCard(i) == OnConflicts /\ Clickable(i)

loadConflicts(c) == c.op = "list" /\ c.view = "conflicts" /\ Load(c)

(* Use Mine, Use Cloud and Open Record to Merge, as long as it is shown.       *)
handleResolve(i) ==
  /\ ConflictCard(i)
  /\ Submit("resolve", i, Empty, Pending)
  /\ UNCHANGED <<dialogs, acked>>

(* The boolean resolve_conflict returns is not looked at.                      *)
Resolved(c) ==
  /\ c.op = "resolve"
  /\ Toast(c, {"gone"})
  /\ UNCHANGED <<table, view, list, dialogs, counts, acked>>

ConflictsUser == \E i \in Ids : handleResolve(i)

ConflictsAnswer(c) == loadConflicts(c) \/ Resolved(c)

=================================================================================
