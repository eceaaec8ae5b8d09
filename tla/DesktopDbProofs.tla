---------------------------- MODULE DesktopDbProofs -----------------------------
(* Proofs about DesktopDb, for every set of rows, URLs and conflicts, every    *)
(* number of changes in the file and every number of writes.                   *)
EXTENDS DesktopDb, TLAPS

(* Every row write of a command comes down to Write on a key of Keys.          *)
LEMMA CommandCases ==
  ASSUME Command
  PROVE  \/ ReadCommand
         \/ \E k \in Keys : Create(k) \/ UpdateWorkOrder(k) \/ Delete(k)
         \/ \E u \in Urls : SetGatewayUrl(u)
         \/ \E c \in Conflicts : ResolveConflict(c)
         \/ \E ids \in SUBSET DOMAIN changes : SyncNow(ids)
  BY DEF Command, CreateWorkOrder, CreateAsset, CreateHelpdeskRequest,
         DeleteWorkOrder, DeleteAsset, DeleteHelpdeskRequest

---------------------------------------------------------------------------------
LEMMA WriteType ==
  ASSUME TypeOK, NEW k \in Keys, NEW state \in {"absent", "live", "deleted"},
         Write(k, state)
  PROVE  TypeOK'
<1>1. rows' \in [Keys -> {"absent", "live", "deleted"}]
  BY DEF Write, TypeOK
<1>2. written' \in Seq(Keys) /\ Len(written') = Len(written) + 1
  BY DEF Write, TypeOK
<1>3. atLaunch' \in 0 .. Len(written')
  BY <1>2 DEF Write, TypeOK
<1> QED
  BY <1>1, <1>2, <1>3 DEF Write, TypeOK

LEMMA RowStates ==
  ASSUME TypeOK, NEW k \in Keys
  PROVE  rows[k] \in {"absent", "live", "deleted"}
  BY DEF TypeOK

(* The database's variables keep their types: sync_now sets synced_at of rows  *)
(* there are, and no command appends to _changes.                              *)
THEOREM Typing == Spec => []TypeOK
<1>1. Init => TypeOK
  <2> SUFFICES ASSUME Init PROVE TypeOK
    OBVIOUS
  <2>1. rows \in [Keys -> {"absent", "live", "deleted"}]
    BY DEF Init
  <2>2. conflicts \in [Conflicts -> {"open", "resolved"}]
    BY DEF Init
  <2>3. written \in Seq(Keys) /\ atLaunch \in 0 .. Len(written)
    BY DEF Init
  <2> QED
    BY <2>1, <2>2, <2>3 DEF Init, TypeOK
<1>2. TypeOK /\ [Next]_vars => TypeOK'
  <2> SUFFICES ASSUME TypeOK, [Next]_vars PROVE TypeOK'
    OBVIOUS
  <2>1. CASE Launch
    BY <2>1 DEF Launch, tables, TypeOK
  <2>2. CASE Quit
    BY <2>2 DEF Quit, tables, TypeOK
  <2>3. CASE Command
    <3>1. CASE ReadCommand
      BY <3>1 DEF ReadCommand, vars, tables, thread, TypeOK
    <3>2. CASE \E k \in Keys : Create(k) \/ UpdateWorkOrder(k) \/ Delete(k)
      BY <3>2, WriteType, RowStates DEF Create, UpdateWorkOrder, Delete
    <3>3. CASE \E u \in Urls : SetGatewayUrl(u)
      BY <3>3 DEF SetGatewayUrl, thread, TypeOK
    <3>4. CASE \E c \in Conflicts : ResolveConflict(c)
      BY <3>4 DEF ResolveConflict, thread, TypeOK
    <3>5. CASE \E ids \in SUBSET DOMAIN changes : SyncNow(ids)
      <4>1. synced' \subseteq 1 .. Leftover /\ last_push_at' \in BOOLEAN
        BY <3>5 DEF SyncNow, TypeOK
      <4> QED
        BY <4>1, <3>5 DEF SyncNow, thread, TypeOK
    <3> QED
      BY <2>3, <3>1, <3>2, <3>3, <3>4, <3>5, CommandCases
  <2>4. CASE RecordChange
    BY <2>4 DEF RecordChange, tables, TypeOK
  <2>5. CASE UNCHANGED vars
    BY <2>5 DEF vars, tables, thread, TypeOK
  <2> QED
    BY <2>1, <2>2, <2>3, <2>4, <2>5 DEF Next
<1> QED
  BY <1>1, <1>2, PTL DEF Spec

---------------------------------------------------------------------------------
(* No command brings a deleted row back or removes a row: update_work_order    *)
(* writes the row back as deleted as it was.                                   *)
THEOREM DeletedRows == Spec => DeletedStaysDeleted
<1> DEFINE Kept == \A k \in Keys :
                     /\ rows[k] = "deleted" => rows'[k] = "deleted"
                     /\ rows[k] # "absent" => rows'[k] # "absent"
<1>1. TypeOK /\ [Next]_vars => [Kept]_vars
  <2> SUFFICES ASSUME TypeOK, Next PROVE Kept
    OBVIOUS
  <2>1. CASE UNCHANGED rows
    BY <2>1
  <2>2. ASSUME NEW k \in Keys, Create(k) \/ UpdateWorkOrder(k) \/ Delete(k)
        PROVE  Kept
    <3>1. CASE Create(k)
      BY <3>1 DEF Create, Write, TypeOK
    <3>2. CASE UpdateWorkOrder(k)
      BY <3>2 DEF UpdateWorkOrder, Write, TypeOK
    <3>3. CASE Delete(k)
      BY <3>3 DEF Delete, Write, TypeOK
    <3> QED
      BY <2>2, <3>1, <3>2, <3>3
  <2>3. CASE Command
    BY <2>1, <2>2, <2>3, CommandCases
       DEF ReadCommand, SetGatewayUrl, ResolveConflict, SyncNow, vars, tables
  <2> QED
    BY <2>1, <2>3 DEF Next, Launch, Quit, RecordChange, tables
<1> QED
  BY <1>1, Typing, PTL DEF Spec, DeletedStaysDeleted

=================================================================================
