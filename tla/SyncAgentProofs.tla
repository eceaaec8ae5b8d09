---------------------------- MODULE SyncAgentProofs -----------------------------
(* Proofs about SyncAgent, for every set of agents, keys, batch size and bound. *)
EXTENDS SyncAgent, TLAPS, WellFoundedInduction

LEMMA ServiceType == \A e : serviceForEntity(e) \in Services
  BY DEF serviceForEntity, Services

(* Of several rows about a key the newest one counts.                          *)
LEMMA NewestRow ==
  ASSUME NEW n \in Nat, NEW R \in SUBSET (1 .. n), R # {}
  PROVE  Newest(R) \in R /\ \A j \in R : j <= Newest(R)
<1> DEFINE Gaps == {g \in Nat : \E i \in R : g = n - i}
<1>1. Gaps \subseteq Nat
  OBVIOUS
<1>2. Gaps # {}
  <2>1. PICK i \in R : TRUE
    OBVIOUS
  <2>2. i \in 1 .. n /\ n - i \in Nat
    BY <2>1
  <2> QED
    BY <2>1, <2>2
<1>3. PICK g \in Gaps : \A h \in Gaps : ~ (<<h, g>> \in OpToRel(<, Nat))
  <2> HIDE DEF Gaps
  <2> QED
    BY <1>1, <1>2, NatLessThanWellFounded, WFMin
<1>4. \A h \in Gaps : ~ (h < g)
  <2> HIDE DEF Gaps
  <2> QED
    BY <1>1, <1>3, Zenon DEF OpToRel
<1>5. PICK i \in R : g = n - i
  OBVIOUS
<1>6. \A j \in R : j <= i
  <2>1. SUFFICES ASSUME NEW j \in R PROVE j <= i
    OBVIOUS
  <2>2. i \in 1 .. n /\ j \in 1 .. n /\ n - j \in Gaps
    OBVIOUS
  <2> QED
    BY <1>4, <1>5, <2>2
<1> QED
  BY <1>6 DEF Newest

(* Accepting rows of the log keeps the types of what the services hold.        *)
LEMMA AcceptType ==
  ASSUME TypeOK, NEW R \in SUBSET Ids, Accept(R)
  PROVE  delivered' \subseteq Ids /\ lastSeen' \in [Keys -> 0 .. Len(log)]
<1>1. delivered' \subseteq Ids
  BY DEF Accept, TypeOK
<1>2. \A k \in Keys : About(R, k) # {} => Newest(About(R, k)) \in Ids
  <2>1. SUFFICES ASSUME NEW k \in Keys, About(R, k) # {}
                 PROVE  Newest(About(R, k)) \in Ids
    OBVIOUS
  <2>2. Len(log) \in Nat
    BY DEF TypeOK
  <2>3. About(R, k) \in SUBSET (1 .. Len(log))
    BY DEF About, Ids
  <2>4. Newest(About(R, k)) \in About(R, k)
    BY <2>1, <2>2, <2>3, NewestRow
  <2> QED
    BY <2>3, <2>4 DEF Ids
<1> QED
  BY <1>1, <1>2 DEF Accept, TypeOK, Ids

(* The variables keep their types in every reachable state of the agents.      *)
THEOREM Typing == Spec => []TypeOK
<1>1. Init => TypeOK
  <2> SUFFICES ASSUME Init PROVE TypeOK
    OBVIOUS
  <2>1. log \in Seq(Keys) /\ Len(log) = 0
    BY DEF Init
  <2>2. lastSeen \in [Keys -> 0 .. Len(log)]
    BY <2>1 DEF Init
  <2>3. failures \in 0 .. MaxFailures
    BY BoundsAssumption DEF Init
  <2> QED
    BY <2>1, <2>2, <2>3 DEF Init, TypeOK, Positions, None
<1>2. TypeOK /\ [Next]_vars => TypeOK'
  <2> SUFFICES ASSUME TypeOK, [Next]_vars PROVE TypeOK'
    OBVIOUS
  <2> USE DEF TypeOK, db, agent, remote, Positions, None
  <2>1. ASSUME NEW k \in Keys, AppendChange(k) PROVE TypeOK'
    <3>1. log' \in Seq(Keys) /\ Len(log') = Len(log) + 1
      BY <2>1 DEF AppendChange
    <3>2. Ids \subseteq Ids' /\ 0 .. Len(log) \subseteq 0 .. Len(log')
      BY <3>1 DEF Ids
    <3>3. lastSeen' \in [Keys -> 0 .. Len(log')]
      BY <2>1, <3>2 DEF AppendChange
    <3> QED
      BY <2>1, <3>1, <3>2, <3>3 DEF AppendChange
  <2>2. ASSUME NEW a \in Agents, Step(a) PROVE TypeOK'
    <3>1. CASE IdleTick(a)
      BY <3>1 DEF IdleTick, vars, Ids
    <3>2. CASE ReadBatch(a)
      <4>1. PICK B \in Batches :
              /\ batch' = [batch EXCEPT ![a] = B]
              /\ idsToMark' = [idsToMark EXCEPT ![a] = B]
              /\ byService' = [byService EXCEPT ![a] = {Service(i) : i \in B}]
        BY <3>2 DEF ReadBatch
      <4>2. B \in SUBSET Ids
        BY <4>1 DEF Batches, Unsynced
      <4>3. {Service(i) : i \in B} \in SUBSET Services
        BY ServiceType DEF Service
      <4> QED
        BY <3>2, <4>1, <4>2, <4>3 DEF ReadBatch, Ids
    <3>3. CASE Post(a)
      BY <3>3 DEF Post, Ids
    <3>4. CASE TakeAnswer(a)
      BY <3>4 DEF TakeAnswer, Ids
    <3>5. CASE PushFails(a)
      BY <3>5 DEF PushFails, Reset, Ids
    <3>6. CASE MarkRow(a)
      <4>1. PICK i \in idsToMark[a] :
              /\ idsToMark' = [idsToMark EXCEPT ![a] = @ \ {i}]
              /\ \/ synced' = synced \cup {i} /\ UNCHANGED failures
                 \/ Fail("markfails") /\ UNCHANGED synced
        BY <3>6 DEF MarkRow
      <4>2. i \in Ids
        BY <4>1
      <4>3. failures' \in 0 .. MaxFailures
        BY <4>1, BoundsAssumption DEF Fail
      <4>4. synced' \subseteq Ids
        BY <4>1, <4>2
      <4>5. idsToMark' \in [Agents -> SUBSET Ids]
        BY <4>1
      <4> QED
        BY <3>6, <4>3, <4>4, <4>5 DEF MarkRow, Ids
    <3>7. CASE FinishPush(a)
      BY <3>7 DEF FinishPush, Reset, Ids
    <3>8. CASE Start(a)
      BY <3>8 DEF Start, Ids
    <3> QED
      BY <2>2, <3>1, <3>2, <3>3, <3>4, <3>5, <3>6, <3>7, <3>8 DEF Step
  <2>3. ASSUME NEW a \in Agents, Answer(a) PROVE TypeOK'
    <3>1. failures' \in 0 .. MaxFailures
      BY <2>3, BoundsAssumption DEF Answer, HandleAll, HandleSome, Refuse, Fail
    <3>2. reply' \in [Agents -> {None, "ok", "multi", "error"}]
      BY <2>3 DEF Answer, HandleAll, HandleSome, Refuse
    <3>3. delivered' \subseteq Ids /\ lastSeen' \in [Keys -> 0 .. Len(log)]
      <4>1. Posted(a) \subseteq Ids
        BY DEF Posted, Group
      <4>2. CASE HandleAll(a)
        BY <4>1, <4>2, AcceptType DEF HandleAll
      <4>3. CASE HandleSome(a)
        BY <4>1, <4>3, AcceptType DEF HandleSome
      <4>4. CASE Refuse(a)
        BY <4>4 DEF Refuse
      <4> QED
        BY <2>3, <4>2, <4>3, <4>4 DEF Answer
    <3>4. rejected' \subseteq Ids
      BY <2>3 DEF Answer, HandleAll, HandleSome, Refuse, Posted, Group
    <3> QED
      BY <2>3, <3>1, <3>2, <3>3, <3>4 DEF Answer, HandleAll, HandleSome, Refuse, Ids
  <2>4. ASSUME NEW a \in Agents, Lose(a) PROVE TypeOK'
    <3>1. failures' \in 0 .. MaxFailures
      BY <2>4, BoundsAssumption DEF Lose, Disconnect, Crash, Fail
    <3>2. late' \in SUBSET SUBSET Ids
      BY <2>4 DEF Lose, Disconnect, Crash, LeaveBehind, Posted, Group
    <3> QED
      BY <2>4, <3>1, <3>2 DEF Lose, Disconnect, Crash, Reset, Ids
  <2>5. ASSUME NEW R \in late, HandleLate(R) PROVE TypeOK'
    <3>1. delivered' \subseteq Ids /\ lastSeen' \in [Keys -> 0 .. Len(log)]
      BY <2>5, AcceptType DEF HandleLate
    <3> QED
      BY <2>5, <3>1 DEF HandleLate, Ids
  <2>6. CASE UNCHANGED vars
    BY <2>6 DEF vars, Ids
  <2> QED
    BY <2>1, <2>2, <2>3, <2>4, <2>5, <2>6 DEF Next
<1> QED
  BY <1>1, <1>2, PTL DEF Spec

---------------------------------------------------------------------------------
(* Rows keep their ids and their service when a change is appended.            *)
LEMMA AppendKeepsRows ==
  ASSUME TypeOK, NEW k \in Keys, AppendChange(k)
  PROVE  /\ Ids \subseteq Ids'
         /\ \A j \in Ids' : j \notin Ids => \A i \in Ids : i < j
         /\ \A i \in Ids : log'[i] = log[i] /\ Service(i)' = Service(i)
<1>1. /\ log' \in Seq(Keys)
      /\ Len(log) \in Nat
      /\ Len(log') = Len(log) + 1
      /\ \A i \in 1 .. Len(log) : log'[i] = log[i]
  BY DEF TypeOK, AppendChange
<1> QED
  BY <1>1 DEF Ids, Service

(* In a step that leaves the log alone, so do the rows and their services.     *)
LEMMA SameRows ==
  ASSUME UNCHANGED log
  PROVE  Ids' = Ids /\ \A i : Service(i)' = Service(i)
  BY DEF Ids, Service

(* The rows a push marks have been answered for: the inductive step.           *)
LEMMA DeliveryStep ==
  ASSUME TypeOK, DeliveryInv, [Next]_vars
  PROVE  DeliveryInv'
<1> USE DEF DeliveryInv, SyncedIsAnswered, Answered, BatchPosted, MarkingIsLast,
            MarksBatchOnly, OnlyPartialRejects, Accepted, db, agent, remote
<1>1. ASSUME NEW k \in Keys, AppendChange(k) PROVE DeliveryInv'
  <2>1. \A a \in Agents : \A i \in batch[a] : Service(i)' = Service(i)
    BY <1>1, AppendKeepsRows DEF TypeOK
  <2> QED
    BY <1>1, <2>1 DEF AppendChange
<1>2. ASSUME NEW a \in Agents, Step(a) PROVE DeliveryInv'
  <2>1. \A i : Service(i)' = Service(i)
    BY <1>2, SameRows DEF Step, IdleTick, ReadBatch, Post, TakeAnswer, PushFails,
                          MarkRow, FinishPush, Start, vars
  <2>2. CASE IdleTick(a)
    BY <2>1, <2>2 DEF IdleTick, vars
  <2>3. CASE ReadBatch(a)
    <3>1. PICK B \in Batches :
            /\ batch' = [batch EXCEPT ![a] = B]
            /\ idsToMark' = [idsToMark EXCEPT ![a] = B]
            /\ byService' = [byService EXCEPT ![a] = {Service(i) : i \in B}]
      BY <2>3 DEF ReadBatch
    <3> QED
      BY <2>1, <2>3, <3>1 DEF ReadBatch, TypeOK
  <2>4. CASE Post(a)
    BY <2>1, <2>4 DEF Post, TypeOK, Accepted, None
  <2>5. CASE TakeAnswer(a)
    BY <2>1, <2>5 DEF TakeAnswer, TypeOK
  <2>6. CASE PushFails(a)
    BY <2>1, <2>6 DEF PushFails, Reset, TypeOK
  <2>7. CASE MarkRow(a)
    <3>1. \A i \in batch[a] : i \in Answered
      BY <2>7 DEF MarkRow
    <3> QED
      BY <2>1, <2>7, <3>1 DEF MarkRow, TypeOK
  <2>8. CASE FinishPush(a)
    BY <2>1, <2>8 DEF FinishPush, Reset, TypeOK
  <2>9. CASE Start(a)
    BY <2>1, <2>9 DEF Start, TypeOK
  <2> QED
    BY <1>2, <2>2, <2>3, <2>4, <2>5, <2>6, <2>7, <2>8, <2>9 DEF Step
<1>3. ASSUME NEW a \in Agents, Answer(a) PROVE DeliveryInv'
  <2>1. \A i : Service(i)' = Service(i)
    BY <1>3, SameRows DEF Answer, HandleAll, HandleSome, Refuse
  <2>2. CASE HandleAll(a)
    <3>1. delivered' = delivered \cup Posted(a)
      BY <2>2 DEF HandleAll, Accept
    <3> QED
      BY <2>1, <2>2, <3>1 DEF HandleAll, Waiting, Posted, Group, TypeOK
  <2>3. CASE HandleSome(a)
    <3>1. /\ "partial" \in Faults
          /\ delivered \subseteq delivered' /\ rejected \subseteq rejected'
          /\ Posted(a) \subseteq delivered' \cup rejected'
      BY <2>3 DEF HandleSome, Fail, Accept
    <3> QED
      BY <2>1, <2>3, <3>1 DEF HandleSome, Waiting, Posted, Group, TypeOK
  <2>4. CASE Refuse(a)
    BY <2>1, <2>4 DEF Refuse, Waiting, TypeOK
  <2> QED
    BY <1>3, <2>2, <2>3, <2>4 DEF Answer
<1>4. ASSUME NEW a \in Agents, Lose(a) PROVE DeliveryInv'
  <2>1. \A i : Service(i)' = Service(i)
    BY <1>4, SameRows DEF Lose, Disconnect, Crash
  <2>2. CASE Disconnect(a)
    <3>1. UNCHANGED <<synced, delivered, rejected>> /\ Reset(a, "idle")
      BY <2>2 DEF Disconnect
    <3> QED
      BY <2>1, <3>1 DEF Reset, TypeOK, None
  <2>3. CASE Crash(a)
    <3>1. UNCHANGED <<synced, delivered, rejected>> /\ Reset(a, "down")
      BY <2>3 DEF Crash
    <3> QED
      BY <2>1, <3>1 DEF Reset, TypeOK, None
  <2> QED
    BY <1>4, <2>2, <2>3 DEF Lose
<1>5. ASSUME NEW R \in late, HandleLate(R) PROVE DeliveryInv'
  <2>1. \A i : Service(i)' = Service(i)
    BY <1>5, SameRows DEF HandleLate
  <2> QED
    BY <1>5, <2>1 DEF HandleLate, Accept
<1>6. CASE UNCHANGED vars
  <2>1. \A i : Service(i)' = Service(i)
    BY <1>6, SameRows DEF vars
  <2> QED
    BY <1>6, <2>1 DEF vars
<1> QED
  BY <1>1, <1>2, <1>3, <1>4, <1>5, <1>6 DEF Next

(* What is known of batches holds at first, and always.                        *)
LEMMA DeliveryInit == Init => DeliveryInv
  BY DEF Init, DeliveryInv, SyncedIsAnswered, Answered, BatchPosted, MarkingIsLast,
         MarksBatchOnly, OnlyPartialRejects, None

LEMMA DeliveryAlways == Spec => []DeliveryInv
<1>1. TypeOK /\ DeliveryInv /\ [Next]_vars => DeliveryInv'
  BY DeliveryStep
<1> QED
  BY <1>1, DeliveryInit, Typing, PTL DEF Spec

(* performPush marks only rows their service has answered for, whatever fails: *)
(* the rows a 207 refuses are the only ones it loses (manager.go 79-89 marks   *)
(* the whole batch after PushChanges).                                         *)
THEOREM SyncedAnswered == Spec => []SyncedIsAnswered
<1>1. DeliveryInv => SyncedIsAnswered
  BY DEF DeliveryInv
<1> QED
  BY <1>1, DeliveryAlways, PTL

(* Without 207 answers a row that is answered for is accepted.                 *)
LEMMA AnsweredIsDelivered ==
  ASSUME "partial" \notin Faults, DeliveryInv
  PROVE  Answered = delivered /\ SyncedIsDelivered
  BY DEF DeliveryInv, OnlyPartialRejects, Answered, SyncedIsAnswered,
         SyncedIsDelivered

(* So performPush marks only accepted rows, if no service answers 207.         *)
THEOREM SyncedDelivered ==
  ASSUME "partial" \notin Faults
  PROVE  Spec => []SyncedIsDelivered
<1>1. DeliveryInv => SyncedIsDelivered
  BY AnsweredIsDelivered
<1> QED
  BY <1>1, DeliveryAlways, PTL

---------------------------------------------------------------------------------
(* No step makes a batch leave out an older unsynced row: ids only grow and    *)
(* marks are only added.                                                       *)
LEMMA BatchOldestStep ==
  ASSUME TypeOK, BatchIsOldest, [Next]_vars
  PROVE  BatchIsOldest'
<1> USE DEF BatchIsOldest, db, agent, remote
<1>1. ASSUME NEW k \in Keys, AppendChange(k) PROVE BatchIsOldest'
  <2>1. \A i \in Ids, j \in Ids' : j < i => j \in Ids
    <3>1. \A i \in Ids, j \in Ids' : i \in Int /\ j \in Int
      BY DEF Ids
    <3> QED
      BY <1>1, <3>1, AppendKeepsRows
  <2> QED
    BY <1>1, <2>1 DEF AppendChange, TypeOK
<1>2. ASSUME UNCHANGED batch, Ids' = Ids, synced \subseteq synced'
      PROVE  BatchIsOldest'
  BY <1>2
<1>3. ASSUME NEW a \in Agents, batch' = [batch EXCEPT ![a] = {}],
             Ids' = Ids, UNCHANGED synced
      PROVE  BatchIsOldest'
  BY <1>3 DEF TypeOK
<1>4. ASSUME NEW a \in Agents, Step(a) PROVE BatchIsOldest'
  <2>1. Ids' = Ids
    BY <1>4 DEF Step, IdleTick, ReadBatch, Post, TakeAnswer, PushFails, MarkRow,
                FinishPush, Start, vars, Ids
  <2>2. CASE ReadBatch(a)
    <3>1. PICK B \in Batches : batch' = [batch EXCEPT ![a] = B]
      BY <2>2 DEF ReadBatch
    <3> QED
      BY <2>1, <2>2, <3>1 DEF ReadBatch, Batches, Unsynced, TypeOK
  <2>3. CASE IdleTick(a) \/ Post(a) \/ TakeAnswer(a) \/ Start(a)
    BY <1>2, <2>1, <2>3 DEF IdleTick, Post, TakeAnswer, Start, vars
  <2>4. CASE MarkRow(a)
    BY <1>2, <2>1, <2>4 DEF MarkRow
  <2>5. CASE PushFails(a) \/ FinishPush(a)
    BY <1>3, <2>1, <2>5 DEF PushFails, FinishPush, Reset
  <2> QED
    BY <1>4, <2>2, <2>3, <2>4, <2>5 DEF Step
<1>5. ASSUME NEW a \in Agents, Answer(a) PROVE BatchIsOldest'
  BY <1>2, <1>5 DEF Answer, HandleAll, HandleSome, Refuse, Ids
<1>6. ASSUME NEW a \in Agents, Lose(a) PROVE BatchIsOldest'
  BY <1>3, <1>6 DEF Lose, Disconnect, Crash, Reset, Ids
<1>7. ASSUME NEW R \in late, HandleLate(R) PROVE BatchIsOldest'
  BY <1>2, <1>7 DEF HandleLate, Ids
<1>8. CASE UNCHANGED vars
  BY <1>2, <1>8 DEF vars, Ids
<1> QED
  BY <1>1, <1>4, <1>5, <1>6, <1>7, <1>8 DEF Next

(* First deliveries stay in order: what a service accepts at once is all that  *)
(* is addressed to it up to the newest row of the request.                     *)
LEMMA OrderStep ==
  ASSUME "partial" \notin Faults, TypeOK, OrderInv, [Next]_vars
  PROVE  OrderInv'
<1> USE DEF OrderInv, FirstDeliveriesInOrder, LateInOrder, db, agent, remote
<1>1. DeliveryInv' /\ BatchIsOldest'
  BY DeliveryStep, BatchOldestStep
<1>2. ASSUME NEW k \in Keys, AppendChange(k) PROVE OrderInv'
  <2>1. \A i \in Ids, j \in Ids' : j < i => j \in Ids
    <3>1. \A i \in Ids, j \in Ids' : i \in Int /\ j \in Int
      BY DEF Ids
    <3> QED
      BY <1>2, <3>1, AppendKeepsRows
  <2>2. \A i \in Ids : Service(i)' = Service(i)
    BY <1>2, AppendKeepsRows
  <2>3. UNCHANGED <<delivered, late>>
    BY <1>2 DEF AppendChange
  <2>4. delivered \subseteq Ids /\ \A R \in late : R \subseteq Ids
    BY DEF TypeOK
  <2>5. FirstDeliveriesInOrder'
    BY <2>1, <2>2, <2>3, <2>4
  <2>6. LateInOrder'
    BY <2>1, <2>2, <2>3, <2>4
  <2> QED
    BY <1>1, <2>5, <2>6
<1>3. ASSUME UNCHANGED <<log, delivered, late>> PROVE OrderInv'
  <2>1. Ids' = Ids /\ \A i : Service(i)' = Service(i)
    BY <1>3, SameRows
  <2> QED
    BY <1>1, <1>3, <2>1
<1>4. ASSUME NEW R \in SUBSET Ids, UNCHANGED log, late' \subseteq late,
             delivered' = delivered \cup R,
             \A i \in R, j \in Ids :
               j < i /\ Service(j) = Service(i) => j \in R \cup delivered
      PROVE  OrderInv'
  <2>1. Ids' = Ids /\ \A i : Service(i)' = Service(i)
    BY <1>4, SameRows
  <2> QED
    BY <1>1, <1>4, <2>1
<1>5. \A a \in Agents : \A i \in Posted(a), j \in Ids :
        j < i /\ Service(j) = Service(i) => j \in Posted(a) \cup delivered
  BY AnsweredIsDelivered DEF Posted, Group, BatchIsOldest, SyncedIsDelivered
<1>6. ASSUME NEW a \in Agents, Step(a) PROVE OrderInv'
  BY <1>3, <1>6 DEF Step, IdleTick, ReadBatch, Post, TakeAnswer, PushFails,
                    MarkRow, FinishPush, Start, vars
<1>7. ASSUME NEW a \in Agents, Answer(a) PROVE OrderInv'
  <2>1. CASE HandleAll(a)
    <3>1. Posted(a) \in SUBSET Ids
      BY DEF Posted, Group, TypeOK
    <3>2. /\ UNCHANGED <<log, late>>
          /\ delivered' = delivered \cup Posted(a)
      BY <2>1 DEF HandleAll, Accept
    <3> QED
      BY <1>4, <1>5, <3>1, <3>2
  <2>2. CASE Refuse(a)
    BY <1>3, <2>2 DEF Refuse
  <2> QED
    BY <1>7, <2>1, <2>2 DEF Answer, HandleSome, Fail
<1>8. ASSUME NEW a \in Agents, Lose(a) PROVE OrderInv'
  <2>1. /\ UNCHANGED <<log, delivered>>
        /\ late' \subseteq late \cup {Posted(a)}
    BY <1>8 DEF Lose, Disconnect, Crash, LeaveBehind
  <2>2. Ids' = Ids /\ \A i : Service(i)' = Service(i)
    BY <2>1, SameRows
  <2> QED
    BY <1>1, <1>5, <2>1, <2>2
<1>9. ASSUME NEW R \in late, HandleLate(R) PROVE OrderInv'
  <2>1. R \in SUBSET Ids /\ UNCHANGED log /\ late' \subseteq late
    BY <1>9 DEF HandleLate, TypeOK
  <2>2. delivered' = delivered \cup R
    BY <1>9 DEF HandleLate, Accept
  <2>3. \A i \in R, j \in Ids :
          j < i /\ Service(j) = Service(i) => j \in R \cup delivered
    OBVIOUS
  <2> QED
    BY <1>4, <2>1, <2>2, <2>3
<1>10. CASE UNCHANGED vars
  BY <1>3, <1>10 DEF vars
<1> QED
  BY <1>2, <1>6, <1>7, <1>8, <1>9, <1>10 DEF Next

(* A service that accepted a row has accepted every earlier row addressed to   *)
(* it, whatever crashes, lost answers, late requests and concurrent agents do. *)
THEOREM DeliveriesInOrder ==
  ASSUME "partial" \notin Faults
  PROVE  Spec => []FirstDeliveriesInOrder
<1>1. Init => OrderInv
  BY DeliveryInit DEF Init, OrderInv, FirstDeliveriesInOrder, BatchIsOldest,
                      LateInOrder
<1>2. TypeOK /\ OrderInv /\ [Next]_vars => OrderInv'
  BY OrderStep
<1>3. OrderInv => FirstDeliveriesInOrder
  BY DEF OrderInv
<1> QED
  BY <1>1, <1>2, <1>3, Typing, PTL DEF Spec

---------------------------------------------------------------------------------
(* If no UPDATE fails, the marked rows stay the oldest ones: the next id to    *)
(* mark is the least of the batch, and all older rows are marked or batched.   *)
LEMMA PrefixStep ==
  ASSUME "markfails" \notin Faults, TypeOK, PrefixInv, [Next]_vars
  PROVE  PrefixInv'
<1> USE DEF PrefixInv, SyncedIsPrefix, MarksBatchOnly, BatchIsMarked,
            db, agent, remote
<1>1. BatchIsOldest'
  BY BatchOldestStep
<1>2. ASSUME NEW k \in Keys, AppendChange(k) PROVE PrefixInv'
  <2>1. \A i \in Ids, j \in Ids' : j < i => j \in Ids
    <3>1. \A i \in Ids, j \in Ids' : i \in Int /\ j \in Int
      BY DEF Ids
    <3> QED
      BY <1>2, <3>1, AppendKeepsRows
  <2> QED
    BY <1>1, <1>2, <2>1 DEF AppendChange, TypeOK
<1>3. ASSUME Ids' = Ids, UNCHANGED <<synced, batch, idsToMark>>
      PROVE  PrefixInv'
  BY <1>1, <1>3
<1>4. ASSUME NEW a \in Agents, NEW B, Ids' = Ids, UNCHANGED synced,
             batch' = [batch EXCEPT ![a] = B],
             idsToMark' = [idsToMark EXCEPT ![a] = B]
      PROVE  PrefixInv'
  BY <1>1, <1>4 DEF TypeOK
<1>5. ASSUME NEW a \in Agents, Step(a) PROVE PrefixInv'
  <2>1. Ids' = Ids
    BY <1>5 DEF Step, IdleTick, ReadBatch, Post, TakeAnswer, PushFails, MarkRow,
                FinishPush, Start, vars, Ids
  <2>2. CASE ReadBatch(a)
    BY <1>4, <2>1, <2>2 DEF ReadBatch
  <2>3. CASE IdleTick(a) \/ Post(a) \/ TakeAnswer(a) \/ Start(a)
    BY <1>3, <2>1, <2>3 DEF IdleTick, Post, TakeAnswer, Start, vars
  <2>4. CASE MarkRow(a)
    <3>1. PICK i \in idsToMark[a] :
            /\ \A j \in idsToMark[a] : i <= j
            /\ idsToMark' = [idsToMark EXCEPT ![a] = @ \ {i}]
            /\ synced' = synced \cup {i}
      BY <2>4 DEF MarkRow, Fail
    <3>2. UNCHANGED batch
      BY <2>4 DEF MarkRow
    <3>3. \A j \in Ids : j < i => j \in synced
      <4>1. i \in Int /\ \A j \in Ids : j \in Int
        BY DEF TypeOK, Ids
      <4>2. i \in batch[a]
        OBVIOUS
      <4>3. \A j \in Ids : j < i => j \in batch[a] \cup synced
        BY <4>2 DEF BatchIsOldest
      <4> QED
        BY <3>1, <4>1, <4>3
    <3>4. SyncedIsPrefix'
      BY <2>1, <3>1, <3>3
    <3>5. MarksBatchOnly' /\ BatchIsMarked'
      BY <3>1, <3>2 DEF TypeOK
    <3> QED
      BY <1>1, <3>4, <3>5
  <2>5. CASE PushFails(a) \/ FinishPush(a)
    BY <1>4, <2>1, <2>5 DEF PushFails, FinishPush, Reset
  <2> QED
    BY <1>5, <2>2, <2>3, <2>4, <2>5 DEF Step
<1>6. ASSUME NEW a \in Agents, Answer(a) PROVE PrefixInv'
  BY <1>3, <1>6 DEF Answer, HandleAll, HandleSome, Refuse, Ids
<1>7. ASSUME NEW a \in Agents, Lose(a) PROVE PrefixInv'
  BY <1>4, <1>7 DEF Lose, Disconnect, Crash, Reset, Ids
<1>8. ASSUME NEW R \in late, HandleLate(R) PROVE PrefixInv'
  BY <1>3, <1>8 DEF HandleLate, Ids
<1>9. CASE UNCHANGED vars
  BY <1>3, <1>9 DEF vars, Ids
<1> QED
  BY <1>2, <1>5, <1>6, <1>7, <1>8, <1>9 DEF Next

(* Marking the batch in id order never leaves an older row pending behind a    *)
(* marked one, with any number of agents and any crash (manager.go 87-89).     *)
THEOREM SyncedPrefix ==
  ASSUME "markfails" \notin Faults
  PROVE  Spec => []SyncedIsPrefix
<1>1. Init => PrefixInv
  BY DEF Init, PrefixInv, SyncedIsPrefix, MarksBatchOnly, BatchIsOldest,
         BatchIsMarked
<1>2. TypeOK /\ PrefixInv /\ [Next]_vars => PrefixInv'
  BY PrefixStep
<1>3. PrefixInv => SyncedIsPrefix
  BY DEF PrefixInv
<1> QED
  BY <1>1, <1>2, <1>3, Typing, PTL DEF Spec

---------------------------------------------------------------------------------
(* A lone agent whose UPDATEs succeed and whose requests are never handled     *)
(* late re-pushes only unsynced rows, all newer than every synced row, so what *)
(* a service holds for a key never falls behind a synced row of that key.      *)
LEMMA OverwriteStep ==
  ASSUME Faults \cap {"partial", "late", "markfails"} = {},
         \A a, b \in Agents : a = b,
         TypeOK, OverwriteInv, [Next]_vars
  PROVE  OverwriteInv'
<1> USE DEF OverwriteInv, NoStaleOverwrite, BatchIsUnsynced, BatchIsSeen,
            Accepted, db, agent, remote
<1>1. PrefixInv' /\ DeliveryInv'
  BY PrefixStep, DeliveryStep
<1>2. ASSUME NEW k \in Keys, AppendChange(k) PROVE OverwriteInv'
  <2>1. \A i \in Ids : log'[i] = log[i] /\ Service(i)' = Service(i)
    BY <1>2, AppendKeepsRows
  <2>2. synced \subseteq Ids /\ \A a \in Agents : batch[a] \subseteq Ids
    BY DEF TypeOK
  <2>3. UNCHANGED <<synced, pc, batch, byService, posting, reply, late, lastSeen>>
    BY <1>2 DEF AppendChange
  <2>4. NoStaleOverwrite' /\ BatchIsUnsynced'
    BY <2>1, <2>2, <2>3
  <2>5. BatchIsSeen'
    BY <2>1, <2>2, <2>3
  <2> QED
    BY <1>1, <2>3, <2>4, <2>5
<1>3. ASSUME UNCHANGED log PROVE \A i : Service(i)' = Service(i)
  BY <1>3, SameRows
<1>4. ASSUME NEW a \in Agents, UNCHANGED <<log, synced, lastSeen, late>>,
             batch' = [batch EXCEPT ![a] = {}]
      PROVE  OverwriteInv'
  BY <1>1, <1>3, <1>4 DEF TypeOK
<1>5. ASSUME UNCHANGED <<db, agent, remote>> PROVE OverwriteInv'
  BY <1>1, <1>3, <1>5
<1>6. ASSUME NEW a \in Agents, Step(a) PROVE OverwriteInv'
  <2>1. CASE IdleTick(a)
    BY <1>5, <2>1 DEF IdleTick, vars
  <2>2. CASE ReadBatch(a)
    <3>1. PICK B \in Batches :
            /\ batch' = [batch EXCEPT ![a] = B]
            /\ byService' = [byService EXCEPT ![a] = {Service(i) : i \in B}]
      BY <2>2 DEF ReadBatch
    <3>2. B \cap synced = {}
      BY <3>1 DEF Batches, Unsynced
    <3> QED
      BY <1>1, <1>3, <2>2, <3>1, <3>2 DEF ReadBatch, TypeOK
  <2>3. CASE Post(a)
    <3>1. reply[a] = None
      BY <2>3 DEF Post, DeliveryInv, MarkingIsLast
    <3> QED
      BY <1>1, <1>3, <2>3, <3>1 DEF Post, TypeOK, None
  <2>4. CASE TakeAnswer(a)
    <3>1. UNCHANGED <<log, synced, batch, byService, lastSeen, late>>
      BY <2>4 DEF TakeAnswer
    <3>2. /\ pc[a] = "wait" /\ Accepted(reply[a])
          /\ \A b \in Agents : b = a
      BY <2>4 DEF TakeAnswer
    <3>3. BatchIsUnsynced'
      BY <3>1, <3>2
    <3>4. BatchIsSeen'
      BY <1>3, <3>1, <3>2
    <3> QED
      BY <1>1, <3>1, <3>3, <3>4
  <2>5. CASE PushFails(a)
    BY <1>4, <2>5 DEF PushFails, Reset
  <2>6. CASE MarkRow(a)
    <3>1. PICK i \in idsToMark[a] : synced' = synced \cup {i}
      BY <2>6 DEF MarkRow, Fail
    <3>2. i \in batch[a] /\ byService[a] = {} /\ pc[a] = "mark"
      BY <2>6 DEF MarkRow, DeliveryInv, MarkingIsLast, MarksBatchOnly
    <3>3. lastSeen[log[i]] >= i
      BY <3>2
    <3>4. UNCHANGED <<log, lastSeen, pc, batch, byService, posting, reply, late>>
      BY <2>6 DEF MarkRow
    <3>5. NoStaleOverwrite'
      BY <3>1, <3>3, <3>4
    <3>6. BatchIsUnsynced' /\ BatchIsSeen'
      BY <1>3, <3>2, <3>4
    <3> QED
      BY <1>1, <3>4, <3>5, <3>6
  <2>7. CASE FinishPush(a)
    BY <1>4, <2>7 DEF FinishPush, Reset
  <2>8. CASE Start(a)
    <3>1. batch[a] \cap synced = {} /\ reply[a] = None
      BY <2>8 DEF Start, DeliveryInv, MarkingIsLast
    <3> QED
      BY <1>1, <1>3, <2>8, <3>1 DEF Start, TypeOK
  <2> QED
    BY <1>6, <2>1, <2>2, <2>3, <2>4, <2>5, <2>6, <2>7, <2>8 DEF Step
<1>7. ASSUME NEW a \in Agents, Answer(a) PROVE OverwriteInv'
  <2>1. CASE HandleAll(a)
    <3> DEFINE R == Posted(a)
    <3>1. /\ lastSeen' = [k \in Keys |-> IF About(R, k) = {} THEN lastSeen[k]
                                          ELSE Newest(About(R, k))]
          /\ UNCHANGED <<log, synced, pc, batch, byService, posting, late>>
          /\ reply' = [reply EXCEPT ![a] = "ok"]
      BY <2>1 DEF HandleAll, Accept
    <3>2. /\ pc[a] = "wait"
          /\ R \subseteq batch[a] /\ batch[a] \subseteq Ids /\ synced \subseteq Ids
          /\ \A i \in Ids : i \in Int /\ log[i] \in Keys
      BY <2>1 DEF HandleAll, Waiting, Posted, Group, TypeOK, Ids
    <3>3. \A k : About(R, k) # {} =>
            /\ Newest(About(R, k)) \in About(R, k)
            /\ \A j \in About(R, k) : j <= Newest(About(R, k))
      <4>1. Len(log) \in Nat
        BY DEF TypeOK
      <4>2. \A k : About(R, k) \in SUBSET (1 .. Len(log))
        BY <3>2 DEF About, Ids
      <4> QED
        BY <4>1, <4>2, NewestRow
    <3>4. \A k : About(R, k) \subseteq R
      BY DEF About
    <3>5. NoStaleOverwrite'
      <4>1. SUFFICES ASSUME NEW i \in synced PROVE lastSeen'[log[i]] >= i
        BY <3>1
      <4>2. CASE About(R, log[i]) = {}
        BY <3>1, <3>2, <4>2
      <4>3. CASE About(R, log[i]) # {}
        <5>1. PICK m \in Ids : m = Newest(About(R, log[i])) /\ m \in batch[a]
          BY <3>2, <3>3, <3>4, <4>3
        <5>2. m \notin synced
          BY <3>2, <5>1
        <5>3. ~ (m < i)
          BY <5>2 DEF PrefixInv, SyncedIsPrefix
        <5>4. lastSeen'[log[i]] = m
          BY <3>1, <3>2, <4>3, <5>1
        <5> QED
          BY <3>2, <5>3, <5>4
      <4> QED
        BY <4>2, <4>3
    <3>6. BatchIsSeen'
      <4>1. SUFFICES ASSUME NEW i \in batch[a]
                     PROVE  \/ lastSeen'[log[i]] >= i
                            \/ Service(i) \in byService[a]
        BY <1>3, <3>1
      <4>2. CASE Service(i) = posting[a]
        <5>1. i \in About(R, log[i])
          BY <4>2 DEF About, Posted, Group
        <5>2. lastSeen'[log[i]] = Newest(About(R, log[i]))
          BY <3>1, <3>2, <5>1
        <5>3. i <= Newest(About(R, log[i])) /\ Newest(About(R, log[i])) \in Int
          BY <3>2, <3>3, <3>4, <5>1
        <5> QED
          BY <3>2, <5>2, <5>3
      <4>3. CASE Service(i) # posting[a]
        <5>1. About(R, log[i]) = {}
          BY <4>3 DEF About, Posted, Group, Service
        <5> QED
          BY <3>1, <3>2, <4>3, <5>1
      <4> QED
        BY <4>2, <4>3
    <3>7. BatchIsUnsynced'
      BY <3>1
    <3> QED
      BY <1>1, <3>1, <3>5, <3>6, <3>7
  <2>2. CASE Refuse(a)
    BY <1>1, <1>3, <2>2 DEF Refuse, Waiting, TypeOK, None
  <2> QED
    BY <1>7, <2>1, <2>2 DEF Answer, HandleSome, Fail
<1>8. ASSUME NEW a \in Agents, Lose(a) PROVE OverwriteInv'
  <2>1. UNCHANGED <<log, synced, lastSeen, late>>
    BY <1>8 DEF Lose, Disconnect, Crash, LeaveBehind
  <2>2. batch' = [batch EXCEPT ![a] = {}]
    BY <1>8 DEF Lose, Disconnect, Crash, Reset
  <2> QED
    BY <1>4, <2>1, <2>2
<1>9. ASSUME NEW R \in late, HandleLate(R) PROVE OverwriteInv'
  BY <1>9
<1>10. CASE UNCHANGED vars
  BY <1>5, <1>10 DEF vars
<1> QED
  BY <1>2, <1>6, <1>7, <1>8, <1>9, <1>10 DEF Next

(* With one agent, whose UPDATEs succeed and whose requests are handled while  *)
(* it waits or never, re-pushing a batch never leaves an older version of a    *)
(* row at the service than the database calls synced.                          *)
THEOREM NoStaleOverwrites ==
  ASSUME Faults \cap {"partial", "late", "markfails"} = {},
         \A a, b \in Agents : a = b
  PROVE  Spec => []NoStaleOverwrite
<1>1. Init => OverwriteInv
  BY DeliveryInit DEF Init, OverwriteInv, PrefixInv, SyncedIsPrefix,
                      MarksBatchOnly, BatchIsOldest, BatchIsMarked,
                      NoStaleOverwrite, BatchIsUnsynced, BatchIsSeen
<1>2. TypeOK /\ OverwriteInv /\ [Next]_vars => OverwriteInv'
  BY OverwriteStep
<1>3. OverwriteInv => NoStaleOverwrite
  BY DEF OverwriteInv
<1> QED
  BY <1>1, <1>2, <1>3, Typing, PTL DEF Spec

---------------------------------------------------------------------------------
(* The agents, crashes and re-pushes included, implement an at-least-once      *)
(* outbox: every step records a change, delivers some, acknowledges a          *)
(* delivered one, or shows the outbox nothing.                                 *)
THEOREM AgentsImplementOutbox ==
  ASSUME "partial" \notin Faults
  PROVE  Spec => OutboxSpec
<1>1. Init => Outbox!Init
  BY DEF Init, Outbox!Init
<1>2. ASSUME TypeOK, DeliveryInv, [Next]_vars
      PROVE  [Outbox!Next]_(Outbox!vars)
  <2> USE DEF db, agent, remote, Outbox!vars, Outbox!Ids
  <2>1. ASSUME NEW k \in Keys, AppendChange(k) PROVE Outbox!Next
    BY <2>1 DEF AppendChange, Outbox!Next, Outbox!Record
  <2>2. ASSUME NEW R \in SUBSET Ids, delivered' = delivered \cup R,
               UNCHANGED <<log, synced>>
        PROVE  Outbox!Next
    BY <2>2 DEF Outbox!Next, Outbox!Deliver, Ids
  <2>3. ASSUME NEW a \in Agents, Step(a) PROVE [Outbox!Next]_(Outbox!vars)
    <3>1. CASE MarkRow(a)
      <4>1. PICK i \in idsToMark[a] : synced' = synced \cup {i} \/ UNCHANGED synced
        BY <3>1 DEF MarkRow
      <4>2. i \in delivered
        BY <1>2, <3>1, <4>1, AnsweredIsDelivered
           DEF MarkRow, DeliveryInv, MarksBatchOnly, MarkingIsLast, BatchPosted
      <4> QED
        BY <3>1, <4>1, <4>2 DEF MarkRow, Outbox!Next, Outbox!Acknowledge
    <3> QED
      BY <2>3, <3>1 DEF Step, IdleTick, ReadBatch, Post, TakeAnswer, PushFails,
                        FinishPush, Start, vars
  <2>4. ASSUME NEW a \in Agents, Answer(a) PROVE [Outbox!Next]_(Outbox!vars)
    <3>1. CASE HandleAll(a)
      <4>1. Posted(a) \in SUBSET Ids
        BY <1>2 DEF Posted, Group, TypeOK
      <4> QED
        BY <2>2, <3>1, <4>1 DEF HandleAll, Accept
    <3> QED
      BY <2>4, <3>1 DEF Answer, HandleSome, Refuse, Fail
  <2>5. ASSUME NEW a \in Agents, Lose(a) PROVE UNCHANGED Outbox!vars
    BY <2>5 DEF Lose, Disconnect, Crash
  <2>6. ASSUME NEW R \in late, HandleLate(R) PROVE Outbox!Next
    <3>1. R \in SUBSET Ids
      BY <1>2 DEF TypeOK
    <3> QED
      BY <2>2, <2>6, <3>1 DEF HandleLate, Accept
  <2> QED
    BY <1>2, <2>1, <2>3, <2>4, <2>5, <2>6 DEF Next, vars
<1> QED
  BY <1>1, <1>2, DeliveryAlways, Typing, PTL DEF Spec, OutboxSpec, Outbox!Spec

=================================================================================
