------------------------------- MODULE SyncAgent --------------------------------
(* The Go sync agent (rg-sync-agent): every RG_POLL_INTERVAL_MS a goroutine    *)
(* reads a batch of unsynced rows of _changes, groups them by service, POSTs   *)
(* each group to the gateway and, when every POST was answered 200, 202 or     *)
(* 207, marks the rows of the batch one by one.                                *)
(*                                                                             *)
(* There may be several agents on one database: the desktop never stops the    *)
(* agent it spawned, so an agent of an earlier session can still be polling.   *)
(*                                                                             *)
(* Outside this component, and therefore left to choose freely: the host       *)
(* application that appends rows to _changes, the network, and the services    *)
(* behind the gateway.  What they may do wrong is listed in Faults.            *)
EXTENDS Naturals, Sequences, FiniteSets

CONSTANTS Agents,       \* the agent processes that poll the database
          Keys,         \* <<entity, entity_id>> pairs a change can be about
          Limit,        \* rows a batch holds at most (50 in the code)
          MaxRows,      \* bound: rows ever appended to _changes
          MaxFailures,  \* bound: failures of all kinds in a behaviour
          Faults,       \* the failures that can happen
          Broken        \* services that refuse every request

Services == {"workorders", "cmms", "helpdesk"}

AllFaults == {"crash",       \* an agent process dies
              "refuse",      \* a service answers with an error status
              "disconnect",  \* the request or its answer is lost
              "late",        \* an abandoned request is handled later on
              "partial",     \* a service answers 207 and applies some rows
              "markfails"}   \* an UPDATE of synced_at fails (its error is ignored)

ASSUME LimitAssumption == Limit \in Nat \ {0}
ASSUME BoundsAssumption == MaxRows \in Nat /\ MaxFailures \in Nat
ASSUME FaultsAssumption == Faults \subseteq AllFaults
ASSUME BrokenAssumption == Broken \subseteq Services

VARIABLES
  log,           \* _changes, by id: the key each row is about
  synced,        \* ids of the rows with synced_at set
  last_push_at,  \* whether _sync_state.last_push_at was ever set
  pc,            \* where each agent is
  batch,         \* changes: ids of the rows of the batch it pushes
  byService,     \* the services whose group it has still to POST
  posting,       \* the service of the POST under way
  reply,         \* the answer to that POST
  idsToMark,     \* ids it has still to mark
  late,          \* row groups of abandoned requests a service still holds
  delivered,     \* ids of the rows some service has accepted
  lastSeen,      \* for each key, the row its service accepted last
  rejected,      \* ids of the rows some service refused in a 207
  failures       \* failures so far

db == <<log, synced, last_push_at>>
agent == <<pc, batch, byService, posting, reply, idsToMark>>
remote == <<late, delivered, lastSeen, rejected>>
vars == <<db, agent, remote, failures>>

None == "none"

serviceForEntity(entity) ==
  CASE entity \in {"work_order", "work_order_note", "work_order_photo"} -> "workorders"
    [] entity \in {"asset", "ppm_schedule", "ppm_completion"} -> "cmms"
    [] entity \in {"helpdesk_request", "amenity_booking"} -> "helpdesk"
    [] OTHER -> "workorders"

Ids == 1 .. Len(log)
Service(i) == serviceForEntity(log[i][1])
Unsynced == Ids \ synced

(* The rows of a batch that go to one service.                                 *)
Group(R, s) == {i \in R : Service(i) = s}

(* Mutants of Batches: a SELECT without ORDER BY, and one ORDER BY id DESC.    *)
BatchesAnyOrder == {B \in SUBSET Unsynced : B # {} /\ Cardinality(B) <= Limit}
BatchesNewestFirst ==
  {B \in BatchesAnyOrder : \A i \in B, j \in Unsynced : j > i => j \in B}

(* SELECT ... WHERE synced_at IS NULL ORDER BY id LIMIT 50.  rows.Err() is not *)
(* consulted, so a read that fails midway is taken for a shorter batch.        *)
Batches == {B \in SUBSET Unsynced :
              /\ B # {}
              /\ Cardinality(B) <= Limit
              /\ \A i \in B, j \in Unsynced : j < i => j \in B}

---------------------------------------------------------------------------------
Init ==
  /\ log = <<>>
  /\ synced = {}
  /\ last_push_at = FALSE
  /\ pc = [a \in Agents |-> "idle"]
  /\ batch = [a \in Agents |-> {}]
  /\ byService = [a \in Agents |-> {}]
  /\ posting = [a \in Agents |-> None]
  /\ reply = [a \in Agents |-> None]
  /\ idsToMark = [a \in Agents |-> {}]
  /\ late = {}
  /\ delivered = {}
  /\ lastSeen = [k \in Keys |-> 0]
  /\ rejected = {}
  /\ failures = 0

Fail(kind) == /\ kind \in Faults
              /\ failures < MaxFailures
              /\ failures' = failures + 1

(* The host application records a change (not part of the agent).              *)
AppendChange(k) ==
  /\ Len(log) < MaxRows
  /\ log' = Append(log, k)
  /\ UNCHANGED <<synced, last_push_at, agent, remote, failures>>

(* A tick of the poller that finds nothing to push, or whose query fails;      *)
(* performPull is empty.                                                       *)
IdleTick(a) == pc[a] = "idle" /\ UNCHANGED vars

(* A tick that finds unsynced rows.                                            *)
ReadBatch(a) ==
  /\ pc[a] = "idle"
  /\ \E B \in Batches :
       /\ batch' = [batch EXCEPT ![a] = B]
       /\ idsToMark' = [idsToMark EXCEPT ![a] = B]
       /\ byService' = [byService EXCEPT ![a] = {Service(i) : i \in B}]
  /\ pc' = [pc EXCEPT ![a] = "push"]
  /\ UNCHANGED <<db, posting, reply, remote, failures>>

(* PushChanges sends the next group; a Go map is ranged over in any order.     *)
Post(a) ==
  /\ pc[a] = "push"
  /\ \E s \in byService[a] :
       /\ posting' = [posting EXCEPT ![a] = s]
       /\ byService' = [byService EXCEPT ![a] = @ \ {s}]
  /\ pc' = [pc EXCEPT ![a] = "wait"]
  /\ UNCHANGED <<db, batch, reply, idsToMark, remote, failures>>

---------------------------------------------------------------------------------
(* The services.  A group of rows is accepted row after row, in id order, so   *)
(* of several rows about one key the last one counts.                          *)
Newest(R) == CHOOSE i \in R : \A j \in R : j <= i
About(R, k) == {i \in R : log[i] = k}

Accept(R) ==
  /\ delivered' = delivered \cup R
  /\ lastSeen' = [k \in Keys |-> IF About(R, k) = {} THEN lastSeen[k]
                                                     ELSE Newest(About(R, k))]

Waiting(a) == pc[a] = "wait" /\ reply[a] = None
Posted(a) == Group(batch[a], posting[a])

(* 200 or 202.                                                                 *)
HandleAll(a) ==
  /\ Waiting(a)
  /\ posting[a] \notin Broken
  /\ Accept(Posted(a))
  /\ reply' = [reply EXCEPT ![a] = "ok"]
  /\ UNCHANGED <<db, pc, batch, byService, posting, idsToMark, late, rejected,
                 failures>>

(* 207: some rows of the group are refused.                                    *)
HandleSome(a) ==
  /\ Waiting(a)
  /\ posting[a] \notin Broken
  /\ \E R \in SUBSET Posted(a) :
       R # Posted(a) /\ Accept(R) /\ rejected' = rejected \cup (Posted(a) \ R)
  /\ reply' = [reply EXCEPT ![a] = "multi"]
  /\ Fail("partial")
  /\ UNCHANGED <<db, pc, batch, byService, posting, idsToMark, late>>

(* Any other status, the gateway's own 401, 404 and 503 included.              *)
Refuse(a) ==
  /\ Waiting(a)
  /\ reply' = [reply EXCEPT ![a] = "error"]
  /\ IF posting[a] \in Broken THEN UNCHANGED failures ELSE Fail("refuse")
  /\ UNCHANGED <<db, pc, batch, byService, posting, idsToMark, remote>>

(* A service gets to a request whose sender no longer waits for it.            *)
HandleLate(R) ==
  /\ Accept(R)
  /\ late' = late \ {R}
  /\ UNCHANGED <<db, agent, rejected, failures>>

---------------------------------------------------------------------------------
(* Mutant of Accepted: the status of the response is not looked at.            *)
AcceptedAny(answer) == answer # None

Accepted(answer) == answer \in {"ok", "multi"}

(* The POST succeeded: go on to the next group, or start marking.              *)
TakeAnswer(a) ==
  /\ pc[a] = "wait"
  /\ Accepted(reply[a])
  /\ pc' = [pc EXCEPT ![a] = IF byService[a] = {} THEN "mark" ELSE "push"]
  /\ posting' = [posting EXCEPT ![a] = None]
  /\ reply' = [reply EXCEPT ![a] = None]
  /\ UNCHANGED <<db, batch, byService, idsToMark, remote, failures>>

(* The agent drops what it holds in memory and is at `where`.                  *)
Reset(a, where) ==
  /\ pc' = [pc EXCEPT ![a] = where]
  /\ batch' = [batch EXCEPT ![a] = {}]
  /\ byService' = [byService EXCEPT ![a] = {}]
  /\ posting' = [posting EXCEPT ![a] = None]
  /\ reply' = [reply EXCEPT ![a] = None]
  /\ idsToMark' = [idsToMark EXCEPT ![a] = {}]

(* An error status: PushChanges returns, and performPush with it; groups that  *)
(* were accepted before are not marked.                                        *)
PushFails(a) ==
  /\ pc[a] = "wait"
  /\ reply[a] = "error"
  /\ Reset(a, "idle")
  /\ UNCHANGED <<db, remote, failures>>

(* A request nobody waits for any more is handled later or never.              *)
LeaveBehind(a) ==
  late' = IF Waiting(a) /\ "late" \in Faults THEN late \cup {Posted(a)} ELSE late

(* HTTPClient.Do returns an error, before or after the service handled it.     *)
Disconnect(a) ==
  /\ pc[a] = "wait"
  /\ Fail("disconnect")
  /\ LeaveBehind(a)
  /\ Reset(a, "idle")
  /\ UNCHANGED <<db, delivered, lastSeen, rejected>>

(* Mutants of MarkRow: one marks by position in the slice instead of by id,    *)
(* the other stops one id short of the end.                                    *)
MarkRowByIndex(a) ==
  /\ pc[a] = "mark"
  /\ \E i \in idsToMark[a] :
       /\ \A j \in idsToMark[a] : i <= j
       /\ idsToMark' = [idsToMark EXCEPT ![a] = @ \ {i}]
       /\ synced' = synced \cup {Cardinality(batch[a] \ idsToMark[a])}
  /\ UNCHANGED <<log, last_push_at, pc, batch, byService, posting, reply, remote,
                 failures>>
MarkRowAllButLast(a) ==
  /\ pc[a] = "mark"
  /\ \E i \in idsToMark[a] :
       /\ \A j \in idsToMark[a] : i <= j
       /\ idsToMark' = [idsToMark EXCEPT ![a] = @ \ {i}]
       /\ synced' = IF idsToMark[a] = {i} THEN synced ELSE synced \cup {i}
  /\ UNCHANGED <<log, last_push_at, pc, batch, byService, posting, reply, remote,
                 failures>>

(* UPDATE _changes SET synced_at for the next id; its error is ignored.        *)
MarkRow(a) ==
  /\ pc[a] = "mark"
  /\ \E i \in idsToMark[a] :
       /\ \A j \in idsToMark[a] : i <= j
       /\ idsToMark' = [idsToMark EXCEPT ![a] = @ \ {i}]
       /\ \/ synced' = synced \cup {i} /\ UNCHANGED failures
          \/ Fail("markfails") /\ UNCHANGED synced
  /\ UNCHANGED <<log, last_push_at, pc, batch, byService, posting, reply, remote>>

(* All ids tried: last_push_at is set whatever became of the marks.            *)
FinishPush(a) ==
  /\ pc[a] = "mark"
  /\ idsToMark[a] = {}
  /\ last_push_at' = TRUE
  /\ Reset(a, "idle")
  /\ UNCHANGED <<log, synced, remote, failures>>

(* The process dies, and comes back with nothing but the database.             *)
Crash(a) ==
  /\ pc[a] # "down"
  /\ Fail("crash")
  /\ LeaveBehind(a)
  /\ Reset(a, "down")
  /\ UNCHANGED <<db, delivered, lastSeen, rejected>>

Start(a) ==
  /\ pc[a] = "down"
  /\ pc' = [pc EXCEPT ![a] = "idle"]
  /\ UNCHANGED <<db, batch, byService, posting, reply, idsToMark, remote, failures>>

---------------------------------------------------------------------------------
Step(a) == \/ IdleTick(a) \/ ReadBatch(a) \/ Post(a) \/ TakeAnswer(a) 
           \/ PushFails(a) \/ MarkRow(a) \/ FinishPush(a) \/ Start(a)

Answer(a) == HandleAll(a) \/ HandleSome(a) \/ Refuse(a)

Lose(a) == Disconnect(a) \/ Crash(a)

Next == \/ \E k \in Keys : AppendChange(k)
        \/ \E a \in Agents : Step(a) \/ Answer(a) \/ Lose(a)
        \/ \E R \in late : HandleLate(R)

Spec == Init /\ [][Next]_vars

(* The poller goroutine always goes on, the supervisor starts a dead agent     *)
(* again, and a service that is reached answers (the agent sets no timeout, so *)
(* this last one is an assumption about the services).                         *)
Fairness == \A a \in Agents : WF_vars(Step(a)) /\ WF_vars(Answer(a))

FairSpec == Spec /\ Fairness

---------------------------------------------------------------------------------
Positions == {"idle", "push", "wait", "mark", "down"}

(* The variables keep their types; in particular every id an agent, a service  *)
(* or an abandoned request holds is the id of a row of the log.                *)
TypeOK ==
  /\ log \in Seq(Keys)
  /\ synced \subseteq Ids
  /\ last_push_at \in BOOLEAN
  /\ pc \in [Agents -> Positions]
  /\ batch \in [Agents -> SUBSET Ids]
  /\ byService \in [Agents -> SUBSET Services]
  /\ posting \in [Agents -> Services \cup {None}]
  /\ reply \in [Agents -> {None, "ok", "multi", "error"}]
  /\ idsToMark \in [Agents -> SUBSET Ids]
  /\ late \in SUBSET SUBSET Ids
  /\ delivered \subseteq Ids
  /\ lastSeen \in [Keys -> 0 .. Len(log)]
  /\ rejected \subseteq Ids
  /\ failures \in 0 .. MaxFailures

(* A row leaves the queue only when its service has accepted it: no crash,     *)
(* lost answer, late request or second agent makes performPush mark a row no   *)
(* service ever took.                                                          *)
SyncedIsDelivered == synced \subseteq delivered

(* With any failures, 207 included: a row leaves the queue only when its       *)
(* service has answered for it, by accepting it or by refusing it in a 207.    *)
(* No row is lost in any other way.                                            *)
Answered == delivered \cup rejected
SyncedIsAnswered == synced \subseteq Answered

(* The first deliveries to a service are in id order: a service that accepted  *)
(* a row has accepted every earlier row that is addressed to it, so it never   *)
(* sees an UPDATE of a row whose INSERT was not pushed.                        *)
FirstDeliveriesInOrder ==
  \A i \in delivered, j \in Ids :
    j < i /\ Service(j) = Service(i) => j \in delivered

(* The rows that are marked are the oldest ones: an interrupted or concurrent  *)
(* marking loop never leaves an older row pending behind a synced one.         *)
SyncedIsPrefix == \A i \in synced, j \in Ids : j < i => j \in synced

(* What a service holds for a key never falls behind what the database calls   *)
(* synced: re-pushing a batch does not put an older version over a newer one   *)
(* and leave it there.                                                         *)
NoStaleOverwrite == \A i \in synced : lastSeen[log[i]] >= i

---------------------------------------------------------------------------------
(* What the proofs of these need to know about a batch under way.              *)

(* Each row of a batch is answered for, or its group is still to be.           *)
BatchPosted ==
  \A a \in Agents : \A i \in batch[a] :
    \/ i \in Answered
    \/ Service(i) \in byService[a]
    \/ pc[a] = "wait" /\ posting[a] = Service(i) /\ ~ Accepted(reply[a])

(* Marking starts when no group is left, and answers are taken before that.    *)
MarkingIsLast ==
  \A a \in Agents : /\ pc[a] = "mark" => byService[a] = {}
                    /\ pc[a] # "wait" => reply[a] = None

(* Only a 207 refuses single rows.                                             *)
OnlyPartialRejects == "partial" \notin Faults => rejected = {}

MarksBatchOnly == \A a \in Agents : idsToMark[a] \subseteq batch[a]

(* A batch leaves out no older row that is still unsynced.                     *)
BatchIsOldest ==
  \A a \in Agents : \A i \in batch[a], j \in Ids :
    j < i => j \in batch[a] \cup synced

(* Neither does an abandoned request, as far as its own service goes.          *)
LateInOrder ==
  \A R \in late : \A i \in R, j \in Ids :
    j < i /\ Service(j) = Service(i) => j \in R \cup delivered

(* Ids leave idsToMark by being marked.                                        *)
BatchIsMarked == \A a \in Agents : batch[a] \subseteq idsToMark[a] \cup synced

(* Until it marks them, a lone agent has only unsynced rows in its batch.      *)
BatchIsUnsynced ==
  \A a \in Agents : pc[a] # "mark" => batch[a] \cap synced = {}

(* The service of an accepted row of the batch holds that row or a newer one.  *)
BatchIsSeen ==
  \A a \in Agents : \A i \in batch[a] :
    \/ lastSeen[log[i]] >= i
    \/ Service(i) \in byService[a]
    \/ pc[a] = "wait" /\ posting[a] = Service(i) /\ ~ Accepted(reply[a])

DeliveryInv ==
  /\ SyncedIsAnswered /\ BatchPosted /\ MarkingIsLast /\ MarksBatchOnly
  /\ OnlyPartialRejects

OrderInv ==
  DeliveryInv /\ FirstDeliveriesInOrder /\ BatchIsOldest /\ LateInOrder

PrefixInv == SyncedIsPrefix /\ MarksBatchOnly /\ BatchIsOldest /\ BatchIsMarked

OverwriteInv ==
  /\ PrefixInv /\ DeliveryInv /\ late = {}
  /\ NoStaleOverwrite /\ BatchIsUnsynced /\ BatchIsSeen

---------------------------------------------------------------------------------
(* Every change is marked in the end, if the services answer and fail only     *)
(* finitely often.                                                             *)
EventuallySynced == \A i \in 1 .. MaxRows : (i <= Len(log)) ~> (i \in synced)

(* A row its service accepted is marked in the end.                            *)
AcceptedIsMarked == \A i \in 1 .. MaxRows : (i \in delivered) ~> (i \in synced)

(* The agents implement an at-least-once outbox.                               *)
Outbox == INSTANCE ChangeOutbox WITH acked <- synced
OutboxSpec == Outbox!Spec

=================================================================================
