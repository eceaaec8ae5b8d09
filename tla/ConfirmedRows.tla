----------------------------- MODULE ConfirmedRows ------------------------------
(* What the views promise of the rows the commands keep, without saying how: a *)
(* row comes to be once, is removed once and never comes back; it is removed,  *)
(* and its status changes, only when somebody has confirmed that change of     *)
(* that row before; and it never holds a text that is not acceptable.  One     *)
(* step changes one row in one way.                                            *)
CONSTANTS Kinds,       \* kinds of rows
          Unguarded,   \* those whose rows are removed without a confirmation
          Ids,
          Acceptable,  \* by kind, the texts a row may hold
          Statuses,
          First        \* the status of a new row

VARIABLES rows,        \* by kind and id: the state, the text and the status
          confirmed    \* the changes confirmed so far, by kind

vars == <<rows, confirmed>>

Removal(i) == [type |-> "delete", id |-> i, status |-> First]
Setting(i, s) == [type |-> "update", id |-> i, status |-> s]

Exists(k, i) == rows[k][i].state # "absent"

Init == /\ \A k \in Kinds, i \in Ids :
             /\ rows[k][i].state \in {"absent", "live"}
             /\ Exists(k, i) => rows[k][i].text \in Acceptable[k]
             /\ rows[k][i].status = First
        /\ confirmed = {}

Confirm == confirmed \subseteq confirmed' /\ UNCHANGED rows

Create(k, i) == /\ ~ Exists(k, i)
                /\ \E t \in Acceptable[k] :
                     rows' = [rows EXCEPT ![k][i] =
                                [state |-> "live", text |-> t, status |-> First]]
                /\ UNCHANGED confirmed

Edit(k, i) == /\ Exists(k, i)
              /\ \E t \in Acceptable[k] : rows' = [rows EXCEPT ![k][i].text = t]
              /\ UNCHANGED confirmed

SetStatus(k, i) == /\ Exists(k, i)
                   /\ \E s \in Statuses :
                        /\ <<k, Setting(i, s)>> \in confirmed
                        /\ rows' = [rows EXCEPT ![k][i].status = s]
                   /\ UNCHANGED confirmed

Remove(k, i) == /\ Exists(k, i)
                /\ k \in Unguarded \/ <<k, Removal(i)>> \in confirmed
                /\ rows' = [rows EXCEPT ![k][i].state = "gone"]
                /\ UNCHANGED confirmed

Next == \/ Confirm
        \/ \E k \in Kinds, i \in Ids :
             Create(k, i) \/ Edit(k, i) \/ SetStatus(k, i) \/ Remove(k, i)

Spec == Init /\ [][Next]_vars

=================================================================================
