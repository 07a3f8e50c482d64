------------------------------ MODULE Replicas ------------------------------
(***************************************************************************)
(* What keeping databases equal promises, whatever the mechanism.  A       *)
(* replica holds, of each record, the edits its state incorporates, and    *)
(* shows the live ones.  Users make new edits at a replica; a replica      *)
(* takes over edits made elsewhere only on top of what a live record       *)
(* holds.                                                                  *)
(***************************************************************************)
EXTENDS Naturals

CONSTANTS Replica, Entity, Edits

VARIABLES
    held,   \* the edits each replica's state of a record incorporates
    live    \* the records that are shown at a replica

replicaVars == <<held, live>>

Made == UNION {held[r][e] : r \in Replica, e \in Entity}

ReplicaInit ==
    /\ held = [r \in Replica |-> [e \in Entity |-> {}]]
    /\ live = [r \in Replica |-> {}]

(* A user writes or deletes a record. *)
EditRecord(r, e) ==
    /\ \E n \in Edits : held' = [held EXCEPT ![r][e] = @ \union {n}]
    /\ \E shown \in BOOLEAN :
          live' = [live EXCEPT ![r] = IF shown THEN @ \union {e} ELSE @ \ {e}]

(* Another replica's state of some records is taken over, all at once. *)
TakeOver(r) ==
    \E records \in SUBSET Entity :
        /\ \E new \in [records -> SUBSET Made] :
              /\ \A e \in records \intersect live[r] : held[r][e] \subseteq new[e]
              /\ held' = [held EXCEPT ![r] =
                             [e \in Entity |-> IF e \in records THEN new[e] ELSE @[e]]]
        /\ \E shown \in SUBSET records :
              live' = [live EXCEPT ![r] = (@ \ records) \union shown]

ReplicaNext ==
    \E r \in Replica : TakeOver(r) \/ \E e \in Entity : EditRecord(r, e)

ReplicaSpec == ReplicaInit /\ [][ReplicaNext]_replicaVars
=============================================================================
