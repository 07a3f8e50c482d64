---------------------------- MODULE NoteSyncLive ----------------------------
(***************************************************************************)
(* NoteSync under fairness: the devices keep syncing, and syncs fail, or   *)
(* find the database busy, only finitely often.                            *)
(***************************************************************************)
EXTENDS NoteSync

CONSTANT MaxAborts   \* bound on syncs that fail and transactions retried
ASSUME AbortAssumption == MaxAborts \in Nat

VARIABLE aborts      \* how many there have been so far
liveVars == <<allVars, aborts>>

LiveInit == SyncInit /\ aborts = 0

LiveNext ==
    \/ /\ \/ \E d \in Device : UserStep(d) \/ SyncStep(d) \/ Delayed(d)
          \/ Retention
       /\ UNCHANGED aborts
    \/ /\ aborts < MaxAborts
       /\ \E d \in Device : Abort(d) \/ RollBack(d)
       /\ aborts' = aborts + 1

(* A page that is visible and online starts a sync every minute
   (ONLINE_SESSION_SYNC_MS), and one that runs goes on unless it fails. *)
LiveSpec ==
    LiveInit /\ [][LiveNext]_liveVars /\ \A d \in Device : WF_allVars(SyncStep(d))

(* A note no device has an open conflict of is everywhere what the server has
   of it, and nothing of it waits to be pushed. *)
Agreed(n) ==
    (\A d \in Device : \A c \in conflicts[d] : c.note # n) =>
        \A d \in Device :
            /\ Clean(d, n)
            /\ IF HasRow(n) THEN Live(local[d][n]) = Live(rows[n])
               ELSE Live(local[d][n]) = None

(* Once the users stop, every device comes to agree with the server for good,
   except where a conflict waits for a choice: no lost answer leaves an edit
   that is refused for ever, and no cursor stands past a change that is still
   missing. *)
EventuallyAgree == <>[](\A n \in Note : Agreed(n))
=============================================================================
