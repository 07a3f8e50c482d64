---------------------------- MODULE MirrorQueue ----------------------------
(***************************************************************************)
(* When the self-hosted server mirrors its database (hono.ts, the queue    *)
(* around syncRemoteDatabase) and who may (remote-sync.ts, the two leases  *)
(* and syncInFlight).  What one mirror run does to the two databases is    *)
(* module Mirror; here it is seen through how many of the local writes it  *)
(* carried over.                                                           *)
(*                                                                         *)
(* Requests run concurrently on one event loop: a step is what happens     *)
(* between two awaits.  The process may be killed at any step, and another *)
(* process that mirrors to the same remote database may hold its lease.    *)
(***************************************************************************)
EXTENDS Naturals

CONSTANTS
    MaxWrites,   \* bound on the local writes
    MaxCalls,    \* calls of queueRemoteSyncAfter at one place that are told apart
    MaxTrouble   \* bound on crashes, failed runs and runs of the other process

ASSUME QueueBounds ==
    MaxWrites \in Nat /\ MaxCalls \in Nat \ {0} /\ MaxTrouble \in Nat

VARIABLES
    writes,     \* local writes committed so far
    mirrored,   \* how many of them the remote database has
    flag,       \* sync_meta 'remote.sync.pending'
    marking,    \* calls of queueRemoteSyncAfter that are writing the flag
    entering,   \* calls that have written it and have yet to enter the queue
    queued,     \* remoteSyncQueued
    loop,       \* the queue's worker: where it is, or "off"
    timer,      \* remoteSyncRetryTimer is set
    direct,     \* an account route inside syncRemoteBestEffort: where it is
    flight,     \* syncInFlight: "off", "asking", "mirroring"
    covers,     \* the writes committed when the mirroring started
    lease,      \* mirror.lock.v1 of both databases: who holds it
    trouble,    \* crashes and failures so far
    excused     \* history: writes up to this one may have been forgotten

memory == <<marking, entering, queued, loop, timer, direct, flight, covers>>
queueVars == <<writes, mirrored, flag, memory, lease, trouble,
               excused>>

Outcome     == {"ok", "bad", "locked"}
LoopPlace   == {"off", "top", "waiting", "cleared", "unmarking", "failing"}
                   \union Outcome
DirectPlace == {"off", "waiting"} \union Outcome
Holder      == {"nobody", "us", "dead", "other"}

(***************************************************************************)
(* queueRemoteSyncAfter: the flag is written before the call goes on, and  *)
(* another step may come in between.  Every caller passes no earlier run   *)
(* (remoteSync is undefined), so that previousOk is true whenever the      *)
(* worker looks at it.                                                     *)
(***************************************************************************)
Calls == marking + entering

(* Calls at the same place do the same: those beyond MaxCalls count as one. *)
OneMoreCall == IF marking < MaxCalls THEN marking + 1 ELSE marking

LocalWrite ==
    /\ writes < MaxWrites
    /\ writes' = writes + 1
    /\ marking' = OneMoreCall
    /\ UNCHANGED <<mirrored, flag, entering, queued, loop, timer, direct,
                   flight, covers, lease, trouble, excused>>

(* A pull, or a read of the notes or notebooks, queues a run too. *)
Pull ==
    /\ marking' = OneMoreCall
    /\ UNCHANGED <<writes, mirrored, flag, entering, queued, loop, timer,
                   direct, flight, covers, lease, trouble, excused>>

MarkPending ==
    /\ marking > 0
    /\ marking' = marking - 1 /\ entering' = IF entering < MaxCalls THEN entering + 1 ELSE entering
    /\ flag' = TRUE
    /\ UNCHANGED <<writes, mirrored, queued, loop, timer, direct, flight,
                   covers, lease, trouble, excused>>

(* A worker that is busy looks at the queue again when it is done. *)
Enqueue_UnlessBusy == queued' = (queued \/ loop = "off")
Enqueue == queued' = TRUE

EnterQueue ==
    /\ entering > 0
    /\ entering' = entering - 1
    /\ timer' = FALSE
    /\ Enqueue
    /\ loop' = IF loop = "off" THEN "top" ELSE loop
    /\ UNCHANGED <<writes, mirrored, flag, marking, direct, flight, covers,
                   lease, trouble, excused>>

(* revivePersistentRemoteSyncIfPending, on a request for the sync status. *)
Revive ==
    /\ loop = "off" /\ ~queued /\ ~timer /\ flag
    /\ marking' = OneMoreCall
    /\ UNCHANGED <<writes, mirrored, flag, entering, queued, loop, timer,
                   direct, flight, covers, lease, trouble, excused>>

(***************************************************************************)
(* syncRemoteDatabase: whoever comes while a run is under way waits for    *)
(* that one.  A run needs both leases, the local one first.                *)
(***************************************************************************)
JoinFlight == flight' = IF flight = "off" THEN "asking" ELSE flight

LoopStarts ==
    /\ loop = "top" /\ queued
    /\ queued' = FALSE
    /\ loop' = "waiting"
    /\ JoinFlight
    /\ excused' = IF flight = "mirroring" THEN writes ELSE excused
    /\ UNCHANGED <<writes, mirrored, flag, marking, entering, timer, direct,
                   covers, lease, trouble>>

(* An account route brings the databases together before and after it acts. *)
DirectStarts ==
    /\ direct = "off"
    /\ direct' = "waiting"
    /\ JoinFlight
    /\ UNCHANGED <<writes, mirrored, flag, marking, entering, queued, loop,
                   timer, covers, lease, trouble, excused>>

LeasesFree == lease.local = "nobody" /\ lease.remote = "nobody"

AcquireLeases ==
    /\ flight = "asking" /\ LeasesFree
    /\ lease' = [local |-> "us", remote |-> "us"]
    /\ flight' = "mirroring"
    /\ covers' = writes
    /\ UNCHANGED <<writes, mirrored, flag, marking, entering, queued, loop,
                   timer, direct, trouble, excused>>

(* Everyone who waited for the run goes on with its outcome. *)
FlightEnds(outcome) ==
    /\ flight' = "off"
    /\ loop' = IF loop = "waiting" THEN outcome ELSE loop
    /\ direct' = IF direct = "waiting" THEN outcome ELSE direct
    /\ UNCHANGED flag

(* Of the two leases only those that are still ours are given back. *)
GivenBack(holder) == IF holder = "us" THEN "nobody" ELSE holder
Released_KeepsLocal == [lease EXCEPT !.remote = GivenBack(@)]
Released == [db \in {"local", "remote"} |-> GivenBack(lease[db])]

(* syncRemoteBestEffort writes the flag after the run, whatever was queued
   meanwhile, and sets the retry when the leases were taken. *)
LoopMarks ==
    /\ loop \in Outcome
    /\ flag' = (loop # "ok")
    /\ timer' = (timer \/ loop = "locked")
    /\ loop' = IF loop = "ok" THEN "cleared" ELSE "failing"
    /\ UNCHANGED <<writes, mirrored, marking, entering, queued, direct,
                   flight, covers, lease, trouble, excused>>

DirectMarks ==
    /\ direct \in Outcome
    /\ flag' = (direct # "ok")
    /\ timer' = (timer \/ direct = "locked")
    /\ direct' = "off"
    /\ UNCHANGED <<writes, mirrored, marking, entering, queued, loop,
                   flight, covers, lease, trouble, excused>>

(* MirrorLockUnavailable: the local lease is given back. *)
LeaseUnavailable ==
    /\ flight = "asking" /\ ~LeasesFree
    /\ FlightEnds("locked")
    /\ UNCHANGED <<writes, mirrored, marking, entering, queued, timer, covers, lease,
                   trouble, excused>>

MirrorDone ==
    /\ flight = "mirroring"
    /\ FlightEnds("ok")
    /\ mirrored' \in covers..writes
    /\ mirrored' >= mirrored
    /\ lease' = Released
    /\ UNCHANGED <<writes, marking, entering, queued, timer, covers, trouble, excused>>

(* The remote database is away, the two sides diverge, or any other error. *)
MirrorFails ==
    /\ flight = "mirroring" /\ trouble < MaxTrouble
    /\ FlightEnds("bad")
    /\ lease' = Released
    /\ trouble' = trouble + 1
    /\ UNCHANGED <<writes, mirrored, marking, entering, queued, timer, covers, excused>>

(***************************************************************************)
(* The rest of the worker's loop.                                          *)
(***************************************************************************)
(* finally: whatever was queued meanwhile is not left behind. *)
WorkerStops ==
    /\ loop' = "off"
    /\ IF queued THEN marking' = OneMoreCall ELSE marking' = marking
    /\ UNCHANGED queued

LoopAgain ==
    /\ loop = "cleared"
    /\ loop' = IF queued THEN "top" ELSE "unmarking"
    /\ UNCHANGED <<writes, mirrored, flag, marking, entering, queued, timer,
                   direct, flight, covers, lease, trouble, excused>>

Unmark ==
    /\ loop = "unmarking"
    /\ flag' = FALSE
    /\ loop' = "top"
    /\ UNCHANGED <<writes, mirrored, marking, entering, queued, timer, direct,
                   flight, covers, lease, trouble, excused>>

LoopEmpty ==
    /\ loop = "top" /\ ~queued
    /\ WorkerStops
    /\ UNCHANGED <<writes, mirrored, flag, entering, timer, direct, flight,
                   covers, lease, trouble, excused>>

LoopFails ==
    /\ loop = "failing"
    /\ timer' = TRUE
    /\ WorkerStops
    /\ UNCHANGED <<writes, mirrored, flag, entering, direct, flight, covers,
                   lease, trouble, excused>>

RetryTimer ==
    /\ timer
    /\ timer' = FALSE
    /\ marking' = OneMoreCall
    /\ UNCHANGED <<writes, mirrored, flag, entering, queued, loop, direct,
                   flight, covers, lease, trouble, excused>>

(***************************************************************************)
(* The process is killed: what it remembered is gone, its leases stay      *)
(* until they run out.  Another process may mirror to the remote database. *)
(***************************************************************************)
Crash ==
    /\ trouble < MaxTrouble
    /\ trouble' = trouble + 1
    /\ marking' = 0 /\ entering' = 0 /\ queued' = FALSE /\ loop' = "off"
    /\ timer' = FALSE /\ direct' = "off" /\ flight' = "off" /\ covers' = 0
    /\ lease' = [db \in {"local", "remote"} |->
                    IF lease[db] = "us" THEN "dead" ELSE lease[db]]
    /\ excused' = writes
    /\ UNCHANGED <<writes, mirrored, flag>>

LeaseExpires(db) ==
    /\ lease[db] = "dead"
    /\ lease' = [lease EXCEPT ![db] = "nobody"]
    /\ UNCHANGED <<writes, mirrored, flag, memory, trouble, excused>>

(* Also while a run is under way here, when this process was suspended for so
   long that its heartbeat could not keep the lease: the run goes on without it. *)
OtherAcquires ==
    /\ lease.remote \in {"nobody", "us"} /\ trouble < MaxTrouble
    /\ lease' = [lease EXCEPT !.remote = "other"]
    /\ trouble' = trouble + 1
    /\ UNCHANGED <<writes, mirrored, flag, memory, excused>>

OtherReleases ==
    /\ lease.remote = "other"
    /\ lease' = [lease EXCEPT !.remote = "nobody"]
    /\ UNCHANGED <<writes, mirrored, flag, memory, trouble, excused>>

QueueInit ==
    /\ writes = 0 /\ mirrored = 0 /\ flag = FALSE
    /\ marking = 0 /\ entering = 0 /\ queued = FALSE /\ loop = "off"
    /\ timer = FALSE /\ direct = "off" /\ flight = "off" /\ covers = 0
    /\ lease = [local |-> "nobody", remote |-> "nobody"]
    /\ trouble = 0 /\ excused = 0

ProcessStep ==
    \/ MarkPending \/ EnterQueue
    \/ LoopStarts \/ LoopMarks \/ LoopAgain \/ Unmark \/ LoopEmpty \/ LoopFails
    \/ DirectMarks \/ RetryTimer
    \/ AcquireLeases \/ LeaseUnavailable \/ MirrorDone \/ MirrorFails

QueueNext ==
    \/ LocalWrite \/ Pull \/ Revive \/ DirectStarts
    \/ ProcessStep
    \/ Crash
    \/ \E db \in {"local", "remote"} : LeaseExpires(db)
    \/ OtherAcquires \/ OtherReleases

(***************************************************************************)
(* Fairness: the event loop goes on, time passes for the leases of a dead  *)
(* process, the other process ends its runs, and clients that are open     *)
(* pull every minute (page-controller.svelte.ts).                          *)
(***************************************************************************)
QueueSpec ==
    /\ QueueInit /\ [][QueueNext]_queueVars
    /\ WF_queueVars(MarkPending) /\ WF_queueVars(EnterQueue)
    /\ WF_queueVars(LoopStarts) /\ WF_queueVars(LoopMarks)
    /\ WF_queueVars(LoopAgain) /\ WF_queueVars(Unmark)
    /\ WF_queueVars(DirectMarks)
    /\ WF_queueVars(LoopEmpty) /\ WF_queueVars(LoopFails)
    /\ WF_queueVars(RetryTimer)
    /\ WF_queueVars(AcquireLeases \/ LeaseUnavailable)
    /\ WF_queueVars(MirrorDone \/ MirrorFails)
    /\ \A db \in {"local", "remote"} : WF_queueVars(LeaseExpires(db))
    /\ WF_queueVars(OtherReleases)
    /\ WF_queueVars(Pull)

(***************************************************************************)
(* Properties.                                                             *)
(***************************************************************************)
QueueTypeOK ==
    /\ writes \in 0..MaxWrites /\ mirrored \in 0..writes
    /\ flag \in BOOLEAN /\ queued \in BOOLEAN /\ timer \in BOOLEAN
    /\ marking \in 0..MaxCalls /\ entering \in 0..MaxCalls
    /\ loop \in LoopPlace /\ direct \in DirectPlace
    /\ flight \in {"off", "asking", "mirroring"}
    /\ covers \in 0..writes
    /\ lease \in [{"local", "remote"} -> Holder]
    /\ trouble \in 0..MaxTrouble
    /\ excused \in 0..writes

(* Something in memory will start a run that carries every write: a call on its
   way, a worker that will look at the queue again, a timer, or a run that
   started after the last write. *)
Scheduled ==
    \/ Calls > 0 \/ timer \/ loop \in {"failing", "bad", "locked"}
    \/ queued /\ loop # "off"
    \/ loop = "waiting" /\ (flight = "asking" \/ covers = writes)

(* No lost wakeup: a local write that the remote database does not have is
   scheduled, in whatever order writes, timers, failures and the worker's steps
   come.  Only two things make the queue forget writes: the process dies, or the
   worker takes the outcome of a run an account route began earlier for its
   own (syncInFlight).  Later writes are never affected. *)
NoLostWakeup == (mirrored < writes /\ excused < writes) => Scheduled

(* In the end the remote database has every local write, whatever crashed,
   failed or was forgotten before, because open clients keep pulling. *)
EventuallyMirrored == <>[](mirrored = writes)
=============================================================================
