------------------------------- MODULE Mirror -------------------------------
(***************************************************************************)
(* One mirror run (syncDatabases of remote-sync.ts): the notes and         *)
(* notebooks of an owner are copied remote to local, local to remote and   *)
(* remote to local again, page by page, from one change log to the other   *)
(* store, while clients of either database go on writing.  A run may end   *)
(* anywhere: the process dies, a database is away, or the sides diverge.   *)
(*                                                                         *)
(* A record is the set of the edits it incorporates, as in NoteSync.  Who  *)
(* runs when is MirrorQueue; the queries of a pull are ChangeFeed.         *)
(***************************************************************************)
EXTENDS Naturals, FiniteSets

CONSTANTS
    Entity,      \* ids of notes and notebooks
    None,        \* neither row nor tombstone
    MaxEdits,    \* bound on the edits of clients
    PageLimit,   \* log entries in a page of a pull
    MaxAborts,   \* bound on the runs that are cut off
    Loose        \* windows the program leaves open that clients may hit

(* The windows: a record is written on the other side after a run decided to
   delete it there, or has read it as deleted, and before it deletes it
   ("delete"), or after a page of a pass
   carried it over and before the pass ends ("page"). *)
ASSUME MirrorBounds ==
    /\ IsFiniteSet(Entity)
    /\ MaxEdits \in Nat /\ MaxAborts \in Nat /\ PageLimit \in Nat \ {0}
    /\ Loose \subseteq {"delete", "page"}

Side == {"local", "remote"}
Other(s) == IF s = "local" THEN "remote" ELSE "local"

VARIABLES
    clock,    \* edits made so far; edit n has the time 2n
    store,    \* the row or the tombstone of each entity, on each side
    log,      \* entity_changes of each side
    rev,      \* its revision counter
    cur,      \* the cursor kept on each side for what it pulls from the other
    run,      \* the run under way
    aborts    \* runs cut off so far

mirrorVars == <<clock, store, log, rev, cur, run, aborts>>

Edit    == 1..MaxEdits
Record  == [kind : {"active", "deleted", "tombstone"}, edits : SUBSET Edit,
            version : Nat, time : Nat]
ASSUME NoneAssumption == None \notin Record

Place   == {"idle", "pull", "plan", "deleteSource", "deleteTarget", "push",
            "save", "done"}

Nothing == [e \in {} |-> None]
NothingPlanned == [copy |-> Nothing, deleteSource |-> Nothing,
                   deleteTarget |-> Nothing, next |-> 0, more |-> FALSE]
NothingPulled  == [records |-> Nothing, deletes |-> {}]

IsRow(r)       == r # None /\ r.kind # "tombstone"
IsTombstone(r) == r # None /\ r.kind = "tombstone"

Entry(n, e, op) == [rev |-> n, entity |-> e, op |-> op]
EntriesOf(s, e) == {c \in log[s] : c.entity = e}
Newest(c, entries) == \A d \in entries : d.entity = c.entity => d.rev <= c.rev

(* latestEntityRevision *)
LatestRevision(s, e) ==
    IF EntriesOf(s, e) = {} THEN 0
    ELSE (CHOOSE c \in EntriesOf(s, e) : Newest(c, log[s])).rev

(***************************************************************************)
(* The two databases: clients push to them, retention turns a deleted row  *)
(* into a tombstone, and the log is compacted.                             *)
(***************************************************************************)
Numbered(s, es) ==
    {f \in [es -> (rev[s] + 1)..(rev[s] + Cardinality(es))] :
        \A a, b \in es : f[a] = f[b] => a = b}

(* Rows and tombstones of one side change, and are logged. *)
Put(s, new, op) ==
    /\ store' = [store EXCEPT ![s] = [e \in Entity |->
                    IF e \in DOMAIN new THEN new[e] ELSE @[e]]]
    /\ \E f \in Numbered(s, DOMAIN new) :
          log' = [log EXCEPT ![s] = @ \union
                     {Entry(f[e], e, op) : e \in DOMAIN new}]
    /\ rev' = [rev EXCEPT ![s] = @ + Cardinality(DOMAIN new)]

Target == IF run.pass = 2 THEN "remote" ELSE "local"
Source == Other(Target)

(* Whether a client's write now would fall into a window. *)
InWindow(s, e) ==
    /\ run.at # "idle"
    /\ \/ /\ "delete" \notin Loose
          /\ \/ s = Target /\ e \in DOMAIN run.plan.deleteTarget
             \/ s = Source /\ e \in DOMAIN run.plan.deleteSource
             \/ /\ s = Source /\ e \in DOMAIN run.pulled.records
                /\ run.pulled.records[e].kind = "deleted"
       \/ "page" \notin Loose /\ s = Target /\ e \in run.touched

Edited(r, kind) ==
    [kind |-> kind, version |-> IF r = None THEN 1 ELSE r.version + 1,
     edits |-> (IF r = None THEN {} ELSE r.edits) \union {clock + 1},
     time |-> 2 * (clock + 1)]

(* An accepted push of a client: it names the version it replaces.  Ids are
   unique: a record is created on one side. *)
Write(s, e, kind) ==
    /\ clock < MaxEdits /\ ~InWindow(s, e)
    /\ store[s][e] = None => store[Other(s)][e] = None
    /\ kind = "deleted" => IsRow(store[s][e]) /\ store[s][e].kind = "active"
    /\ clock' = clock + 1
    /\ Put(s, [x \in {e} |-> Edited(store[s][e], kind)], "upsert")
    /\ run' = [run EXCEPT !.quiet = FALSE]
    /\ UNCHANGED <<cur, aborts>>

Buried(r) == [kind |-> "tombstone", edits |-> r.edits,
              version |-> r.version + 1, time |-> 2 * clock + 1]

(* cleanupTrash, ninety days after the deletion. *)
CleanupTrash(s, e) ==
    /\ IsRow(store[s][e]) /\ store[s][e].kind = "deleted"
    /\ Put(s, [x \in {e} |-> Buried(store[s][e])], "delete")
    /\ run' = [run EXCEPT !.quiet = FALSE]
    /\ UNCHANGED <<clock, cur, aborts>>

CompactEntityChanges(s) ==
    /\ log' = [log EXCEPT ![s] = {c \in @ : Newest(c, @)}]
    /\ UNCHANGED <<clock, store, rev, cur, run, aborts>>

(***************************************************************************)
(* A run.                                                                  *)
(***************************************************************************)
Idle == [at |-> "idle", pass |-> 0, outbound |-> 0, cursor |-> 0,
         touched |-> {}, pulled |-> NothingPulled, plan |-> NothingPlanned,
         quiet |-> TRUE]

(* syncEntityOwnerOneWay: the target's cursor says where to go on, the source's
   cursor up to where the target's own changes have been carried over. *)
Pass(n, cursors, quiet) ==
    LET target == IF n = 2 THEN "remote" ELSE "local" IN
    [Idle EXCEPT !.at = "pull", !.pass = n, !.quiet = quiet,
                 !.outbound = cursors[Other(target)], !.cursor = cursors[target]]

StartRun ==
    /\ run.at = "idle"
    /\ run' = Pass(1, cur, TRUE)
    /\ UNCHANGED <<clock, store, log, rev, cur, aborts>>

Waiting == {c \in log[Source] : c.rev > run.cursor}

InPage(last) == {c \in Waiting : c.rev <= last}

NewestIn(page, op) ==
    {e \in Entity : \E c \in page : c.entity = e /\ c.op = op /\ Newest(c, page)}

(* pullMirrorChangesSinceRevision *)
NextCursor_Current(last) == rev[Source]
NextCursor(last) == last

Pulled_WithoutDeletes(page) ==
    [records |-> [e \in {x \in NewestIn(page, "upsert") : IsRow(store[Source][x])}
                     |-> store[Source][e]],
     deletes |-> {}]
Pulled(page) ==
    [records |-> [e \in {x \in NewestIn(page, "upsert") : IsRow(store[Source][x])}
                     |-> store[Source][e]],
     deletes |-> NewestIn(page, "delete")]

PullPage ==
    /\ run.at = "pull"
    /\ IF Waiting = {}
       THEN run' = [run EXCEPT !.at = "save", !.pulled = NothingPulled,
                               !.plan = [NothingPlanned EXCEPT !.next = rev[Source]]]
       ELSE \E last \in {c.rev : c \in Waiting} :
              LET page == InPage(last) IN
              /\ Cardinality(page) <= PageLimit
              /\ run' = [run EXCEPT
                    !.at = "plan", !.pulled = Pulled(page),
                    !.plan = [NothingPlanned EXCEPT !.next = NextCursor(last),
                                                    !.more = page # Waiting]]
    /\ UNCHANGED <<clock, store, log, rev, cur, aborts>>

Differ(a, b) == a.edits # b.edits \/ a.kind # b.kind

(* newerOrTieBreakingStamp, the same device on both sides. *)
NewerOrTie(a, b) == IF a.time # b.time THEN a.time > b.time
                    ELSE a.version >= b.version

NoUnmirroredChange_Unchecked(e) == TRUE
NoUnmirroredChange(e) ==
    e \in run.touched \/ LatestRevision(Target, e) <= run.outbound

Overwrites(r, t) == NewerOrTie(r, t) /\ r.version > t.version

(* noteChanges and notebookChanges, for one record r of the page against what
   the target has.  The copy carries the version it replaces. *)
Verdict(e, r) ==
    LET t == store[Target][e] IN
    IF IsRow(t)
    THEN CASE ~Differ(r, t) -> IF r.version > t.version THEN "copy" ELSE "same"
           [] Differ(r, t) /\ Overwrites(r, t) /\ NoUnmirroredChange(e) -> "copy"
           [] OTHER -> IF r.kind = "deleted" /\ t.kind = "deleted"
                       THEN "deleteSource" ELSE "diverged"
    ELSE IF t = None \/ (NewerOrTie(r, t) /\ NoUnmirroredChange(e)) THEN "copy"
         ELSE IF r.kind = "deleted" THEN "deleteSource" ELSE "diverged"

(* noteDeleteChanges and notebookDeleteChanges. *)
DeleteVerdict(e) ==
    LET s == store[Source][e]
        t == store[Target][e]
    IN IF IsRow(s) THEN "same"
       ELSE IF ~IsRow(t) \/ t.kind = "deleted" THEN "delete"
       ELSE IF IsTombstone(s) /\ Overwrites(s, t) /\ NoUnmirroredChange(e)
            THEN "delete" ELSE "diverged"

Records == DOMAIN run.pulled.records
VerdictOf(e) == Verdict(e, run.pulled.records[e])

Diverged ==
    {e \in Records : VerdictOf(e) = "diverged"}
        \union {e \in run.pulled.deletes : DeleteVerdict(e) = "diverged"}

(* A step with nothing to do awaits nothing. *)
Ahead(r) ==
    IF DOMAIN r.plan.deleteSource # {} THEN [r EXCEPT !.at = "deleteSource"]
    ELSE IF DOMAIN r.plan.deleteTarget # {} /\ r.at = "deleteSource"
    THEN [r EXCEPT !.at = "deleteTarget"]
    ELSE [r EXCEPT !.at = "push"]

Base(e) == IF store[Target][e] = None THEN 0 ELSE store[Target][e].version

PlanPage ==
    /\ run.at = "plan" /\ Diverged = {}
    /\ run' = Ahead([run EXCEPT
          !.at = "deleteSource", !.pulled = NothingPulled,
          !.plan.copy = [e \in {x \in Records : VerdictOf(x) = "copy"} |->
                            [record |-> run.pulled.records[e], base |-> Base(e)]],
          !.plan.deleteSource =
              [e \in {x \in Records : VerdictOf(x) = "deleteSource"}
                  |-> store[Target][e].edits],
          !.plan.deleteTarget =
              [e \in {x \in run.pulled.deletes : DeleteVerdict(x) = "delete"}
                  |-> IF store[Source][e] = None THEN {} ELSE store[Source][e].edits]])
    /\ UNCHANGED <<clock, store, log, rev, cur, aborts>>

(* MirrorDivergenceError: the run stops and nobody's change is chosen. *)
Halt ==
    /\ run.at = "plan" /\ Diverged # {}
    /\ run' = Idle
    /\ UNCHANGED <<clock, store, log, rev, cur, aborts>>

(* deleteNotesByIds and deleteNotebooksByIds: whatever row is there goes; a
   tombstone that is there stays.  "seen" is what the other side's deletion
   incorporated when the page was planned. *)
Deleted(r, seen) ==
    IF IsRow(r) THEN [Buried(r) EXCEPT !.edits = seen]
    ELSE IF r = None
    THEN [kind |-> "tombstone", edits |-> seen, version |-> 1,
          time |-> 2 * clock + 1]
    ELSE r

LastIsDelete(s, e) ==
    \E c \in EntriesOf(s, e) : Newest(c, log[s]) /\ c.op = "delete"

DeleteByIds(s, seen) ==
    LET logged == {e \in DOMAIN seen : ~LastIsDelete(s, e)} IN
    /\ store' = [store EXCEPT ![s] = [e \in Entity |->
                    IF e \in DOMAIN seen THEN Deleted(@[e], seen[e]) ELSE @[e]]]
    /\ \E f \in Numbered(s, logged) :
          log' = [log EXCEPT ![s] = @ \union
                     {Entry(f[e], e, "delete") : e \in logged}]
    /\ rev' = [rev EXCEPT ![s] = @ + Cardinality(logged)]

DeleteSource ==
    /\ run.at = "deleteSource"
    /\ DeleteByIds(Source, run.plan.deleteSource)
    /\ run' = Ahead([run EXCEPT !.plan.deleteSource = Nothing])
    /\ UNCHANGED <<clock, cur, aborts>>

DeleteTarget ==
    /\ run.at = "deleteTarget"
    /\ DeleteByIds(Target, run.plan.deleteTarget)
    /\ run' = [run EXCEPT !.at = "push"]
    /\ UNCHANGED <<clock, cur, aborts>>

(* pushChanges with allowTombstoneOverwrite and preserveRecordVersions: versions
   are kept, except over a tombstone.  A refused change fails the run after the
   others were written. *)
Refused(e, change) ==
    LET t == store[Target][e] IN
    \/ IsRow(t) /\ Differ(change.record, t) /\ change.base # t.version
    \/ /\ IsTombstone(t) /\ change.base # t.version
       /\ ~NewerOrTie(change.record, t)

Accepted(e, r) ==
    LET t == store[Target][e] IN
    IF IsTombstone(t) THEN [r EXCEPT !.version = t.version + 1] ELSE r

Touched == run.touched \union DOMAIN run.plan.copy
                                \union DOMAIN run.plan.deleteTarget

Push ==
    LET copy    == run.plan.copy
        written == {e \in DOMAIN copy : ~Refused(e, copy[e])
                       /\ Accepted(e, copy[e].record) # store[Target][e]}
        refused == {e \in DOMAIN copy : Refused(e, copy[e])}
    IN /\ run.at = "push"
       /\ Put(Target, [e \in written |-> Accepted(e, copy[e].record)], "upsert")
       /\ run' = IF refused = {} THEN [run EXCEPT !.at = "save", !.touched = Touched]
                  ELSE Idle
       /\ UNCHANGED <<clock, cur, aborts>>

(* The cursor moves when the page is in; then the next page or the next pass. *)
SaveCursor ==
    /\ run.at = "save"
    /\ cur' = [cur EXCEPT ![Target] = run.plan.next]
    /\ run' = IF run.plan.more
              THEN [run EXCEPT !.at = "pull", !.cursor = run.plan.next,
                               !.plan = NothingPlanned]
              ELSE IF run.pass < 3 THEN Pass(run.pass + 1, cur', run.quiet)
              ELSE [Idle EXCEPT !.at = "done", !.quiet = run.quiet]
    /\ UNCHANGED <<clock, store, log, rev, aborts>>

RunEnds ==
    /\ run.at = "done"
    /\ run' = Idle
    /\ UNCHANGED <<clock, store, log, rev, cur, aborts>>

(* A database is away or the process dies: the next run starts over. *)
Abort ==
    /\ run.at # "idle" /\ aborts < MaxAborts
    /\ run' = Idle
    /\ aborts' = aborts + 1
    /\ UNCHANGED <<clock, store, log, rev, cur>>

MirrorInit ==
    /\ clock = 0 /\ aborts = 0
    /\ store = [s \in Side |-> [e \in Entity |-> None]]
    /\ log = [s \in Side |-> {}]
    /\ rev = [s \in Side |-> 0]
    /\ cur = [s \in Side |-> 0]
    /\ run = Idle

RunStep ==
    \/ PullPage \/ PlanPage \/ Halt \/ DeleteSource \/ DeleteTarget \/ Push
    \/ SaveCursor \/ RunEnds

MirrorNext ==
    \/ \E s \in Side, e \in Entity :
          \/ \E kind \in {"active", "deleted"} : Write(s, e, kind)
          \/ CleanupTrash(s, e)
    \/ \E s \in Side : CompactEntityChanges(s)
    \/ StartRun \/ RunStep \/ Abort

MirrorSpec == MirrorInit /\ [][MirrorNext]_mirrorVars

(***************************************************************************)
(* Properties.                                                             *)
(***************************************************************************)
MirrorTypeOK ==
    /\ clock \in 0..MaxEdits /\ aborts \in 0..MaxAborts
    /\ store \in [Side -> [Entity -> Record \union {None}]]
    /\ \A s \in Side : \A c \in log[s] : c.rev \in 1..rev[s]
    /\ rev \in [Side -> Nat]
    /\ \A s \in Side : cur[s] \in 0..rev[Other(s)]
    /\ run.at \in Place /\ run.pass \in 0..3 /\ run.quiet \in BOOLEAN
    /\ run.touched \subseteq Entity

Held(s, e) == IF store[s][e] = None THEN {} ELSE store[s][e].edits
Active(s, e) == IsRow(store[s][e]) /\ store[s][e].kind = "active"

(* The mirror never chooses a winner: whatever a run writes over an active
   record of a side, or deletes it for, incorporates every edit that side has
   of it, however client writes, retention, pages and runs that were cut off
   fall between its steps (docs/operations.md: it stops instead of choosing). *)
HoldsOn ==
    \A s \in Side, e \in Entity :
        Active(s, e) => Held(s, e) \subseteq Held(s, e)'

NothingOverwritten == [][HoldsOn]_mirrorVars

(* The same as a refinement: the two databases are replicas on which every step
   is an edit, takes over edits on top of what the side holds, gives up what
   both sides deleted, or is not seen. *)
Abstract == INSTANCE Replicas WITH
    Replica <- Side, Edits <- Edit,
    held <- [s \in Side |-> [e \in Entity |-> Held(s, e)]],
    live <- [s \in Side |-> {e \in Entity : Active(s, e)}]

MergesOnly == Abstract!ReplicaSpec

(* A cursor is never ahead of what was carried over: an active record of one
   side that was last logged up to the other side's cursor is held there, also
   when a run was cut off between writing a page and saving the cursor. *)
CursorHonest ==
    \A s \in Side, e \in Entity :
        LET o == Other(s) IN
        (LatestRevision(o, e) <= cur[s] /\ Active(o, e))
            => Held(o, e) \subseteq Held(s, e)

(* A run that completes while no client writes leaves both sides with the same
   active records, whatever cut-off runs, pages and compactions came before.
   (A deleted row may face a tombstone of the other side until the next run: a
   record put over a tombstone starts its versions anew, and of two deleted
   rows that differ only the older version is removed.) *)
Agree(e) ==
    Active("local", e) \/ Active("remote", e) =>
        /\ Active("local", e) /\ Active("remote", e)
        /\ ~Differ(store["local"][e], store["remote"][e])

AgreeAfterRun ==
    (run.at = "done" /\ run.quiet) => \A e \in Entity : Agree(e)
=============================================================================
