---------------------------- MODULE NotebookSync ----------------------------
(***************************************************************************)
(* Notebooks: names that are unique across devices, notes that refer to    *)
(* notebooks, and the repair of the references when a notebook goes.       *)
(* Server: the notebook half of pushChanges and the normalisation of note  *)
(* references.  Clients: entity-store-notebooks.ts, the notebook half of   *)
(* the sync (sync.ts, sync-store.ts) and of conflict resolution.           *)
(*                                                                         *)
(* A record's content is a set: of a notebook, its name and, once it is    *)
(* deleted, the time of that (recordsDiffer compares deletedAt, so that    *)
(* the deletions of two devices differ); of a note, the notebooks it is in.*)
(* A push with its answer is one step, a pull with its merge another, the  *)
(* repair of references with the saving of the cursor a third: what comes  *)
(* between the finer steps is in NoteSync, and the paging of a pull in     *)
(* ChangeFeed.                                                             *)
(***************************************************************************)
EXTENDS SyncSpec, Integers, SequencesExt

CONSTANTS
    Device,
    Notebook,   \* notebook ids
    Note,       \* note ids; the notes are there from the start
    Name,       \* notebook names: 1..k, "n copy" being n + 1
    None,
    MaxOps,     \* bound on what users do
    MaxPurges,  \* bound on the retention cleanups
    MaxLost,    \* bound on lost answers and syncs that are cut off
    Loose       \* windows left open: "late" (see resolveConflict)

ASSUME NotebookBounds ==
    /\ IsFiniteSet(Notebook) /\ Notebook \intersect Note = {}
    /\ None \notin Device /\ Name \subseteq Nat \ {0}
    /\ MaxOps \in Nat /\ MaxPurges \in Nat /\ MaxLost \in Nat
    /\ Loose \subseteq {"late"}

VARIABLES
    shelf,      \* server: row or tombstone of each notebook, or None
    filed,      \* server: row of each note
    stamp,      \* server: revision of the last log entry of each record
    lastRev,    \* server: the revision counter
    books,      \* notebooks table of each device
    notes,      \* notes table of each device
    conflicts,  \* pending rows of its conflicts table
    cursor,     \* its lastPulledRevision
    stage,      \* how far its sync has come
    arrived,    \* the notebooks a pull brought the end of, and its revision
    ops, purges, lost

server == <<shelf, filed, stamp, lastRev>>
bounds == <<ops, purges, lost>>
notebookVars == <<server, books, notes, conflicts, cursor, stage, arrived, bounds>>

Named    == {{name} : name \in Name}
Deleted  == {{name, -k} : name \in Name, k \in 1..MaxOps}  \* by the k-th operation
Row      == [content : Named \union Deleted, life : {"active", "deleted", "purged"},
             version : Nat \ {0}, device : Device]
NoteRow  == [content : SUBSET Notebook, life : {"active"},
             version : Nat \ {0}, device : Device \union {None}]
Status   == {"pending", "synced", "conflict"}
Local(content) == [content : content, life : {"active", "deleted"},
                   version : Nat, base : Nat, status : Status]
ASSUME NoneAssumption ==
    None \notin Row \union Local(Named \union Deleted) \union Local(SUBSET Notebook)

NothingArrived == [purged |-> {}, deleted |-> {}, next |-> 0]

OnShelf(b) == shelf[b] # None /\ shelf[b].life = "active"
HasRow(b)  == shelf[b] # None /\ shelf[b].life # "purged"
Shown(d, b) == books[d][b] # None /\ books[d][b].life = "active"

SafePendingVersion(r) ==
    IF r.version > r.base THEN r.version ELSE NextVersionAfter(r.base)
Edited(r, content, life) ==
    [r EXCEPT !.content = content, !.life = life,
              !.version = NextVersionAfter(@), !.status = "pending"]
Created(content) == [content |-> content, life |-> "active", version |-> 1,
                     base |-> 0, status |-> "pending"]
Synced(row) == [content |-> row.content, life |-> row.life,
                version |-> row.version, base |-> row.version,
                status |-> "synced"]

(***************************************************************************)
(* The user.  A conflict is shown as a modal dialog.                       *)
(***************************************************************************)
UserActs(d) ==
    /\ ops < MaxOps /\ conflicts[d] = {}
    /\ ops' = ops + 1
    /\ UNCHANGED <<server, conflicts, cursor, stage, arrived, purges, lost>>

NotebookNameExists(d, name, except) ==
    \E b \in Notebook \ {except} : Shown(d, b) /\ books[d][b].content = {name}

Fresh(b) == shelf[b] = None /\ \A d \in Device : books[d][b] = None

CreateNotebook(d, b, name) ==
    /\ UserActs(d) /\ Fresh(b) /\ ~NotebookNameExists(d, name, None)
    /\ books' = [books EXCEPT ![d][b] = Created({name})]
    /\ UNCHANGED notes

RenameNotebook(d, b, name) ==
    /\ UserActs(d) /\ Shown(d, b) /\ ~NotebookNameExists(d, name, b)
    /\ books[d][b].content # {name}
    /\ books' = [books EXCEPT ![d][b] = Edited(@, {name}, "active")]
    /\ UNCHANGED notes

(* A notebook the server never had is gone at once; its notes leave it in the
   same transaction. *)
DeleteNotebook(d, b) ==
    /\ UserActs(d) /\ Shown(d, b)
    /\ books' = [books EXCEPT ![d][b] =
                    IF @.base = 0 THEN None
                    ELSE Edited(@, @.content \union {-(ops + 1)}, "deleted")]
    /\ notes' = [notes EXCEPT ![d] = [n \in Note |->
                    IF b \in @[n].content
                    THEN Edited(@[n], @[n].content \ {b}, "active") ELSE @[n]]]

AssignNoteToNotebook(d, n, b) ==
    /\ UserActs(d) /\ Shown(d, b)
    /\ notes' = [notes EXCEPT ![d][n] =
                    Edited(@, IF b \in @.content THEN @.content \ {b}
                              ELSE @.content \union {b}, "active")]
    /\ UNCHANGED books

(***************************************************************************)
(* The server: pushChanges.  The notebooks of a request are decided one    *)
(* after the other; "seen" is what was read before the first.              *)
(***************************************************************************)
Undecided == [rows |-> shelf, active |-> {}, deleted |-> {}, wrote |-> {},
              refused |-> {}]

Conflict(e, reason, theirs, other) ==
    [of |-> e, reason |-> reason, theirs |-> theirs, other |-> other]

StaleChange(b, ch) ==
    IF shelf[b] = None THEN {}
    ELSE IF shelf[b].life = "purged"
    THEN IF ch.base # shelf[b].version
         THEN {Conflict(b, "deleted_remotely",
                        [shelf[b] EXCEPT !.content = ch.content, !.life = "deleted"], b)}
         ELSE {}
    ELSE IF ShouldConflict(ch, shelf[b], ch.base)
    THEN {Conflict(b, IF shelf[b].life = "deleted" THEN "deleted_remotely"
                                                   ELSE "remote_changed", shelf[b], b)}
    ELSE {}

SameName(b, ch, rows, among) ==
    {c \in among \ {b} : rows[c].content = ch.content}

DuplicateOf_InRequestOnly(acc, b, ch) ==
    IF ch.life = "deleted" THEN {}
    ELSE {Conflict(b, "duplicate_name", acc.rows[c], c) :
             c \in SameName(b, ch, acc.rows, acc.active)}

(* firstAcceptedNotebookDuplicate, else firstNotebookDuplicate among the rows
   stored before, unless this request deletes that one. *)
DuplicateOf(acc, b, ch) ==
    LET inRequest == SameName(b, ch, acc.rows, acc.active)
        stored == SameName(b, ch, shelf, {c \in Notebook : OnShelf(c)})
    IN IF ch.life = "deleted" THEN {}
       ELSE IF inRequest # {}
       THEN {Conflict(b, "duplicate_name", acc.rows[c], c) : c \in inRequest}
       ELSE {Conflict(b, "duplicate_name", shelf[c], c) : c \in stored \ acc.deleted}

AcceptedRow(d, b, ch) ==
    IF HasRow(b) /\ ~RecordsDiffer(ch, shelf[b]) THEN shelf[b]
    ELSE [content |-> ch.content, life |-> ch.life, device |-> d,
          version |-> IF shelf[b] = None THEN 1 ELSE NextVersionAfter(shelf[b].version)]

Decide(d, acc, b) ==
    LET ch      == books[d][b]
        stale   == StaleChange(b, ch)
        refusal == IF stale # {} THEN stale ELSE DuplicateOf(acc, b, ch)
        row     == AcceptedRow(d, b, ch)
    IN IF refusal # {}
       THEN [acc EXCEPT !.refused = @ \union {CHOOSE c \in refusal : TRUE}]
       ELSE [acc EXCEPT
                !.rows[b] = row,
                !.active = IF row.life = "active" THEN @ \union {b} ELSE @,
                !.deleted = IF row.life = "deleted" THEN @ \union {b} ELSE @,
                !.wrote = IF row = shelf[b] THEN @ ELSE @ \union {b}]

(* What has become of the request after its last notebook. *)
Decided(d, order) ==
    LET decided[k \in 0..Len(order)] ==
            IF k = 0 THEN Undecided ELSE Decide(d, decided[k - 1], order[k])
    IN decided[Len(order)]

PendingBooks(d) ==
    {b \in Notebook : books[d][b] # None /\ books[d][b].status = "pending"}
LocalOnlyDeleted(d) ==
    {b \in PendingBooks(d) : books[d][b].base = 0 /\ books[d][b].life = "deleted"}

(* noteWithSyncableNotebookRefs: references to notebooks that are not active
   after this request are dropped, and the note is written without them. *)
SyncableRefs(refs, rows) ==
    {b \in refs : rows[b] # None /\ rows[b].life = "active"}

PendingNotes(d) == {n \in Note : notes[d][n].status = "pending"}
Offered(d, n, rows) ==
    [notes[d][n] EXCEPT !.content = SyncableRefs(@, rows)]
NoteRefused(d, n, rows) == ShouldConflict(Offered(d, n, rows), filed[n], notes[d][n].base)

FiledRow(d, n, rows) ==
    LET offered == Offered(d, n, rows) IN
    IF offered = notes[d][n] /\ ~RecordsDiffer(offered, filed[n]) THEN filed[n]
    ELSE [content |-> offered.content, life |-> "active", device |-> d,
          version |-> NextVersionAfter(filed[n].version)]

(***************************************************************************)
(* The client's push and what it does with the answer: markAcceptedChanges,*)
(* absorbSameDevicePushConflict, saveConflict.                             *)
(***************************************************************************)
Marked(r, row) == [r EXCEPT !.version = row.version, !.base = row.version,
                            !.status = "synced"]
Absorbed(r, version) ==
    [r EXCEPT !.base = IF version > @ THEN version ELSE @]
OwnEcho(d, c) == c.reason = "remote_changed" /\ c.theirs.device = d

Answered(d, r, row, answer) ==
    IF answer = {} THEN Marked(r, row)
    ELSE LET c == CHOOSE c \in answer : TRUE IN
         IF OwnEcho(d, c) THEN Absorbed(r, c.theirs.version)
         ELSE [r EXCEPT !.status = "conflict"]

(* The conflict as it is stored, with the local side at that time; "members"
   is not stored: the notes that are in the notebook then. *)
Stored(d, c) ==
    [of |-> c.of, reason |-> c.reason, theirs |-> c.theirs, other |-> c.other,
     mine |-> IF c.of \in Notebook THEN books[d][c.of] ELSE notes[d][c.of],
     members |-> {n \in Note : c.of \in notes[d][n].content}]

Push(d, heard) ==
    LET sent == PendingBooks(d) \ LocalOnlyDeleted(d) IN
    /\ stage[d] = "idle"
    /\ \E order \in SetToSeqs(sent) :
         LET done    == Decided(d, order)
             new     == [n \in Note |->
                            IF n \notin PendingNotes(d) \/ NoteRefused(d, n, done.rows)
                            THEN filed[n] ELSE FiledRow(d, n, done.rows)]
             stale   == {Conflict(n, "remote_changed", filed[n], n) :
                            n \in {x \in PendingNotes(d) : NoteRefused(d, x, done.rows)}}
             wrote   == done.wrote \union {n \in Note : new[n] # filed[n]}
             answers == done.refused \union stale
             of(e)   == {c \in answers : c.of = e}
         IN /\ shelf' = done.rows
            /\ filed' = new
            /\ lastRev' = IF wrote = {} THEN lastRev ELSE lastRev + 1
            /\ stamp' = [e \in Notebook \union Note |->
                            IF e \in wrote THEN lastRev' ELSE stamp[e]]
            /\ books' = [books EXCEPT ![d] = [b \in Notebook |->
                            IF b \in LocalOnlyDeleted(d) THEN None
                            ELSE IF heard /\ b \in sent
                            THEN Answered(d, @[b], done.rows[b], of(b)) ELSE @[b]]]
            /\ notes' = [notes EXCEPT ![d] = [n \in Note |->
                            IF heard /\ n \in PendingNotes(d)
                            THEN Answered(d, @[n], new[n], of(n)) ELSE @[n]]]
            /\ conflicts' = IF ~heard THEN conflicts
                            ELSE [conflicts EXCEPT ![d] = @ \union
                                    {Stored(d, c) : c \in {x \in answers : ~OwnEcho(d, x)}}]
            /\ stage' = IF heard THEN [stage EXCEPT ![d] = "pushed"] ELSE stage
            /\ IF heard THEN UNCHANGED lost ELSE lost < MaxLost /\ lost' = lost + 1
            /\ UNCHANGED <<cursor, arrived, ops, purges>>

(***************************************************************************)
(* The pull: applyRemoteDeletes, then mergeRemoteChanges, notebooks first. *)
(***************************************************************************)
New(d) == {e \in Notebook \union Note : stamp[e] > cursor[d]}

(* mergeRemoteNotebook and mergeRemoteNote of the row r into the record l. *)
Diverged(l, r) == l.status = "pending" /\ l.base # r.version /\ RecordsDiffer(l, r)

Merged(d, l, r) ==
    IF l = None THEN Synced(r)
    ELSE IF Diverged(l, r)
    THEN IF r.device = d THEN Absorbed(l, r.version) ELSE [l EXCEPT !.status = "conflict"]
    ELSE IF l.status = "synced" THEN Synced(r) ELSE l

MergeConflicts(d, table, rows, es) ==
    {Stored(d, Conflict(e, "remote_changed", rows[e], e)) :
        e \in {x \in es : /\ table[x] # None /\ Diverged(table[x], rows[x])
                          /\ rows[x].device # d}}

NextCursor == lastRev

Pull(d) ==
    LET purged == {b \in New(d) \intersect Notebook : ~HasRow(b)}
        rows   == (New(d) \intersect Notebook) \ purged
        after  == [b \in Notebook |->
                      IF b \in rows THEN Merged(d, books[d][b], shelf[b])
                      ELSE IF /\ b \in purged /\ books[d][b] # None
                              /\ books[d][b].status = "synced"
                      THEN None ELSE books[d][b]]
    IN /\ stage[d] = "pushed"
       /\ books' = [books EXCEPT ![d] = after]
       /\ notes' = [notes EXCEPT ![d] = [n \in Note |->
                       IF n \in New(d) THEN Merged(d, @[n], filed[n]) ELSE @[n]]]
       /\ conflicts' = [conflicts EXCEPT ![d] = @
                \union MergeConflicts(d, books[d], shelf, rows)
                \union MergeConflicts(d, notes[d], filed, New(d) \intersect Note)]
       /\ arrived' = [arrived EXCEPT ![d] =
                         [purged |-> {b \in purged : after[b] = None},
                          deleted |-> {b \in rows : shelf[b].life = "deleted"},
                          next |-> NextCursor]]
       /\ stage' = [stage EXCEPT ![d] = "merged"]
       /\ UNCHANGED <<server, cursor, bounds>>

(* removeLocalNoteNotebookReferences: a note that is not in conflict leaves the
   notebooks, as an edit of this device. *)
Without(r, gone) ==
    IF r.status = "conflict" \/ r.content \intersect gone = {} THEN r
    ELSE [r EXCEPT !.content = @ \ gone, !.version = SafePendingVersion(r),
                   !.status = "pending"]

(* What a pull brought the end of and the merge really removed here. *)
Gone_PurgedOnly(d) == arrived[d].purged
Gone(d) ==
    arrived[d].purged
        \union {b \in arrived[d].deleted :
                   /\ books[d][b] # None /\ books[d][b].life = "deleted"
                   /\ books[d][b].status = "synced"}

RepairAndSaveCursor(d) ==
    /\ stage[d] = "merged"
    /\ notes' = [notes EXCEPT ![d] = [n \in Note |-> Without(@[n], Gone(d))]]
    /\ cursor' = [cursor EXCEPT ![d] = arrived[d].next]
    /\ arrived' = [arrived EXCEPT ![d] = NothingArrived]
    /\ stage' = [stage EXCEPT ![d] = "idle"]
    /\ UNCHANGED <<server, books, conflicts, bounds>>

(* The tab is closed, a request fails: the cursor stays. *)
Abort(d) ==
    /\ stage[d] # "idle" /\ lost < MaxLost
    /\ lost' = lost + 1
    /\ stage' = [stage EXCEPT ![d] = "idle"]
    /\ arrived' = [arrived EXCEPT ![d] = NothingArrived]
    /\ UNCHANGED <<server, books, notes, conflicts, cursor, ops, purges>>

(***************************************************************************)
(* resolveConflict, at any time, also while a sync of the timer runs.  The *)
(* code takes the remote side as it was stored.  Doing so, alone or beside *)
(* a copy, after the server moved on is the window "late", as in NoteSync. *)
(***************************************************************************)
Current(c) == IF c.other \in Note THEN filed[c.other] ELSE shelf[c.other]
StillRemote(c) ==
    IF c.reason = "deleted_remotely" THEN shelf[c.other].version = c.theirs.version
    ELSE Current(c) = c.theirs
MayTakeRemote(c) == ~StillRemote(c) => "late" \in Loose

Resolved(d, c) ==
    /\ c \in conflicts[d]
    /\ conflicts' = [conflicts EXCEPT ![d] = @ \ {c}]
    /\ UNCHANGED <<server, cursor, stage, arrived, bounds>>

KeptLocal(c) ==
    [c.mine EXCEPT !.version = NextVersionAfter(c.theirs.version),
                   !.base = c.theirs.version, !.status = "pending"]

ResolveNote(d, c) ==
    /\ Resolved(d, c) /\ c.of \in Note
    /\ \/ notes' = [notes EXCEPT ![d][c.of] = KeptLocal(c)]
       \/ MayTakeRemote(c) /\ notes' = [notes EXCEPT ![d][c.of] = Synced(c.theirs)]
    /\ UNCHANGED books

KeepLocalNotebook(d, c) ==
    /\ Resolved(d, c) /\ c.of \in Notebook /\ c.reason # "duplicate_name"
    /\ books' = [books EXCEPT ![d][c.of] = KeptLocal(c)]
    /\ UNCHANGED notes

KeepRemoteNotebook(d, c) ==
    /\ Resolved(d, c) /\ c.of \in Notebook /\ c.reason # "duplicate_name"
    /\ MayTakeRemote(c)
    /\ books' = [books EXCEPT ![d][c.of] = Synced(c.theirs)]
    /\ notes' = IF c.theirs.life # "deleted" THEN notes
                ELSE [notes EXCEPT ![d] = [n \in Note |-> Without(@[n], {c.of})]]

(* remapLocalNoteNotebookReferences *)
Remapped(r, from, to) ==
    IF r.status = "conflict" \/ from \notin r.content THEN r
    ELSE [r EXCEPT !.content = (@ \ {from}) \union {to},
                   !.version = SafePendingVersion(r), !.status = "pending"]

Remap(d, from, to) ==
    notes' = [notes EXCEPT ![d] = [n \in Note |-> Remapped(@[n], from, to)]]

(* A copy of a local side that was deleted is deleted too. *)
CopyOf(mine, name) ==
    [Created((mine.content \ {name - 1}) \union {name}) EXCEPT !.life = mine.life]

DuplicateNotebook(d, c, copy) ==
    /\ Resolved(d, c) /\ c.of \in Notebook /\ c.reason # "duplicate_name"
    /\ MayTakeRemote(c) /\ Fresh(copy)
    /\ \E name \in Name :
          /\ name - 1 \in c.mine.content
          /\ books' = [books EXCEPT ![d][c.of] = Synced(c.theirs),
                                    ![d][copy] = CopyOf(c.mine, name)]
    /\ Remap(d, c.of, copy)

(* resolveDuplicateNotebookNameConflict: the existing notebook takes the notes,
   or a renamed copy of the local one does. *)
KeepExisting(d, c) ==
    /\ Resolved(d, c) /\ c.reason = "duplicate_name" /\ MayTakeRemote(c)
    /\ books' = [books EXCEPT ![d][c.other] = Synced(c.theirs), ![d][c.of] = None]
    /\ Remap(d, c.of, c.other)

CopyName(d, c) ==
    LET taken == UNION {books[d][b].content : b \in {x \in Notebook \ {c.of, c.other} : Shown(d, x)}}
        free  == {m \in Name \ taken : \A mine \in c.mine.content : m > mine}
    IN {m \in free : \A k \in free : m <= k}

KeepAsCopy(d, c, copy) ==
    /\ Resolved(d, c) /\ c.reason = "duplicate_name" /\ MayTakeRemote(c) /\ Fresh(copy)
    /\ \E name \in CopyName(d, c) :
          books' = [books EXCEPT ![d][c.other] = Synced(c.theirs), ![d][c.of] = None,
                                 ![d][copy] = Created({name})]
    /\ Remap(d, c.of, copy)

(* cleanupTrash, ninety days after a deletion. *)
CleanupTrash(b) ==
    /\ purges < MaxPurges /\ shelf[b] # None /\ shelf[b].life = "deleted"
    /\ shelf' = [shelf EXCEPT ![b].life = "purged", ![b].version = @ + 1]
    /\ lastRev' = lastRev + 1
    /\ stamp' = [stamp EXCEPT ![b] = lastRev']
    /\ purges' = purges + 1
    /\ UNCHANGED <<filed, books, notes, conflicts, cursor, stage, arrived, ops, lost>>

NotebookInit ==
    LET row == [content |-> {}, life |-> "active", version |-> 1, device |-> None]
    IN /\ shelf = [b \in Notebook |-> None]
       /\ filed = [n \in Note |-> row]
       /\ stamp = [e \in Notebook \union Note |-> IF e \in Note THEN 1 ELSE 0]
       /\ lastRev = 1
       /\ books = [d \in Device |-> [b \in Notebook |-> None]]
       /\ notes = [d \in Device |-> [n \in Note |-> Synced(row)]]
       /\ conflicts = [d \in Device |-> {}]
       /\ cursor = [d \in Device |-> 1]
       /\ stage = [d \in Device |-> "idle"]
       /\ arrived = [d \in Device |-> NothingArrived]
       /\ ops = 0 /\ purges = 0 /\ lost = 0

Resolve(d) ==
    \E c \in conflicts[d] :
        \/ ResolveNote(d, c)
        \/ KeepLocalNotebook(d, c) \/ KeepRemoteNotebook(d, c)
        \/ KeepExisting(d, c)
        \/ \E copy \in Notebook : DuplicateNotebook(d, c, copy) \/ KeepAsCopy(d, c, copy)

UserStep(d) ==
    \/ \E b \in Notebook, name \in Name :
          CreateNotebook(d, b, name) \/ RenameNotebook(d, b, name)
    \/ \E b \in Notebook : DeleteNotebook(d, b)
    \/ \E b \in Notebook, n \in Note : AssignNoteToNotebook(d, n, b)

NotebookNext ==
    \/ \E d \in Device :
          \/ UserStep(d) \/ Resolve(d)
          \/ \E heard \in BOOLEAN : Push(d, heard)
          \/ Pull(d) \/ RepairAndSaveCursor(d) \/ Abort(d)
    \/ \E b \in Notebook : CleanupTrash(b)

NotebookSpec == NotebookInit /\ [][NotebookNext]_notebookVars

(***************************************************************************)
(* Properties.                                                             *)
(***************************************************************************)
NotebookTypeOK ==
    /\ shelf \in [Notebook -> Row \union {None}] /\ filed \in [Note -> NoteRow]
    /\ lastRev \in Nat /\ stamp \in [Notebook \union Note -> 0..lastRev]
    /\ \A d \in Device :
          /\ books[d] \in [Notebook -> Local(Named \union Deleted) \union {None}]
          /\ notes[d] \in [Note -> Local(SUBSET Notebook)]
          /\ stage[d] \in {"idle", "pushed", "merged"}
    /\ cursor \in [Device -> 0..lastRev]

(* Active notebook names are unique on the server, whatever devices create,
   rename, delete and bring back offline and in whatever order one request
   carries it (docs/sync-protocol.md, "Notebook Names"). *)
NamesUnique ==
    \A b, c \in Notebook :
        (OnShelf(b) /\ OnShelf(c) /\ shelf[b].content = shelf[c].content) => b = c

(* When every device has synced to the end and has nothing to send or to
   decide, no note is in a notebook that is gone, on the server or on a device,
   wherever a sync was cut off between the merge and the repair of references:
   the end of a notebook is delivered to a device once, and a reference that is
   missed then is looked at by nobody again. *)
Settled ==
    \A d \in Device :
        /\ stage[d] = "idle" /\ cursor[d] = lastRev /\ conflicts[d] = {}
        /\ PendingBooks(d) = {} /\ PendingNotes(d) = {}
NoDanglingRefs ==
    Settled => \A n \in Note :
        /\ \A b \in filed[n].content : OnShelf(b)
        /\ \A d \in Device : \A b \in notes[d][n].content : OnShelf(b)

(* Every note that was in a notebook when its name was refused is still in it
   when the user chooses, so that the choice can move it
   (docs/conflict-handling.md on duplicate names). *)
AssignmentsKept ==
    \A d \in Device : \A c \in conflicts[d] :
        (c.reason = "duplicate_name" /\ stage[d] = "idle") =>
            \A n \in c.members :
                notes[d][n].status = "conflict" \/ c.of \in notes[d][n].content
=============================================================================
