------------------------------ MODULE NoteSync ------------------------------
(***************************************************************************)
(* Offline-first synchronisation: web clients that keep notes in IndexedDB *)
(* (client/sync.ts, sync-store.ts, entity-store-notes.ts, the editor of    *)
(* the page controller) against the note store of NoteServer.              *)
(*                                                                         *)
(* A client's sync is a chain of asynchronous calls.  Each IndexedDB       *)
(* transaction and each request is a step here, and everything else the    *)
(* page does (typing, trashing, resolving a conflict, being closed) may    *)
(* come between two of them.  One sync runs per device (withSyncLock).     *)
(*                                                                         *)
(* What a note holds is the set of the edits it incorporates: an edit adds *)
(* itself to the text it was typed into, so that "was this text written    *)
(* with that one in view" can be asked.  Trashing, restoring and deleting  *)
(* are edits too; every edit has its own timestamp, so that version and    *)
(* content tell records apart as version and updatedAt do.                 *)
(*                                                                         *)
(* A pull is one step here, with one page; ChangeFeed has its queries and  *)
(* its paging.                                                             *)
(***************************************************************************)
EXTENDS NoteServer

CONSTANTS
    Edit,       \* the edits users make, numbered; Content is SUBSET Edit
    Loose       \* what users may do in a window the program leaves open

ASSUME EditAssumption ==
    Edit \subseteq Nat /\ Content = SUBSET Edit /\ "deleted" \in Life

(***************************************************************************)
(* The windows, named so that a run can say which it includes:             *)
(*   "save"     a sync writes a record between the read of it by a save    *)
(*              of the editor and the writing of that save                 *)
(*   "merge"    an edit is saved between the read of a record by a sync    *)
(*              and its writing of that record                             *)
(*   "conflict" a note is edited after a sync stored a conflict of it and  *)
(*              before the sync ends and the dialog comes up               *)
(*   "late"     a conflict is resolved for the remote side after the       *)
(*              server has moved on                                        *)
(*   "orphan"   a request is handled after its client gave up on it        *)
(*   "open"     a note stays open in the editor while a sync replaces it,  *)
(*              and is typed into afterwards                               *)
(*   "busy"     an attempt of the transaction of a push is rolled back for *)
(*              a busy database, and another write is in before the retry  *)
(* SyncSpec has the steps of every run; LooseSpec adds those that only a   *)
(* window makes possible.                                                  *)
(***************************************************************************)
Window == {"save", "merge", "conflict", "late", "orphan", "open", "busy"}
ASSUME LooseAssumption == Loose \subseteq Window

Status == {"pending", "synced", "conflict"}
LocalNote == [content : Content, life : Life, version : Nat, base : Nat,
              status : Status]
Remote == [content : Content, life : Life, device : Device,
           version : Nat]
Conflict == [note : Note, reason : {"remote_changed", "deleted_remotely"},
             mine : [content : Content, life : Life], theirs : Remote]
ASSUME LocalAssumption == None \notin LocalNote /\ None \notin Remote

Step == {"idle", "repair", "push", "answered", "refused", "pull", "pulled",
         "merge", "put"}

VARIABLES
    local,     \* notes table of each device
    conflicts, \* pending rows of its conflicts table
    cursor,    \* its lastPulledRevision
    editor,    \* the open note and the text on the screen, or None
    saving,    \* the note being saved and the record read for it, or None
    step,      \* how far its sync has come
    sent,      \* the pending notes the sync prepared, by note
    orphan,    \* a request whose client gave up on it, still to be handled
    leaked,    \* acceptances of an attempt that was rolled back, by note
    accepted,  \* accepted versions of the push response, by note
    refused,   \* conflicts of the push response not yet handled
    page,      \* the pull response: notes to merge, deletedNoteIds, revision
    reading,   \* the note being merged and the local record read for it
    used,      \* history: the edits made so far
    dropped    \* history: the edits users gave up knowingly

syncVars == <<step, sent, leaked, accepted, refused, page, reading>>
editorVars == <<editor, saving>>
answerVars == <<leaked, accepted>>
historyVars == <<used, dropped>>
allVars == <<serverVars, local, conflicts, cursor, editorVars, orphan, syncVars,
             historyVars>>

Nothing == [n \in {} |-> 0]
NoPage == [notes |-> Nothing, deletes |-> {}, revision |-> 0]

Side(r) == [content |-> r.content, life |-> r.life]
RemoteOf(row) == [content |-> row.content, life |-> row.life,
                  device |-> row.device, version |-> row.version]
Synced(r) == [content |-> r.content, life |-> r.life, version |-> r.version,
              base |-> r.version, status |-> "synced"]

Has(d, n) == local[d][n] # None
Put(d, n, r) == local' = [local EXCEPT ![d][n] = r]

(* safePendingVersion: a pending version is ahead of the one last synced. *)
SafePendingVersion(r) ==
    IF r.version > r.base THEN r.version ELSE NextVersionAfter(r.base)

PreparePending(r) == [r EXCEPT !.version = SafePendingVersion(r)]

(***************************************************************************)
(* The user.                                                               *)
(***************************************************************************)
InMerge(d, n) == \/ step[d] = "put" /\ reading[d].note = n
                 \/ step[d] = "repair" /\ n \in DOMAIN sent[d]

(* Every edit happens once; they are numbered in the order they are made. *)
NextEdit(e) == e \notin used /\ \A f \in Edit \ used : e <= f

(* A conflict is put up as a modal dialog by the refresh that ends the sync. *)
MayEdit(d, n) ==
    /\ InMerge(d, n) => "merge" \in Loose
    /\ (\E c \in conflicts[d] : c.note = n)
          => "conflict" \in Loose /\ step[d] # "idle"

Edited(r, content, life) ==
    [r EXCEPT !.content = content, !.life = life,
              !.version = NextVersionAfter(r.version), !.status = "pending"]

(* A note nobody has anything of: newId is unique. *)
Fresh(n) ==
    /\ Version(n) = 0
    /\ \A d \in Device : /\ local[d][n] = None /\ n \notin DOMAIN sent[d]
                         /\ n \notin DOMAIN orphan[d]

CreateBlankNote(d, n, e) ==
    /\ NextEdit(e) /\ Fresh(n)
    /\ Put(d, n, [content |-> {e}, life |-> "active", version |-> 1,
                  base |-> 0, status |-> "pending"])
    /\ used' = used \union {e}
    /\ UNCHANGED <<serverVars, conflicts, cursor, editorVars, orphan, syncVars,
                   dropped>>

(* A note shown in the editor: the text on the screen is what is typed into
   from now on, and refresh() leaves it alone when the record underneath
   changes. *)
SelectNote(d, n) ==
    /\ "open" \in Loose
    /\ Has(d, n) /\ local[d][n].life = "active"
    /\ editor' = [editor EXCEPT ![d] = [note |-> n,
                                        text |-> local[d][n].content]]
    /\ UNCHANGED <<serverVars, local, conflicts, cursor, saving, orphan,
                   syncVars, historyVars>>

(* saveEditorNow and updateNoteContent: the whole text replaces the record's,
   on top of the record as it was read. *)
TakeText(d, n, seen, e) ==
    LET text == (IF editor[d] # None /\ editor[d].note = n THEN editor[d].text
                 ELSE seen.content) \union {e}
    IN /\ Put(d, n, Edited(seen, text, seen.life))
       /\ editor' = [editor EXCEPT
                       ![d] = IF editor[d] # None /\ editor[d].note = n
                              THEN [note |-> n, text |-> text] ELSE editor[d]]
       /\ used' = used \union {e}
       /\ UNCHANGED <<serverVars, conflicts, cursor, orphan, syncVars, dropped>>

UpdateNoteContent(d, n, e) ==
    /\ NextEdit(e) /\ MayEdit(d, n) /\ saving[d] = None
    /\ Has(d, n) /\ local[d][n].life = "active"
    /\ TakeText(d, n, local[d][n], e)
    /\ UNCHANGED saving

(* updateNoteContent reads the record, decrypts, encrypts and writes. *)
ReadForUpdate(d, n) ==
    /\ "save" \in Loose
    /\ MayEdit(d, n) /\ saving[d] = None
    /\ Has(d, n) /\ local[d][n].life = "active"
    /\ saving' = [saving EXCEPT ![d] = [note |-> n, seen |-> local[d][n]]]
    /\ UNCHANGED <<serverVars, local, conflicts, cursor, editor, orphan,
                   syncVars, historyVars>>

WriteUpdate(d, e) ==
    /\ saving[d] # None /\ NextEdit(e) /\ MayEdit(d, saving[d].note)
    /\ TakeText(d, saving[d].note, saving[d].seen, e)
    /\ saving' = [saving EXCEPT ![d] = None]

(* moveNoteToTrash, restoreNote, and deleteNotePermanently of a note the
   server knows; each takes the record as it is. *)
ChangeLife(d, n, e, from, to) ==
    /\ NextEdit(e) /\ MayEdit(d, n)
    /\ Has(d, n) /\ local[d][n].life = from /\ to \in Life
    /\ to = "deleted" => local[d][n].base # 0
    /\ Put(d, n, Edited(local[d][n], local[d][n].content \union {e}, to))
    /\ used' = used \union {e}
    /\ editor' = [editor EXCEPT ![d] = None]
    /\ UNCHANGED <<serverVars, conflicts, cursor, saving, orphan, syncVars,
                   dropped>>

MoveNoteToTrash(d, n, e) == ChangeLife(d, n, e, "active", "trashed")
RestoreNote(d, n, e) == ChangeLife(d, n, e, "trashed", "active")
DeleteNote(d, n, e) == ChangeLife(d, n, e, "trashed", "deleted")

(* A note that was never synced is gone at once. *)
DeleteLocalOnly(d, n) ==
    /\ MayEdit(d, n)
    /\ Has(d, n) /\ local[d][n].life = "trashed" /\ local[d][n].base = 0
    /\ Put(d, n, None)
    /\ dropped' = dropped \union local[d][n].content
    /\ UNCHANGED <<serverVars, conflicts, cursor, editorVars, orphan, syncVars,
                   used>>

(***************************************************************************)
(* resolveConflict.  "Keep newer" and "keep older" are one of the two      *)
(* sides.  Each choice puts a record made from the stored conflict in the  *)
(* place of the note, and takes the conflict off the list.                 *)
(***************************************************************************)
Resolved(d, c, r, gone) ==
    /\ local' = [local EXCEPT ![d] = [n \in Note |-> IF n \in DOMAIN r THEN r[n]
                                                    ELSE local[d][n]]]
    /\ conflicts' = [conflicts EXCEPT ![d] = @ \ {c}]
    /\ dropped' = dropped \union gone
    /\ UNCHANGED <<serverVars, cursor, editorVars, orphan, syncVars, used>>

KeepLocal(d, c) ==
    Resolved(d, c,
             [n \in {c.note} |->
                 [content |-> c.mine.content, life |-> c.mine.life,
                  version |-> NextVersionAfter(c.theirs.version),
                  base |-> c.theirs.version, status |-> "pending"]],
             c.theirs.content \ c.mine.content)

MayTakeRemote(c) == c.theirs.version # Version(c.note) => "late" \in Loose

KeepRemote(d, c) ==
    /\ MayTakeRemote(c)
    /\ Resolved(d, c, [n \in {c.note} |-> Synced(c.theirs)],
                IF c.theirs.life = "deleted" THEN c.mine.content
                ELSE c.mine.content \ c.theirs.content)

DuplicateBoth_WithoutCopy(d, c, copy) ==
    /\ MayTakeRemote(c) /\ Fresh(copy)
    /\ Resolved(d, c, [n \in {c.note} |-> Synced(c.theirs)], {})

DuplicateBoth(d, c, copy) ==
    /\ MayTakeRemote(c) /\ Fresh(copy)
    /\ Resolved(d, c,
                [n \in {c.note, copy} |->
                    IF n = c.note THEN Synced(c.theirs)
                    ELSE [content |-> c.mine.content, life |-> c.mine.life,
                          version |-> 1, base |-> 0, status |-> "pending"]],
                {})

ResolveConflict(d) ==
    \E c \in conflicts[d] : /\ ~InMerge(d, c.note) \/ "merge" \in Loose
                            /\ \/ KeepLocal(d, c)
                               \/ KeepRemote(d, c)
                               \/ \E copy \in Note : DuplicateBoth(d, c, copy)

(***************************************************************************)
(* A sync (runSyncUnlocked): prepare, push, pull.                          *)
(***************************************************************************)
Goto(d, s) == step' = [step EXCEPT ![d] = s]

Pending(d) == {n \in Note : Has(d, n) /\ local[d][n].status = "pending"}

(* Deleted before it was ever synced: nothing to tell the server. *)
LocalOnlyDeleted(r) == r.base = 0 /\ r.life = "deleted"

Unprepared(snapshot) ==
    {n \in DOMAIN snapshot : \/ LocalOnlyDeleted(snapshot[n])
                             \/ PreparePending(snapshot[n]) # snapshot[n]}

(* The pending records are read once, at the start.  (No conflict is a
   device's own, see NoOwnConflict: repairSameDevicePendingConflicts finds
   nothing to repair.) *)
ReadPending(d) ==
    /\ step[d] = "idle"
    /\ LET snapshot == [n \in Pending(d) |-> local[d][n]] IN
       /\ sent' = [sent EXCEPT ![d] = snapshot]
       /\ Goto(d, IF Unprepared(snapshot) # {} THEN "repair"
                  ELSE IF Pending(d) # {} THEN "push" ELSE "pull")
    /\ UNCHANGED <<serverVars, local, conflicts, cursor, editorVars, orphan,
                   answerVars, refused, page, reading, historyVars>>

(* Records that need it are written back as they were read, prepared. *)
RepairPending(d) ==
    /\ step[d] = "repair"
    /\ LET fix == Unprepared(sent[d])
           gone == {n \in fix : LocalOnlyDeleted(sent[d][n])}
           keep == [n \in DOMAIN sent[d] \ gone |-> PreparePending(sent[d][n])]
       IN
       /\ local' = [local EXCEPT ![d] = [n \in Note |->
                       IF n \in gone THEN None
                       ELSE IF n \in fix THEN keep[n] ELSE local[d][n]]]
       /\ dropped' = dropped \union UNION {sent[d][n].content : n \in gone}
       /\ sent' = [sent EXCEPT ![d] = keep]
       /\ Goto(d, IF DOMAIN keep # {} THEN "push" ELSE "pull")
    /\ UNCHANGED <<serverVars, conflicts, cursor, editorVars, orphan, answerVars,
                   refused, page, reading, used>>

(* The server handles a request; baseVersion is lastSyncedVersion. *)
Batched(records) ==
    [n \in DOMAIN records |-> [content |-> records[n].content,
                               life |-> records[n].life,
                               base |-> records[n].base, stripped |-> FALSE]]

ConflictOf(n, ch) ==
    IF DeletedRemotely(n, ch)
    THEN [note |-> n, reason |-> "deleted_remotely", mine |-> Side(ch),
          theirs |-> [content |-> ch.content, life |-> "deleted",
                      device |-> tombs[n].device, version |-> tombs[n].version]]
    ELSE [note |-> n,
          reason |-> IF rows[n].life = "deleted" THEN "deleted_remotely"
                                                 ELSE "remote_changed",
          mine |-> Side(ch), theirs |-> RemoteOf(rows[n])]

(* What one attempt at the transaction adds to the answer: pushChanges keeps
   both lists outside the transaction it retries. *)
RefusedIn(batch) == {n \in DOMAIN batch : Refused(n, batch[n])}

ConflictsOf(batch) == {ConflictOf(n, batch[n]) : n \in RefusedIn(batch)}

AcceptancesOf(batch) ==
    [n \in DOMAIN batch \ RefusedIn(batch) |->
        IF AlreadyThere(n, batch[n]) THEN Version(n) ELSE AcceptedVersion(n)]

RollBack(d) ==
    /\ "busy" \in Loose
    /\ step[d] = "push" /\ leaked[d] = Nothing
    /\ LET batch == Batched(sent[d]) IN
       /\ leaked' = [leaked EXCEPT ![d] = AcceptancesOf(batch)]
       /\ refused' = [refused EXCEPT ![d] = ConflictsOf(batch)]
    /\ UNCHANGED <<serverVars, local, conflicts, cursor, editorVars, orphan,
                   step, sent, accepted, page, reading, historyVars>>

HandlePush(d) ==
    /\ step[d] = "push"
    /\ LET batch == Batched(sent[d]) IN
       /\ Push(d, batch)
       /\ refused' = [refused EXCEPT ![d] = @ \union ConflictsOf(batch)]
       /\ accepted' = [accepted EXCEPT ![d] = AcceptancesOf(batch)]
    /\ Goto(d, "answered")
    /\ UNCHANGED <<local, conflicts, cursor, editorVars, orphan, sent, leaked,
                   page, reading, historyVars>>

(* A request whose client has gone is handled all the same; its answer reaches
   nobody. *)
HandleOrphan(d) ==
    /\ orphan[d] # Nothing
    /\ Push(d, Batched(orphan[d]))
    /\ orphan' = [orphan EXCEPT ![d] = Nothing]
    /\ UNCHANGED <<local, conflicts, cursor, editorVars, syncVars, historyVars>>

(* markAcceptedChanges: a record that moved since it was sent stays pending,
   now on top of the accepted version. *)
StillMatchesPush_IfPending(d, n, r) == r.status = "pending"
StillMatchesPush_ByAcceptedVersion(d, n, r) ==
    n \in DOMAIN accepted[d] /\ r.version = accepted[d][n]
StillMatchesPush(d, n, r) ==
    r.version = sent[d][n].version /\ Side(r) = Side(sent[d][n])

Marked(d, n, r, acceptances) ==
    IF n \notin DOMAIN acceptances \/ r = None THEN r
    ELSE [r EXCEPT
            !.version = IF StillMatchesPush(d, n, r) THEN acceptances[n] ELSE @,
            !.status = IF StillMatchesPush(d, n, r) THEN "synced" ELSE "pending",
            !.base = acceptances[n]]

MarkAccepted(d) ==
    /\ step[d] = "answered"
    /\ local' = [local EXCEPT ![d] = [n \in Note |->
          Marked(d, n, Marked(d, n, local[d][n], leaked[d]), accepted[d])]]
    /\ sent' = [sent EXCEPT ![d] = Nothing]
    /\ leaked' = [leaked EXCEPT ![d] = Nothing]
    /\ accepted' = [accepted EXCEPT ![d] = Nothing]
    /\ Goto(d, IF refused[d] # {} THEN "refused" ELSE "pull")
    /\ UNCHANGED <<serverVars, conflicts, cursor, editorVars, orphan, refused,
                   page, reading, historyVars>>

(* absorbSameDevicePushConflict: the conflict is with an earlier push of this
   very device, whose answer was lost. *)
OwnEcho_OfAnyDevice(d, c) == c.reason = "remote_changed"
OwnEcho_Unnoticed(d, c) == FALSE
OwnEcho(d, c) == c.reason = "remote_changed" /\ c.theirs.device = d

Later(v, w) == IF v > w THEN v ELSE w

Absorbed(d, c) ==
    [local EXCEPT ![d][c.note].status = "pending",
                  ![d][c.note].base = Later(@, c.theirs.version)]

(* saveConflict: the local side is the record as it is when the conflict is
   stored, if there still is one. *)
SaveConflict(d, c) ==
    IF Has(d, c.note)
    THEN /\ conflicts' = [conflicts EXCEPT ![d] = @ \union
                            {[c EXCEPT !.mine = Side(local[d][c.note])]}]
         /\ local' = [local EXCEPT ![d][c.note].status = "conflict"]
    ELSE /\ conflicts' = [conflicts EXCEPT ![d] = @ \union {c}]
         /\ UNCHANGED local

HandleRefused(d) ==
    /\ step[d] = "refused"
    /\ \E c \in refused[d] :
        /\ refused' = [refused EXCEPT ![d] = @ \ {c}]
        /\ Goto(d, IF refused[d] = {c} THEN "pull" ELSE "refused")
        /\ \/ /\ OwnEcho(d, c)
              /\ local' = IF Has(d, c.note) THEN Absorbed(d, c) ELSE local
              /\ UNCHANGED conflicts
           \/ ~OwnEcho(d, c) /\ SaveConflict(d, c)
    /\ UNCHANGED <<serverVars, cursor, editorVars, orphan, sent, answerVars, page,
                   reading, historyVars>>

(* The server's answer to a pull: the notes logged past the cursor. *)
LoggedPast_SkipsOne(d) ==
    {n \in Note : \E c \in changes : c.note = n /\ c.rev > cursor[d] + 1}
LoggedPast(d) == {n \in Note : \E c \in changes : c.note = n /\ c.rev > cursor[d]}

HandlePull(d) ==
    /\ step[d] = "pull"
    /\ \E r \in 0..lastRev :
        /\ \A c \in changes : c.rev <= r
        /\ r = 0 \/ \E c \in changes : c.rev = r
        /\ page' = [page EXCEPT ![d] =
              [notes |-> [n \in {m \in LoggedPast(d) : HasRow(m)} |->
                             RemoteOf(rows[n])],
               deletes |-> {n \in LoggedPast(d) : ~HasRow(n)},
               revision |-> r]]
    /\ Goto(d, "pulled")
    /\ UNCHANGED <<serverVars, local, conflicts, cursor, editorVars, orphan, sent,
                   answerVars, refused, reading, historyVars>>

(* applyRemoteDeletes: a clean note goes; a pending or conflicted one stays. *)
ApplyRemoteDeletes(d) ==
    /\ step[d] = "pulled"
    /\ local' = [local EXCEPT ![d] = [n \in Note |->
          IF n \in page[d].deletes /\ Has(d, n) /\ local[d][n].status = "synced"
          THEN None ELSE local[d][n]]]
    /\ Goto(d, "merge")
    /\ UNCHANGED <<serverVars, conflicts, cursor, editorVars, orphan, sent, answerVars,
                   refused, page, reading, historyVars>>

(* mergeRemoteNote reads the record, decrypts and encrypts, and then writes
   what it made of the record it read. *)
ReadLocal(d) ==
    /\ step[d] = "merge"
    /\ \E n \in DOMAIN page[d].notes :
          reading' = [reading EXCEPT ![d] = [note |-> n, seen |-> local[d][n]]]
    /\ Goto(d, "put")
    /\ UNCHANGED <<serverVars, local, conflicts, cursor, editorVars, orphan, sent,
                   answerVars, refused, page, historyVars>>

Diverged(seen, remote) ==
    /\ seen # None /\ seen.status = "pending" /\ seen.base # remote.version
    /\ RecordsDiffer(seen, remote)

MergeClean_EvenPending(d, n, seen, remote) ==
    /\ seen # None => seen.status # "conflict"
    /\ Put(d, n, Synced(remote))
    /\ UNCHANGED conflicts
MergeClean(d, n, seen, remote) ==
    /\ seen # None => seen.status = "synced"
    /\ Put(d, n, Synced(remote))
    /\ UNCHANGED conflicts

(* A version this device wrote itself only moves the base on. *)
MergeOwn(d, n, seen, remote) ==
    /\ Diverged(seen, remote) /\ remote.device = d
    /\ IF remote.version > seen.base
       THEN Put(d, n, [seen EXCEPT !.base = remote.version])
       ELSE UNCHANGED local
    /\ UNCHANGED conflicts

MergeDiverged(d, n, seen, remote) ==
    /\ Diverged(seen, remote) /\ remote.device # d
    /\ SaveConflict(d, [note |-> n, reason |-> "remote_changed",
                        mine |-> Side(seen), theirs |-> remote])

MergeLater(d, n, seen, remote) ==
    /\ seen # None /\ seen.status # "synced" /\ ~Diverged(seen, remote)
    /\ UNCHANGED <<local, conflicts>>

MergeRemoteNote(d) ==
    /\ step[d] = "put"
    /\ LET n == reading[d].note
           seen == reading[d].seen
           remote == page[d].notes[n]
       IN
       /\ \/ MergeClean(d, n, seen, remote) \/ MergeOwn(d, n, seen, remote)
          \/ MergeDiverged(d, n, seen, remote) \/ MergeLater(d, n, seen, remote)
       /\ page' = [page EXCEPT ![d].notes =
                      [m \in DOMAIN page[d].notes \ {n} |-> page[d].notes[m]]]
    /\ reading' = [reading EXCEPT ![d] = None]
    /\ Goto(d, "merge")
    /\ UNCHANGED <<serverVars, cursor, editorVars, orphan, sent, answerVars, refused,
                   historyVars>>

SaveCursor(d) ==
    /\ step[d] = "merge" /\ DOMAIN page[d].notes = {}
    /\ cursor' = [cursor EXCEPT ![d] = page[d].revision]
    /\ page' = [page EXCEPT ![d] = NoPage]
    /\ Goto(d, "idle")
    /\ UNCHANGED <<serverVars, local, conflicts, editorVars, orphan, sent, answerVars,
                   refused, reading, historyVars>>

(* A failed request, a lost answer, an exception or a closed tab: nothing of
   the sync is kept.  A request under way may still be handled later. *)
Abort(d) ==
    /\ step[d] # "idle"
    /\ \/ "orphan" \in Loose /\ step[d] = "push"
          /\ orphan' = [orphan EXCEPT ![d] = sent[d]]
       \/ UNCHANGED orphan
    /\ sent' = [sent EXCEPT ![d] = Nothing]
    /\ leaked' = [leaked EXCEPT ![d] = Nothing]
    /\ accepted' = [accepted EXCEPT ![d] = Nothing]
    /\ refused' = [refused EXCEPT ![d] = {}]
    /\ page' = [page EXCEPT ![d] = NoPage]
    /\ reading' = [reading EXCEPT ![d] = None]
    /\ Goto(d, "idle")
    /\ UNCHANGED <<serverVars, local, conflicts, cursor, editorVars, historyVars>>

(***************************************************************************)
(* The server on its own: retention runs out and the cleanup purges.       *)
(* What is purged was trashed or deleted by a user that saw it.            *)
(***************************************************************************)
Retention ==
    /\ \/ (\E n \in Note : Age(n)) /\ UNCHANGED dropped
       \/ CleanupTrash
          /\ dropped' = dropped \union UNION {rows[n].content : n \in Expired}
    /\ UNCHANGED <<local, conflicts, cursor, editorVars, orphan, syncVars, used>>

SyncInit ==
    /\ ServerInit
    /\ local = [d \in Device |-> [n \in Note |-> None]]
    /\ conflicts = [d \in Device |-> {}]
    /\ cursor = [d \in Device |-> 0]
    /\ editor = [d \in Device |-> None]
    /\ saving = [d \in Device |-> None]
    /\ step = [d \in Device |-> "idle"]
    /\ sent = [d \in Device |-> Nothing]
    /\ orphan = [d \in Device |-> Nothing]
    /\ leaked = [d \in Device |-> Nothing]
    /\ accepted = [d \in Device |-> Nothing]
    /\ refused = [d \in Device |-> {}]
    /\ page = [d \in Device |-> NoPage]
    /\ reading = [d \in Device |-> None]
    /\ used = {}
    /\ dropped = {}

UserStep(d) ==
    \/ \E n \in Note, e \in Edit :
          \/ CreateBlankNote(d, n, e) \/ UpdateNoteContent(d, n, e)
          \/ MoveNoteToTrash(d, n, e) \/ RestoreNote(d, n, e)
          \/ DeleteNote(d, n, e)
    \/ \E n \in Note : DeleteLocalOnly(d, n)
    \/ ResolveConflict(d)

SyncStep(d) ==
    \/ ReadPending(d) \/ RepairPending(d) \/ HandlePush(d) \/ MarkAccepted(d)
    \/ HandleRefused(d) \/ HandlePull(d) \/ ApplyRemoteDeletes(d)
    \/ ReadLocal(d) \/ MergeRemoteNote(d) \/ SaveCursor(d)

SyncNext ==
    \/ \E d \in Device : UserStep(d) \/ SyncStep(d) \/ Abort(d)
    \/ Retention

SyncSpec == SyncInit /\ [][SyncNext]_allVars

(* The steps of the windows. *)
Delayed(d) ==
    \/ HandleOrphan(d)
    \/ \E n \in Note : ReadForUpdate(d, n) \/ SelectNote(d, n)
    \/ \E e \in Edit : WriteUpdate(d, e)

LooseNext == SyncNext \/ \E d \in Device : Delayed(d) \/ RollBack(d)
LooseSpec == SyncInit /\ [][LooseNext]_allVars

(***************************************************************************)
(* Properties.                                                             *)
(***************************************************************************)
NoteMap(f, S) == DOMAIN f \subseteq Note /\ \A n \in DOMAIN f : f[n] \in S

SyncTypeOK ==
    /\ ServerTypeOK
    /\ local \in [Device -> [Note -> LocalNote \union {None}]]
    /\ \A d \in Device, n \in Note : Has(d, n) /\ local[d][n].status = "synced"
                                     => local[d][n].version = local[d][n].base
    /\ \A d \in Device :
        /\ conflicts[d] \subseteq Conflict /\ refused[d] \subseteq Conflict
        /\ cursor[d] \in 0..lastRev
        /\ editor[d] # None => editor[d].note \in Note /\ editor[d].text \in Content
        /\ saving[d] # None => /\ saving[d].note \in Note
                               /\ saving[d].seen \in LocalNote
        /\ NoteMap(sent[d], LocalNote) /\ NoteMap(orphan[d], LocalNote)
        /\ NoteMap(leaked[d], Nat) /\ NoteMap(accepted[d], Nat)
        /\ NoteMap(page[d].notes, Remote) /\ page[d].deletes \subseteq Note
        /\ page[d].revision \in 0..lastRev
        /\ reading[d] # None => /\ reading[d].note \in DOMAIN page[d].notes
                                /\ reading[d].seen \in LocalNote \union {None}
    /\ step \in [Device -> Step]
    /\ used \subseteq Edit /\ dropped \subseteq Edit

(* Where the program keeps text: the notes of the devices and of the server,
   and both sides of the conflicts that wait for a choice. *)
Texts ==
    LET OfDevice(d) == {local[d][n].content : n \in {m \in Note : Has(d, m)}}
        OfServer == {rows[n].content : n \in {m \in Note : HasRow(m)}}
        OfConflicts == {{c.mine.content, c.theirs.content} :
                          c \in UNION {conflicts[d] : d \in Device}}
    IN  (UNION {OfDevice(d) : d \in Device}) \union OfServer \union (UNION OfConflicts)

(* No edit a user saved is lost, whatever is synced, conflicts, fails or is
   purged in between: some device, the server or an open conflict still has
   it, unless a user gave it up (took the other side, deleted the note). *)
NoEditLost == used \subseteq dropped \union UNION Texts

(* The server replaces a note only by text written with the replaced text in
   view, or after a user gave that text up: no push overwrites an edit its
   author never saw. *)
NeverSilentlyOverwritten ==
    [][\A n \in Note : HasRow(n) /\ HasRow(n)' =>
          rows[n].content \subseteq rows'[n].content \union dropped]_allVars

(* A pull merges only into clean records: apart from the user's own choice in
   a conflict, no step takes anything out of a pending or conflicted note. *)
PendingEditsStay ==
    [][\A d \in Device, n \in Note :
          /\ Has(d, n) /\ local[d][n].status # "synced"
          /\ conflicts[d] \subseteq conflicts'[d]
          => local[d][n].content \subseteq dropped' \union
                IF Has(d, n)' THEN local'[d][n].content ELSE {}]_allVars

(* The one way in which a sync may take something out of a note that waits,
   whatever is written between its steps: the record was read, it changed,
   and what was made of the record as it was read is written over it
   (mergeRemoteNote, prepareLocalChanges). *)
Overtaken(d, n) ==
    \/ step[d] = "put" /\ reading[d].note = n /\ reading[d].seen # local[d][n]
    \/ step[d] = "repair" /\ n \in DOMAIN sent[d] /\ sent[d][n] # local[d][n]

(* With any window open, nothing leaves a note that waits or is in conflict
   but by being overtaken or by its user's choice (NoteSyncOvertaken.cfg). *)
OnlyOvertakenChange ==
    [][\A d \in Device, n \in Note :
          /\ Has(d, n) /\ local[d][n].status # "synced" /\ ~Overtaken(d, n)
          /\ conflicts[d] \subseteq conflicts'[d]
          => local[d][n].content \subseteq dropped' \union
                IF Has(d, n)' THEN local'[d][n].content ELSE {}]_allVars

(* A note marked as synced, on a device whose cursor is past every change of
   it, is what the server has: "synced" never hides a divergence that no
   later pull would repair. *)
Clean(d, n) ==
    /\ Has(d, n) => local[d][n].status = "synced"
    /\ \A c \in conflicts[d] : c.note # n

Live(r) == IF r = None \/ r.life = "deleted" THEN None ELSE Side(r)

UpToDate(d, n) == \A c \in changes : c.note = n => c.rev <= cursor[d]

SyncedMeansServerCopy ==
    \A d \in Device, n \in Note :
        (Clean(d, n) /\ UpToDate(d, n)) =>
            IF HasRow(n) THEN Live(local[d][n]) = Live(rows[n])
            ELSE ~Has(d, n) \/ local[d][n].life = "deleted"

(* No conflict asks the user to choose between two versions of the same
   device: an answer that was lost is absorbed, never shown as a conflict. *)
NoOwnConflict ==
    \A d \in Device : \A c \in conflicts[d] :
        c.reason = "remote_changed" => c.theirs.device # d

(* A push ends in an acceptance or in a conflict for each of its notes, never
   in both, however writers of other processes come in between. *)
AcceptanceOrConflict ==
    \A d \in Device : step[d] = "answered" =>
        \A c \in refused[d] : /\ c.note \notin DOMAIN leaked[d]
                              /\ c.note \notin DOMAIN accepted[d]

(* A base is a version the server has given out, and a device that names the
   server's current version has seen what it holds. *)
BaseMeansSeen ==
    \A d \in Device, n \in Note : Has(d, n) =>
        /\ local[d][n].base <= Version(n)
        /\ (HasRow(n) /\ local[d][n].base = rows[n].version) =>
              rows[n].content \subseteq local[d][n].content \union dropped
=============================================================================
