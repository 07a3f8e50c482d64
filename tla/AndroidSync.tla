---------------------------- MODULE AndroidSync ----------------------------
(***************************************************************************)
(* The Android app's notes (core/NotesRepository.kt) against the note      *)
(* store of NoteServer, which other devices write too.                     *)
(*                                                                         *)
(* The app follows the rules of the web client (NoteSync), but not its     *)
(* transactions: a sync (runSync, one at a time under syncMutex, in the    *)
(* foreground or in SyncWorker) and the operations of the user run on      *)
(* threads of their own, and nearly all of them read a row with one        *)
(* statement and write it back with another.  Each statement on the        *)
(* database and each request is a step here.                               *)
(*                                                                         *)
(* What a note holds is the set of the edits it incorporates, as in        *)
(* NoteSync: trashing, restoring and deleting are edits too, and every     *)
(* edit has its own timestamp.  Notebooks follow the same rules through    *)
(* functions of the same shape; their names and references are in          *)
(* NotebookSync.                                                           *)
(***************************************************************************)
EXTENDS NoteServer, Sequences

CONSTANTS
    Phone, Other,   \* the device of the app, and another one
    Edit,           \* the edits users make, numbered
    MaxDeaths,      \* bound on syncs that fail and processes that die
    Loose           \* what may happen in a window the program leaves open

(***************************************************************************)
(* The windows, named so that a run can say which it includes.  A user's   *)
(* write lands between two statements of the sync on the same note:        *)
(*   "prepare"  after pendingNotes, before putNotes writes it all back     *)
(*   "mark"     inside markAcceptedChanges                                 *)
(*   "absorb"   inside absorbSameDevicePushNoteConflict                    *)
(*   "delete"   inside applyRemoteDeletes                                  *)
(*   "merge"    inside mergeRemoteNote                                     *)
(* A note is deleted for good as one that was never synced                 *)
(*   "first"    although the server has it: the answer of its first push   *)
(*              was lost, or a save overwrote what the sync had marked     *)
(* A conflict is resolved                                                  *)
(*   "newer"    after, or while, its note is edited once more              *)
(*   "late"     for the remote side, after the server has moved on or      *)
(*              while a push of the note is under way                      *)
(* The other way round, any other write of the sync between the two        *)
(* statements of an operation of the user, needs no window: it is always   *)
(* included.                                                               *)
(***************************************************************************)
Window == {"prepare", "mark", "absorb", "delete", "merge", "first",
           "newer", "late"}

ASSUME AndroidAssumption ==
    /\ Device = {Phone, Other} /\ Phone # Other
    /\ Edit \subseteq Nat /\ Content = SUBSET Edit
    /\ {"trashed", "deleted"} \subseteq Life
    /\ MaxDeaths \in Nat /\ Loose \subseteq Window

Status == {"pending", "synced", "conflict"}
LocalNote == [content : Content, life : Life, version : Nat, base : Nat,
              status : Status]
Remote == [content : Content, life : Life, device : Device, version : Nat]
Conflict == [note : Note, reason : {"remote_changed", "deleted_remotely"},
             mine : Record, theirs : Remote]

VARIABLES
    local,      \* notes table
    conflicts,  \* pending rows of the conflicts table, the oldest first
    cursor,     \* lastPulledRevision
    using,      \* the operation of the user that has read its row, or None
    resolving,  \* the choice being carried out for the first conflict, or None
    step,       \* how far the sync has come
    sent,       \* the pending notes it read and prepared, by note
    accepted,   \* accepted versions of the push response still to be marked
    refused,    \* conflicts of the push response still to be handled
    page,       \* the pull response: notes and deletes left, revision
    reading,    \* the row the sync has read and will write: where, what
    deaths,     \* syncs and processes cut off so far
    used,       \* history: the edits made so far
    dropped     \* history: the edits users gave up knowingly

userVars == <<using, resolving>>
answerVars == <<accepted, refused>>
syncVars == <<step, sent, answerVars, page, reading>>
historyVars == <<used, dropped>>
androidVars == <<serverVars, local, conflicts, cursor, userVars, syncVars,
                 deaths, historyVars>>

Nothing == [n \in {} |-> 0]
NoPage == [notes |-> Nothing, deletes |-> {}, revision |-> 0]
Without(f, n) == [m \in DOMAIN f \ {n} |-> f[m]]

Side(r) == [content |-> r.content, life |-> r.life]
RemoteOf(row) == [content |-> row.content, life |-> row.life,
                  device |-> row.device, version |-> row.version]
Has(n) == local[n] # None
Put(n, r) == local' = [local EXCEPT ![n] = r]
Synced(r) == [content |-> r.content, life |-> r.life, version |-> r.version,
              base |-> r.version, status |-> "synced"]
NewNote(content, life) ==
    [content |-> content, life |-> life, version |-> 1, base |-> 0,
     status |-> "pending"]

SafePendingVersion(r) ==
    IF r.version > r.base THEN r.version ELSE NextVersionAfter(r.base)
PreparePendingNoteForPush(r) ==
    [r EXCEPT !.version = SafePendingVersion(r), !.status = "pending"]

(***************************************************************************)
(* The user.  An operation reads its row and writes it back, changed.      *)
(***************************************************************************)
NextEdit(e) == e \notin used /\ \A f \in Edit \ used : e <= f

Fresh(n) ==
    /\ Version(n) = 0 /\ ~Has(n) /\ n \notin DOMAIN sent
    /\ using # None => using.note # n

(* The notes the sync has in hand between two of its statements. *)
InHand ==
    (IF reading # None THEN {<<reading.where, reading.note>>} ELSE {})
    \union (IF step = "prepare" THEN {<<"prepare", n>> : n \in DOMAIN sent} ELSE {})

MayWrite(n) == \A h \in InHand : h[2] = n => h[1] \in Loose

CreateBlankNote(n, e) ==
    /\ NextEdit(e) /\ Fresh(n)
    /\ Put(n, NewNote({e}, "active"))
    /\ used' = used \union {e}
    /\ UNCHANGED <<serverVars, conflicts, cursor, userVars, syncVars, deaths,
                   dropped>>

Begin(op, n, lives) ==
    /\ using = None /\ Has(n) /\ local[n].life \in lives
    /\ resolving # None => resolving.of.note # n \/ "newer" \in Loose
    /\ using' = [op |-> op, note |-> n, seen |-> local[n]]
    /\ UNCHANGED <<serverVars, local, conflicts, cursor, resolving, syncVars,
                   deaths, historyVars>>

(* The other operations on a note's fields, assignNoteToNotebook and
   setNoteFavorite, are edits like a new text. *)
UpdateNoteContent(n) == Begin("update", n, {"active", "trashed"})
MoveNoteToTrash(n) == Begin("trash", n, {"active"})
RestoreNote(n) == Begin("restore", n, {"trashed"})
DeleteNotePermanently(n) == Begin("delete", n, {"active", "trashed"})

LifeAfter(op, r) ==
    CASE op = "trash" -> "trashed" [] op = "restore" -> "active"
      [] op = "delete" -> "deleted" [] OTHER -> r.life

Edited(r, op, e) ==
    [r EXCEPT !.content = @ \union {e}, !.life = LifeAfter(op, r),
              !.version = NextVersionAfter(@), !.status = "pending"]

(* A note that was never synced is deleted at once. *)
Finish(e) ==
    /\ using # None /\ MayWrite(using.note) /\ NextEdit(e)
    /\ LET gone == using.op = "delete" /\ using.seen.base = 0 IN
       /\ gone => Version(using.note) = 0 \/ "first" \in Loose
       /\ Put(using.note, IF gone THEN None ELSE Edited(using.seen, using.op, e))
       /\ used' = used \union {e}
       /\ dropped' = IF gone /\ Has(using.note)
                     THEN dropped \union local[using.note].content \union {e}
                     ELSE IF gone THEN dropped \union {e} ELSE dropped
    /\ using' = None
    /\ UNCHANGED <<serverVars, conflicts, cursor, resolving, syncVars, deaths>>

(***************************************************************************)
(* resolveConflict, of the conflict the dialog shows: the oldest.  The     *)
(* chosen record, the copy and the conflict's new status are written one   *)
(* after the other, without a transaction.  "Keep newer" and "keep older"  *)
(* are one of the two sides.                                               *)
(***************************************************************************)
Choice == {"keep-local", "keep-remote", "duplicate-both"}

NothingNewer(c) ==
    /\ using # None => using.note # c.note
    /\ Has(c.note) => local[c.note].content
                         \subseteq c.mine.content \union c.theirs.content

ChooseSide(choice) ==
    /\ resolving = None /\ conflicts # <<>>
    /\ LET c == Head(conflicts) IN
       /\ NothingNewer(c) \/ "newer" \in Loose
       /\ dropped' = dropped \union
             CASE choice = "keep-local" -> c.theirs.content \ c.mine.content
               [] choice = "keep-remote" ->
                    IF c.theirs.life = "deleted" THEN c.mine.content
                    ELSE c.mine.content \ c.theirs.content
               [] OTHER -> {}
       /\ resolving' = [of |-> c, choice |-> choice, left |-> "record"]
    /\ UNCHANGED <<serverVars, local, conflicts, cursor, using, syncVars, deaths,
                   used>>

ChosenRecord(c, choice) ==
    IF choice = "keep-local"
    THEN [content |-> c.mine.content, life |-> c.mine.life,
          version |-> NextVersionAfter(c.theirs.version),
          base |-> c.theirs.version, status |-> "pending"]
    ELSE Synced(c.theirs)

InTime(c, choice) ==
    \/ choice = "keep-local"
    \/ c.theirs.version = Version(c.note) /\ c.note \notin DOMAIN sent
    \/ "late" \in Loose

AfterRecord(choice) == IF choice = "duplicate-both" THEN "copy" ELSE "status"

PutChosen_ResolvesFirst ==
    /\ resolving # None /\ resolving.left = "record"
    /\ MayWrite(resolving.of.note) /\ InTime(resolving.of, resolving.choice)
    /\ Put(resolving.of.note, ChosenRecord(resolving.of, resolving.choice))
    /\ conflicts' = Tail(conflicts)
    /\ resolving' = IF resolving.choice = "duplicate-both"
                    THEN [resolving EXCEPT !.left = "copy"] ELSE None
    /\ UNCHANGED <<serverVars, cursor, using, syncVars, deaths, historyVars>>

PutChosen ==
    /\ resolving # None /\ resolving.left = "record"
    /\ MayWrite(resolving.of.note) /\ InTime(resolving.of, resolving.choice)
    /\ Put(resolving.of.note, ChosenRecord(resolving.of, resolving.choice))
    /\ resolving' = [resolving EXCEPT !.left = AfterRecord(resolving.choice)]
    /\ UNCHANGED <<serverVars, conflicts, cursor, using, syncVars, deaths,
                   historyVars>>

PutCopy(copy) ==
    /\ resolving # None /\ resolving.left = "copy" /\ Fresh(copy)
    /\ Put(copy, NewNote(resolving.of.mine.content, resolving.of.mine.life))
    /\ resolving' = [resolving EXCEPT !.left = "status"]
    /\ UNCHANGED <<serverVars, conflicts, cursor, using, syncVars, deaths,
                   historyVars>>

MarkResolved ==
    /\ resolving # None /\ resolving.left = "status"
    /\ conflicts' = Tail(conflicts)
    /\ resolving' = None
    /\ UNCHANGED <<serverVars, local, cursor, using, syncVars, deaths,
                   historyVars>>
(***************************************************************************)
(* A sync (runSyncLocked).  The sync starts without anything to repair: no *)
(* conflict of the phone is with its own version (NoOwnConflict).          *)
(***************************************************************************)
Goto(s) == step' = s

Pending == {n \in Note : Has(n) /\ local[n].status = "pending"}

ReadPending ==
    /\ step = "idle"
    /\ sent' = [n \in Pending |-> local[n]]
    /\ Goto(IF Pending = {} THEN "pull" ELSE "prepare")
    /\ UNCHANGED <<serverVars, local, conflicts, cursor, userVars, answerVars,
                   page, reading, deaths, historyVars>>

(* Notes deleted before they were ever synced go; all others are written back
   as they were read, prepared. *)
PutPrepared ==
    /\ step = "prepare"
    /\ LET gone == {n \in DOMAIN sent : sent[n].base = 0 /\ sent[n].life = "deleted"}
           prepared == [n \in DOMAIN sent \ gone |->
                           PreparePendingNoteForPush(sent[n])]
       IN
       /\ local' = [n \in Note |-> IF n \in gone THEN None
                                   ELSE IF n \in DOMAIN prepared THEN prepared[n]
                                   ELSE local[n]]
       /\ sent' = prepared
       /\ dropped' = dropped \union UNION {sent[n].content : n \in gone}
       /\ Goto(IF DOMAIN prepared = {} THEN "pull" ELSE "push")
    /\ UNCHANGED <<serverVars, conflicts, cursor, userVars, answerVars, page,
                   reading, deaths, used>>

ConflictOf(n, ch) ==
    IF DeletedRemotely(n, ch)
    THEN [note |-> n, reason |-> "deleted_remotely", mine |-> Side(ch),
          theirs |-> [content |-> ch.content, life |-> "deleted",
                      device |-> tombs[n].device, version |-> tombs[n].version]]
    ELSE [note |-> n,
          reason |-> IF rows[n].life = "deleted" THEN "deleted_remotely"
                                                 ELSE "remote_changed",
          mine |-> Side(ch), theirs |-> RemoteOf(rows[n])]

HandlePush ==
    /\ step = "push"
    /\ LET batch == [n \in DOMAIN sent |->
                        [content |-> sent[n].content, life |-> sent[n].life,
                         base |-> sent[n].base, stripped |-> FALSE]]
           no == {n \in DOMAIN batch : Refused(n, batch[n])}
       IN
       /\ Push(Phone, batch)
       /\ refused' = {ConflictOf(n, batch[n]) : n \in no}
       /\ accepted' = [n \in DOMAIN batch \ no |->
                          IF AlreadyThere(n, batch[n]) THEN Version(n)
                          ELSE AcceptedVersion(n)]
    /\ Goto("answered")
    /\ UNCHANGED <<local, conflicts, cursor, userVars, sent, page, reading, deaths,
                   historyVars>>

(* A statement that reads a row the sync will write. *)
Read(where, n) ==
    /\ reading = None
    /\ reading' = [where |-> where, note |-> n, seen |-> local[n]]
    /\ UNCHANGED <<serverVars, local, conflicts, cursor, userVars, step, sent,
                   answerVars, page, deaths, historyVars>>

At(where) == reading # None /\ reading.where = where

(* markAcceptedChanges: a record that moved since it was sent stays pending,
   now on top of the accepted version. *)
ReadAccepted == step = "answered" /\ \E n \in DOMAIN accepted : Read("mark", n)

StillMatches(n, r) == r.version = sent[n].version /\ Side(r) = Side(sent[n])

Marked(n, r) ==
    [r EXCEPT !.version = IF StillMatches(n, r) THEN accepted[n] ELSE @,
              !.status = IF StillMatches(n, r) THEN "synced" ELSE "pending",
              !.base = accepted[n]]

MarkAccepted ==
    /\ At("mark")
    /\ LET n == reading.note IN
       /\ IF reading.seen = None THEN UNCHANGED local
          ELSE Put(n, Marked(n, reading.seen))
       /\ accepted' = Without(accepted, n)
    /\ reading' = None
    /\ UNCHANGED <<serverVars, conflicts, cursor, userVars, step, sent, refused,
                   page, deaths, historyVars>>

(* absorbSameDevicePushNoteConflict: the conflict is with an earlier push of
   this phone, whose answer was lost. *)
OwnEcho_OfAnyDevice(c) == c.reason = "remote_changed"
OwnEcho(c) == c.reason = "remote_changed" /\ c.theirs.device = Phone

ReadEcho ==
    /\ step = "answered" /\ accepted = Nothing
    /\ \E c \in refused : OwnEcho(c) /\ Read("absorb", c.note)

Later(v, w) == IF v > w THEN v ELSE w

Absorb ==
    /\ At("absorb")
    /\ \E c \in refused :
        /\ c.note = reading.note
        /\ IF reading.seen = None THEN UNCHANGED local
           ELSE Put(c.note, [reading.seen EXCEPT
                                !.status = "pending",
                                !.base = Later(@, c.theirs.version)])
        /\ refused' = refused \ {c}
    /\ reading' = None
    /\ UNCHANGED <<serverVars, conflicts, cursor, userVars, step, sent, accepted,
                   page, deaths, historyVars>>

(* saveNoteConflict and putConflictIfEntityUnchanged: the local side is read
   again until it is the row the transaction finds. *)
SaveNoteConflict_AsPushed(c) ==
    /\ conflicts' = Append(conflicts, c)
    /\ IF Has(c.note) THEN local' = [local EXCEPT ![c.note].status = "conflict"]
       ELSE UNCHANGED local
SaveNoteConflict(c) ==
    IF Has(c.note)
    THEN /\ conflicts' = Append(conflicts, [c EXCEPT !.mine = Side(local[c.note])])
         /\ local' = [local EXCEPT ![c.note].status = "conflict"]
    ELSE conflicts' = Append(conflicts, c) /\ UNCHANGED local

SaveRefused ==
    /\ step = "answered" /\ accepted = Nothing /\ reading = None
    /\ \E c \in refused : /\ ~OwnEcho(c) /\ SaveNoteConflict(c)
                          /\ refused' = refused \ {c}
    /\ UNCHANGED <<serverVars, cursor, userVars, step, sent, accepted, page,
                   reading, deaths, historyVars>>

PushDone ==
    /\ step = "answered" /\ accepted = Nothing /\ refused = {} /\ reading = None
    /\ sent' = Nothing
    /\ Goto("pull")
    /\ UNCHANGED <<serverVars, local, conflicts, cursor, userVars, answerVars, page,
                   reading, deaths, historyVars>>

(* The server's answer to a pull: what is logged past the cursor, in a page. *)
LoggedPast == {n \in Note : \E c \in changes : c.note = n /\ c.rev > cursor}

HandlePull ==
    /\ step = "pull"
    /\ page' = [notes |-> [n \in {m \in LoggedPast : HasRow(m)} |-> RemoteOf(rows[n])],
                deletes |-> {n \in LoggedPast : ~HasRow(n)},
                revision |-> lastRev]
    /\ Goto("pulled")
    /\ UNCHANGED <<serverVars, local, conflicts, cursor, userVars, sent, answerVars,
                   reading, deaths, historyVars>>

(* applyRemoteDeletes: a clean note goes; a pending or conflicted one stays. *)
ReadDeleted == step = "pulled" /\ \E n \in page.deletes : Read("delete", n)

ApplyRemoteDelete ==
    /\ At("delete")
    /\ LET n == reading.note IN
       /\ IF reading.seen # None /\ reading.seen.status = "synced"
          THEN Put(n, None) ELSE UNCHANGED local
       /\ page' = [page EXCEPT !.deletes = @ \ {n}]
    /\ reading' = None
    /\ UNCHANGED <<serverVars, conflicts, cursor, userVars, step, sent, answerVars,
                   deaths, historyVars>>

(* mergeRemoteNote. *)
ReadMerged ==
    /\ step = "pulled" /\ page.deletes = {}
    /\ \E n \in DOMAIN page.notes : Read("merge", n)

Diverged(seen, remote) ==
    /\ seen.status = "pending" /\ seen.base # remote.version
    /\ RecordsDiffer(seen, remote)

MergeClean(n, seen, remote) ==
    /\ seen # None => seen.status = "synced"
    /\ Put(n, Synced(remote))
    /\ UNCHANGED conflicts

(* A version this phone wrote itself only moves the base on. *)
MergeOwn(n, seen, remote) ==
    /\ seen # None /\ Diverged(seen, remote) /\ remote.device = Phone
    /\ IF remote.version > seen.base
       THEN Put(n, [seen EXCEPT !.base = remote.version])
       ELSE UNCHANGED local
    /\ UNCHANGED conflicts

MergeDiverged(n, seen, remote) ==
    /\ seen # None /\ Diverged(seen, remote) /\ remote.device # Phone
    /\ SaveNoteConflict([note |-> n, reason |-> "remote_changed",
                         mine |-> Side(seen), theirs |-> remote])

MergeLater(n, seen, remote) ==
    /\ seen # None /\ seen.status # "synced" /\ ~Diverged(seen, remote)
    /\ UNCHANGED <<local, conflicts>>

MergeRemoteNote ==
    /\ At("merge")
    /\ LET n == reading.note
           seen == reading.seen
           remote == page.notes[n]
       IN
       /\ \/ MergeClean(n, seen, remote) \/ MergeOwn(n, seen, remote)
          \/ MergeDiverged(n, seen, remote) \/ MergeLater(n, seen, remote)
       /\ page' = [page EXCEPT !.notes = Without(@, n)]
    /\ reading' = None
    /\ UNCHANGED <<serverVars, cursor, userVars, step, sent, answerVars, deaths,
                   historyVars>>

(* safeRevisionCursor: the revision the page was read at. *)
NextCursor_Latest == lastRev
NextCursor == page.revision

SaveCursor ==
    /\ step = "pulled" /\ page.deletes = {} /\ page.notes = Nothing
    /\ reading = None
    /\ cursor' = NextCursor
    /\ page' = NoPage
    /\ Goto("idle")
    /\ UNCHANGED <<serverVars, local, conflicts, userVars, sent, answerVars, reading,
                   deaths, historyVars>>

(* A request fails, its answer is lost or a statement throws: what the sync
   has written stays, the rest of it is forgotten. *)
Forget ==
    /\ deaths < MaxDeaths
    /\ deaths' = deaths + 1
    /\ sent' = Nothing /\ accepted' = Nothing /\ refused' = {}
    /\ page' = NoPage /\ reading' = None
    /\ Goto("idle")
    /\ UNCHANGED <<serverVars, local, conflicts, cursor, historyVars>>

SyncFails == step # "idle" /\ Forget /\ UNCHANGED userVars

(* The process dies, with everything that is under way in it. *)
ProcessDies ==
    /\ using # None \/ resolving # None
    /\ Forget
    /\ using' = None /\ resolving' = None

(***************************************************************************)
(* The other device: it has the server's version in view when it writes.   *)
(***************************************************************************)
OtherPushes(n, life, e) ==
    /\ NextEdit(e)
    /\ HasRow(n) => rows[n].life # "deleted"
    /\ ~HasRow(n) => life = "active" /\ Fresh(n)
    /\ Push(Other, [m \in {n} |->
                       [content |-> {e} \union IF HasRow(n) THEN rows[n].content
                                              ELSE {},
                        life |-> life, base |-> Version(n), stripped |-> FALSE]])
    /\ used' = used \union {e}
    /\ UNCHANGED <<local, conflicts, cursor, userVars, syncVars, deaths, dropped>>

(* What the cleanup purges was trashed or deleted by a user that saw it. *)
Retention ==
    /\ \/ (\E n \in Note : Age(n)) /\ UNCHANGED dropped
       \/ CleanupTrash
          /\ dropped' = dropped \union UNION {rows[n].content : n \in Expired}
    /\ UNCHANGED <<local, conflicts, cursor, userVars, syncVars, deaths, used>>

AndroidInit ==
    /\ ServerInit
    /\ local = [n \in Note |-> None]
    /\ conflicts = <<>>
    /\ cursor = 0
    /\ using = None /\ resolving = None
    /\ step = "idle" /\ sent = Nothing
    /\ accepted = Nothing /\ refused = {}
    /\ page = NoPage /\ reading = None
    /\ deaths = 0
    /\ used = {} /\ dropped = {}

UserStep ==
    \/ \E n \in Note, e \in Edit : CreateBlankNote(n, e)
    \/ \E n \in Note : \/ UpdateNoteContent(n) \/ MoveNoteToTrash(n)
                       \/ RestoreNote(n) \/ DeleteNotePermanently(n)
    \/ \E e \in Edit : Finish(e)
    \/ \E choice \in Choice : ChooseSide(choice)
    \/ PutChosen \/ MarkResolved
    \/ \E copy \in Note : PutCopy(copy)

SyncStep ==
    \/ ReadPending \/ PutPrepared \/ HandlePush
    \/ ReadAccepted \/ MarkAccepted \/ ReadEcho \/ Absorb \/ SaveRefused
    \/ PushDone \/ HandlePull \/ ReadDeleted \/ ApplyRemoteDelete
    \/ ReadMerged \/ MergeRemoteNote \/ SaveCursor

AndroidNext ==
    \/ UserStep \/ SyncStep \/ SyncFails \/ ProcessDies
    \/ \E n \in Note, life \in Life, e \in Edit : OtherPushes(n, life, e)
    \/ Retention

AndroidSpec == AndroidInit /\ [][AndroidNext]_androidVars

(***************************************************************************)
(* Properties.                                                             *)
(***************************************************************************)
NoteMap(f, S) == DOMAIN f \subseteq Note /\ \A n \in DOMAIN f : f[n] \in S

UserOp == {"update", "trash", "restore", "delete"}
Using == [op : UserOp, note : Note, seen : LocalNote]
Resolving == [of : Conflict, choice : Choice, left : {"record", "copy", "status"}]
Reading == [where : {"mark", "absorb", "delete", "merge"}, note : Note,
            seen : LocalNote \union {None}]
Step == {"idle", "prepare", "push", "answered", "pull", "pulled"}

ASSUME UnderWayAssumption ==
    None \notin LocalNote \union Remote \union Using \union Resolving \union Reading

AndroidTypeOK ==
    /\ ServerTypeOK
    /\ local \in [Note -> LocalNote \union {None}]
    /\ \A n \in Note : Has(n) /\ local[n].status = "synced"
                         => local[n].version = local[n].base
    /\ conflicts \in Seq(Conflict)
    /\ cursor \in 0..lastRev
    /\ using \in Using \union {None}
    /\ resolving \in Resolving \union {None}
    /\ resolving # None => conflicts # <<>> /\ resolving.of = Head(conflicts)
    /\ step \in Step
    /\ NoteMap(sent, LocalNote) /\ NoteMap(accepted, Nat \ {0})
    /\ refused \subseteq Conflict
    /\ DOMAIN page = DOMAIN NoPage
    /\ NoteMap(page.notes, Remote) /\ page.deletes \subseteq Note
    /\ page.revision \in 0..lastRev
    /\ reading \in Reading \union {None}
    /\ used \subseteq Edit /\ dropped \subseteq Edit

Texts ==
    {local[n].content : n \in {m \in Note : Has(m)}}
    \union {rows[n].content : n \in {m \in Note : HasRow(m)}}
    \union UNION {{conflicts[i].mine.content, conflicts[i].theirs.content} :
                     i \in DOMAIN conflicts}

(* No edit is lost, whatever write of a sync comes between the two statements
   of an operation, wherever a sync, the resolution of a conflict or the process
   is cut off: the phone, the server or an open conflict still has it, unless a
   user gave it up. *)
NoEditLost == used \subseteq dropped \union UNION Texts

(* The phone replaces a note of the server only by text written with the
   replaced text in view. *)
NeverSilentlyOverwritten ==
    [][\A n \in Note : HasRow(n) /\ HasRow(n)' =>
          rows[n].content \subseteq rows'[n].content \union dropped]_androidVars

(* A note marked "conflict" is neither pushed nor pulled over: one of the
   conflicts the dialog will show holds it as it is, however the note changed
   while the conflict was being stored. *)
ConflictShowsNote ==
    \A n \in Note : Has(n) /\ local[n].status = "conflict" =>
        \E i \in DOMAIN conflicts : /\ conflicts[i].note = n
                                    /\ conflicts[i].mine = Side(local[n])

Live(r) == IF r = None \/ r.life = "deleted" THEN None ELSE Side(r)
Clean(n) ==
    /\ Has(n) => local[n].status = "synced"
    /\ \A i \in DOMAIN conflicts : conflicts[i].note # n
UpToDate(n) == \A c \in changes : c.note = n => c.rev <= cursor

(* A note marked "synced", with no conflict open and the cursor past its last
   change, is the server's: no later pull would bring a difference to light. *)
SyncedMeansServerCopy ==
    \A n \in Note : (Clean(n) /\ UpToDate(n)) =>
        IF HasRow(n) THEN Live(local[n]) = Live(rows[n]) ELSE Live(local[n]) = None

(* No conflict asks the user to choose between two versions of the phone. *)
NoOwnConflict ==
    \A i \in DOMAIN conflicts : conflicts[i].reason = "remote_changed"
                                => conflicts[i].theirs.device # Phone

(* A row that changed after it was sent stays pending and keeps its text when
   the push is marked as accepted: the comparison with what was sent and the
   write are one. *)
NewerEditStaysPending ==
    [][\A n \in DOMAIN accepted \ DOMAIN accepted' :
          (step' = "answered" /\ Has(n) /\ Side(local[n]) # Side(sent[n])) =>
             /\ Has(n)' /\ local'[n].status = "pending"
             /\ local[n].content \subseteq local'[n].content]_androidVars
=============================================================================
