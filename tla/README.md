# Verification of author

author is an offline-first notes application: browsers and Android phones keep
encrypted notes in a local database and exchange them with a self-hosted server
(SQLite, optionally mirrored to Turso) through a small push/pull protocol. This
directory holds TLA+ models of that protocol and of the code around it, the TLC
runs that check them, and proofs checked by TLAPS.

All line references below are to files under `src/`; `lib/` abbreviates
`src/apps/web/src/lib/`, `android/` the Kotlin sources under
`src/apps/android/app/src/main/java/com/author/`.

`tlc -config MCNoteSync.cfg MCNoteSync` runs one model, `tlapm NoteSyncProofs.tla`
checks one module's proofs. `PROJECT.json` lists components, runs, theorems,
findings and hazards, and maps every definition to the lines it models.

## 1. The system

| Component | Code | State | Operations |
|---|---|---|---|
| Sync rules | `packages/sync-spec/src/index.ts` | none | `recordsDiffer`, `shouldConflict`, `nextVersionAfter`, `safeRevisionCursor` |
| Server note store | `lib/server/repository.ts`, `db.ts` | `notes`, `notebooks`, `devices`, `entity_tombstones`, `entity_changes`, `note_versions` | `pushChanges`, `pullMirrorChangesSinceRevision`, `cleanupTrash`, `compactEntityChanges`, pruning |
| HTTP API | `lib/server/hono.ts`, `payload-validation.ts` | rate-limit counters, mirror queue | one handler per route |
| Client sync engine | `lib/client/sync.ts`, `sync-store.ts` | IndexedDB `notes`, `notebooks`, `conflicts`, `syncMeta` (cursor, lease) | `runSync` and its parts, `resolveConflict` |
| Client note operations | `lib/client/entity-store-*.ts` | the same tables, local snapshots | create, edit, trash, restore, delete, file a note |
| Notebooks | in all of the above | names, references from notes | create, rename, delete with clean-up, duplicate-name conflicts |
| Editor and page controller | `lib/components/notes/controller/` | open note, text on the screen, save timer, recovery record, queue flags, conflict dialog | `handleEditorInput`, `saveEditorNow`, `selectNote`, `refresh`, `syncNow` |
| Remote mirror | `lib/server/remote-sync.ts`, queue in `hono.ts` 474-705 | two cursors per owner, two leases, a persistent pending flag | mirror runs in three passes, queue, retry |
| Accounts and sign-in | `lib/server/auth.ts`, routes in `hono.ts` | users, sessions, trusted devices, challenges, account tombstones | sign-up, sign-in, profile, password, second factor, deletion |
| Encryption and keyring | `lib/client/encryption-keyring.ts`, `entity-store-encryption.ts`, `controller/account/` | key material of a browser, keyring wrapped on the server | migrate, adopt a workspace, re-encrypt, change password |
| Sync lease | `lib/client/sync.ts` 498-596 | one row of `syncMeta` | acquire, heartbeat, release, assert |
| Limits and schedulers | `lib/server/record-limits.ts`, `cleanup-scheduler.ts`, `backup-scheduler.ts` | running flags | `checkRecordLimits` inside a push, timers |
| Workspace, archives | `lib/client/archive-*.ts`, `local-state.ts`, ... | files | import, export, queries |
| Android store and sync | `android/core` | SQLCipher tables | a second client of the same protocol |
| Android screen | `android/ui/state/NotesController.kt`, `core/SyncWorker.kt` | text on the screen, jobs, flags, background work | typing, taps, saves, refreshes, syncs |

**How they interact.** The user's operations and the sync engine share the
client's tables without a common lock: a sync excludes *other syncs* (a Web Lock
in the browser, `syncMutex` on the phone), never the editor. In the browser each
IndexedDB transaction is atomic, but most operations read, `await` encryption,
and write in another transaction; on the phone nearly every read and write is a
statement of its own. A sync sends the records it read at its start, in batches,
with the version each was last synced at (`baseVersion`), applies the answer,
then pulls pages of the change log past its cursor and merges them. On the
server a push and a clean-up are single write transactions, retried when the
database is busy; a pull is four queries outside any transaction. The mirror is
one more reader and writer of two logs, started by a queue that write routes feed. Account
routes change the remote database first and copy the row to the local one, while
the mirror copies accounts too.

**What is hard.** Steps of the editor between two steps of a sync; a request
whose answer is lost, or that is handled after its client gave up; a tab closed
or a process killed between two writes; writers between the queries of a pull;
conflicts stored now and resolved later; versions continued over tombstones
after a purge; a mirror run repeated over newer writes; a route that dies
between two databases; overlapping saves of one screen. Each place is listed in
`PROJECT.json` under `hazards` with the properties that watch it, or with the
reason why none does.

**What makes each part correct.**

* *Store*: a version names one record for ever; the newest log entry of a note
  tells the truth about it.
* *Pull*: a saved cursor never stands past a change that was not delivered; a
  pull never takes a device back.
* *Sync*: no edit is lost; the server's text is replaced only by text written
  with it in view; pending records are not overwritten by a pull; "synced"
  means equal to the server; the device's own echo is no conflict; and, once
  failures stop, everybody agrees.
* *Notebooks*: one active notebook per name; no settled note refers to a
  notebook that is gone.
* *Mirror*: it merges and never chooses; a cursor is never ahead of what was
  carried over; a complete run leaves both sides equal; no write is forgotten.
* *Accounts*: no interleaving leaves a state every later run refuses; changes
  and deletions reach both databases.
* *Keys*: the password opens the keyring, the keyring the notes, and a browser
  each envelope in its tables, wherever a migration or an adoption is stopped; a
  data key is kept.
* *Screens*: a note never gets another one's text; what was typed is stored.

## 2. The modules

| Module | Models | EXTENDS |
|---|---|---|
| `SyncSpec` | the shared rules, as operators | |
| `NoteServer` | tables and write transactions of one account's notes | `SyncSpec` |
| `RecordLimits` | the storage limits a push has to pass | `NoteServer` |
| `ChangeFeed` | the paged pull and the cursor, on a server with limits | `RecordLimits` |
| `NoteSync` | web clients with edits, conflicts and syncs, against the store | `NoteServer` |
| `NoteSyncLive` | `NoteSync` with bounded failures and fairness | `NoteSync` |
| `NotebookSync` | notebooks, names and references, server and clients | `SyncSpec` |
| `Replicas` | what keeping databases equal promises (abstract) | |
| `Mirror` | mirror runs between two databases; implements `Replicas` | |
| `MirrorQueue` | when runs start, and who may run | |
| `Accounts` | account routes over two databases, and the mirror's account pass | |
| `Keyring` | key material of browsers and accounts | |
| `NoteEditor` | the web editor's saves, drafts and recovery | |
| `AndroidSync` | the phone's sync and store, statement by statement | `NoteServer` |
| `NotesController` | the phone's screen and its scheduling of syncs | |
| `NoteServerProofs`, `NoteSyncProofs` (with `ChangeFeed` and `RecordLimits`), `MirrorProofs` (with `MirrorQueue`), `AccountsKeyringProofs`, `NotebookSyncProofs`, `AndroidSyncProofs`, `NoteEditorProofs`, `NotesControllerProofs` | theorems and proofs | the module they are about |
| `MC*` | model values, symmetry and bounds the `.cfg` files need; `MirrorQueue`, `Accounts`, `NoteEditor` and `NotesController` need none and are checked directly | the module they instantiate |

An operator called `Name_How` next to an operator `Name` is `Name` with a
plausible mistake in it. No action uses it; `PROJECT.json` (`mutants`) pairs it
with the property that notices when it takes `Name`'s place.

**Windows.** Some interleavings break properties of the code as it is. So that
everything else can still be checked, each is named and guarded by a constant
`Loose`, the set of windows that are open. A run with a window closed shows that
the property has *no other* way to fail within the bounds; it does not say that
the property holds of the code. The windows that matter most have a `.cfg` of
their own that opens one and lets TLC show what it does (section 4).

### NoteServer, RecordLimits and ChangeFeed

A `Push` is the whole of `pushChanges` for the notes of one request: each note
is refused because its row was purged (`DeletedRemotely`) or is newer
(`RemoteChanged`), is there already (`AlreadyThere`), or is written with the next
version; written notes clear their tombstone and are logged with consecutive
revisions. `Age` lets the 90 days of retention run out; `CleanupTrash` purges all
such notes in one transaction, leaving tombstones one version further on;
`CompactEntityChanges` keeps the newest entry of each note. `content` is
everything `recordsDiffer` compares except the trash state, `life`. `issued` is a
history of what was ever given out.

`PushWithinLimits` is a push that comes from a client: `checkRecordLimits` runs in
its transaction before anything is written, and refuses it as a whole. The limits
are shares of one budget, so every sign-up makes those of the other accounts
smaller; how many accounts there are, and what this one stores beside its notes,
is therefore whatever the push finds (`Users`, `OtherBytes`). `CountUsage`,
`ByteUsage` and `TotalUsage` are the estimates of what the push would leave, and
`LimitsAllow` the decision with its way out for an account that is over its
limits: a push of nothing but deletions of active notes, at their versions. The
limits of notebooks and of devices are left out, and a server that enforces no limits
(`shouldEnforceRecordLimits`) is `NoteServer` itself.

`ReadRevision`, `ReadPage` or `ReadEmptyPage`, `ReadChanges`, `ReadRows` are the
four queries of `pullMirrorChangesSinceRevision`, and any number of server
transactions may commit between two of them. `ReadPage` ends the page at *some*
entry within the limit, which covers a smaller `limit` of the client and the
halving of responses that are too large. `Apply` and `SaveLastPulled` are the
client's separate writes; `Abandon` is a lost response, an error or a closed
tab. The device has no edits of its own, so that `shown` is exactly what pulls
delivered.

### NoteSync and NoteSyncLive

A note's content is the *set of edits it incorporates*: typing adds an edit to
the text it was typed into. This makes "was this text written with that one in
view" a question of inclusion. Each edit happens once, so comparing version and
content is what the code's comparison of `version` and `updatedAt` is.

A sync goes through `ReadPending`, `RepairPending`, then per batch `HandlePush`,
`MarkAccepted` and `HandleRefused` (once per conflict of the answer), then
`HandlePull`, `ApplyRemoteDeletes`, `ReadLocal` and `MergeRemoteNote` (once per
note), and `SaveCursor`; `Abort` ends it anywhere, keeping nothing but what is
stored. The user's actions are `CreateBlankNote`, `UpdateNoteContent` (or the
pair `ReadForUpdate`, `WriteUpdate`), `MoveNoteToTrash`, `RestoreNote`,
`DeleteNote`, `DeleteLocalOnly`, `SelectNote` and `ResolveConflict` with its
choices. `used` and `dropped` are history: the edits made, and those a user gave
up by deleting the note or taking the other side. `SyncSpec` (the formula) has the
steps of every run, `LooseSpec` adds those that only a window makes possible.

| Window | What may happen in it |
|---|---|
| `"save"` | sync steps between the read and the write of a save of the editor |
| `"orphan"` | a request handled after its client gave up on it |
| `"merge"` | an edit between a sync's read and its write of the record |
| `"conflict"` | an edit after a conflict was stored, before the dialog is up |
| `"late"` | taking the remote side of a conflict after the server moved on |
| `"open"` | a note stays on the screen while a sync replaces it, and is typed into |
| `"busy"` | an attempt of a push's transaction is rolled back, another writer commits, then the retry |

The first two are harmless: `note_sync_delays` opens them and everything it
checks holds (of operations that change the trash state, none overlaps a sync
step in it). The others are not.

Encryption is not seen, except that it takes time between reads and writes. A
read and the write that follows it inside `resolveConflict`,
`absorbSameDevicePushConflict` and the trash operations are one step (in
`AndroidSync`, whose code writes in the same order, each is one). A pull is one
page read at once; `ChangeFeed` has the pages and the queries.

### NotebookSync

A push with its answer is one step, a pull with its merge another, the repair of
references with the saving of the cursor a third; what comes between finer steps
is in `NoteSync`. `Push` decides the notebooks of the request one after the other in
some order (`Decided`), as `pushChanges` does, so that names are compared within the
request and with the table (`DuplicateOf`), then files the notes with references the server
does not know stripped. Names are numbers, "n copy" being n + 1. The dialog's
choices (`KeepLocalNotebook`, `KeepRemoteNotebook`, `DuplicateNotebook`,
`KeepExisting`, `KeepAsCopy`) remap references as `resolveConflict` does. A deleted
notebook's content holds the time of its deletion beside the name, because
`recordsDiffer` compares it: two devices that delete one notebook have a conflict,
and it is the choice in it that ends the references of the one that comes second.
One behaviour of the code that appears in the model: renaming a *synced* notebook to
a name that is taken is refused, and "keep existing" then removes the local row only.

The minute timer starts a sync whether the dialog is open or not, so a device pushes
and pulls with conflicts unresolved, and a choice may be made at any point of a sync.
The sides a conflict stores are those of the moment it arose. Taking the remote side
of a notebook, or either side that rests on it, after the server moved on is the
window `"late"`: `resolveConflict` does not look again, so a notebook whose deletion
was pulled in the meantime comes back as an active, clean row, and references to it
outlive it (`NotebookLate.cfg`). Edits of a record between `saveConflict` and the
dialog are left to `NoteSync`.

### Replicas, Mirror and MirrorQueue

`Replicas` says what any mechanism that keeps databases equal promises: users
edit records at a replica, and a replica takes over edits made elsewhere only *on
top of* what a live record holds. `Mirror` is `syncDatabases` for the notes and
notebooks of one owner: passes remote to local, local to remote, remote to
local, each page pulled, planned against what the target has (`Verdict`,
`DeleteVerdict`), refused as a whole if one record diverged, then deletes on both
sides, the push, and the cursor, all in separate transactions and cut off
anywhere, while clients, retention and compaction go on on both sides.
`MergesOnly == Abstract!ReplicaSpec` is the refinement, checked and proved. Windows: `"delete"`, a record
is written on a side after a run decided to delete it there; `"page"`, a record
is written after a page carried it over and before the pass ends. Left out: two runs of one owner at a time, which the lease of the remote excludes until
a run outlives it,
one-sided halts, stripping of references at page boundaries, the cursor
reset after a restore, and clocks of the two sides that disagree.

`MirrorQueue` sees a run as "carried over the writes committed before it began"
and models the queue's worker, the retry timer, account routes that run the
mirror directly, `syncInFlight`, both leases with expiry and takeover, also while the
run that held the lease goes on, the persistent flag, and crashes. Every route calls
`queueRemoteSyncAfter` without an earlier result (`remoteSync` is `undefined` at all of
its calls in `hono.ts`), so that what it does with one is never reached. `syncRemoteBestEffort` clears the flag even if a
write came after its run had begun, and a worker that joins such a run takes its
outcome for its own; the history variable `excused` marks the writes this
concerns, which wait for the next pull or write.

### Accounts

A route is a list of steps, each one database statement (`SignupSteps`, ...);
steps of other requests and of the mirror's account pass come between them, the
connection to the remote fails, and the process dies. Credentials and profile
are version numbers, an owner's data one bit per side. Window `"signup"`: an
account appears on the remote between a run's copy of the users table and its
list of owners.

### Keyring

What sealed an envelope and what opens it are materials that are compared; the
cryptography itself is not modelled. A password account migrates to a keyring
(`updateUserE2eeKeyring` with its comparison), a browser's workspace is adopted
by an account in the steps of `entity-store-encryption.ts` (notes, the other
tables, commit), passwords change, sessions end, pages are closed at any point, between
the tables of an adoption too: then the notes have one material and the other tables
another. `WorkspaceOpens` is about each envelope: it opens with what the browser stores
or with what signing in brings. That one material opens them all is
`OpensAsAWhole`, which such a stop breaks (`KeyringHalfway.cfg`). Windows: `"otp"`, a
browser with one account's keyring signs in to another with a code; `"touch"`, a
browser still on password material writes.

### NoteEditor

One tab: `Type` starts the 120 ms timer and queues the recovery record; saves
overlap and each goes through create, remember, write, refresh, check and
clear; drafts become notes; navigation flushes; the tab crashes and restores.
Texts are a home and a key count. Windows: `"switch"` (typing while a switch
awaits its flush), `"stale"` (clicking the note on screen while the list is
older), `"overlap"` (moving on while a save is under way), `"clear"` (typing while
the recovery record is checked), `"overtake"` (two saves of a note in either
order), `"lock"` (signing out with unsaved text), `"startup"` (typing before the
record is restored). Nothing syncs here: `NoteSync` has the two together.

### AndroidSync and NotesController

`AndroidSync` is the same protocol on the phone, where a read and the write that
uses it are two statements: each is a step (`using` for the user's operation,
`reading` for the sync's), and the process may die between any two. The rest of
the world is a second device that pushes to `NoteServer`. Its windows are the
user's write between two statements of the sync on the same note (`"prepare"`,
`"mark"`, `"absorb"`, `"delete"`, `"merge"`), deletions of a note whose first push
was not answered (`"first"`), and late resolutions (`"newer"`, `"late"`); the
opposite order, a sync's write inside a user's operation, is always included.

`NotesController` is the screen: `saveJob`, coroutines stopped at each call of the
repository, `isSyncing`, `syncQueued`, `autoSyncJob`, and `SyncWorker` under
`ExistingWorkPolicy.KEEP`. `syncNow` checks `isSyncing`, then asks for the stored key
(`SyncCall`), and only when that answers sets the flag and flushes the timer
(`SyncBegins`), or refreshes and ends the session without touching the flag
(`SyncRefused`). So two syncs may be past the check at once; `syncMutex` then lets one
after the other run, and the first to end resets the flag. `MaxAsking` bounds how many
syncs ask for the key when the timer starts one more. The windows are described in the
module.

## 3. The runs that pass

| Run | Question | Bounds | Distinct states |
|---|---|---|---|
| `change_feed` | Does a paged pull skip or repeat anything, with writers between its queries? Are versions and log sound for any base? Can an account over its limits delete? | 2 notes, active or deleted, 1 device, pages of up to 2, base 0-3, 4 revisions, 1 or 2 accounts | 0.5 M |
| `note_sync` | Is anything lost, taken out of a pending note or wrongly called synced? | 2 devices, 2 notes, batches of 2, 3 edits incl. trash and delete, 3 revisions | 2.0 M |
| `note_sync_delays` | Is anything lost or overwritten unseen with late requests and overlapping saves? Do the devices come to agree? | 2 devices, 1 note, 3 edits, 1 failure, 5 revisions | 1.1 M |
| `mirror` | Does a mirror run merge only, whatever it is cut off by? | 2 records, 3 edits, pages of 2, 1 cut-off run | 1.0 M |
| `mirror_queue` | Is every write mirrored in the end? | 2 writes, 2 calls at a place, 2 troubles | 0.4 M |
| `notebooks` | Are names unique and references repaired? | 2 devices, 2 notebooks, 1 note, 2 names, 3 operations, 2 clean-ups, 2 losses | 2.1 M |
| `keyring` | Do password, keyring, notes and each envelope of the tables keep opening each other? | 2 accounts, one on a password, 2 browsers, 1 record, 2 passwords, 3 keys, 2 edits, 1 stop | 2.9 M |
| `accounts` | Do the two databases agree on accounts, and is the mirror never blocked? | 1 account, 2 devices, 3 requests, 2 failures | 0.2 M |
| `editor` | Is typed text stored, in its own note? | 2 notes, 3 keys, 2 moves, 2 crashes | 0.4 M |
| `android_sync` | As `note_sync`, with every statement a step | 2 notes, 3 edits, batches of 2, 1 death | 3.2 M |
| `android_controller` | Does the phone's screen store and sync what is typed? | 2 notes, 2 keys, 1 tap, 1 pull or failure, 1 sync that asks for the key | 0.9 M |

*Why the bounds are enough for the cases at stake.* A conflict needs two devices
and two edits; the third edit is the one made while the first is under way, or
on top of a refused one. A version can be reused wrongly only by a purge and a
return over the tombstone: push, purge, push and one more push, hence four
revisions in `change_feed`. Its budget is enough for one account with two notes and for two
accounts with one each, so that a sign-up puts an account over its limits. A page boundary that matters needs two notes with an
entry each and one more entry; a batch shows its interplay with two notes.
`MaxRevision` stops a push or a purge that would pass it: this hides no safety
violation within the bound, but would look like a server that never answers, so
the liveness run has room for every push its edits can lead to. A mirror run
goes wrong with an edit on each side and one more in between. A lost wakeup
needs one write during the run of another. A notebook name clashes with two
notebooks, and its repair is missed with one note and a lost answer. Keys race
with two browsers and one account that migrates; the second account is the wrong
one to adopt. Screens need two notes, two saves under way and a key between them. Edits are
numbered in the order they are made; symmetry is used for interchangeable notes
and devices in safety runs only.

Two more configurations pass and are kept for what they open: `NoteSyncOvertaken.cfg`
(`MCNoteSync`, 1.2 M distinct states) checks `OnlyOvertakenChange` with edits inside
merges, in conflicts just stored, and late choices; `ControllerOverlap.cfg`
(`NotesController`, 4.0 M) checks the phone's invariants with two syncs that ask for
the key at once, too many states for `EventuallySynced`.

Deadlock is checked except in `notebooks`, `keyring`, `accounts`, `editor` and
`android_controller`, where users may simply have used up their operations.

**Fairness.** `NoteSyncLive`: weak fairness of each device's sync steps, since a
visible page starts a sync every minute (`page-controller.svelte.ts` 143,
468-472) and a running one goes on unless it fails; failures are bounded.
`MirrorQueue`: the event loop goes on, leases of a dead process expire, the
other process ends its runs, and open clients pull every minute, which queues a
run (`Pull`). `Accounts`: handlers and runs that were started go on, and a run is
queued again. `NoteEditor` and `NotesController`: timers fire, coroutines and
queued database operations go on, a crashed tab is opened again (`Reopen`). Nothing is
assumed of users, of the process that dies, or of requests that were given up.

**What each property is about.**

* `VersionNamesOneRecord`: comparing base versions is sound across purge and
  return. `LogMatchesStore`: what the pull trusts is true.
* `CursorCoversStore`, `PagesAdvance`, `NeverOlder`: no change is skipped and no
  copy taken back, whatever commits between the queries.
* `AlwaysRoomToDelete`: an account that is over its limits, by whatever others, the log,
  tombstones or versions take, can always delete notes, and such a push is accepted.
* `NoEditLost` (web and phone): every edit is still in a note, an open conflict
  or on the server, unless a user gave it up.
* `NeverSilentlyOverwritten` (web and phone): the server's rows change only to
  text written with the replaced one in view. `BaseMeansSeen` is the reason: a
  device that names the current version has what it holds.
* `PendingEditsStay`: a pull takes nothing out of a pending or conflicted note, as long
  as no edit falls inside a merge; `OnlyOvertakenChange` says what holds even then: only
  a write over a record that changed since it was read takes anything out.
* `SyncedMeansServerCopy`: no clean note behind the cursor differs from the
  server's. `NoOwnConflict`: lost answers are absorbed. `ConflictShowsNote`: a
  note in conflict is shown as it is.
* `EventuallyAgree`: from some point on every note without an open conflict is
  the same everywhere.
* `CursorHonest`, `AgreeAfterRun`, `MergesOnly`; `NoLostWakeup`,
  `EventuallyMirrored`: the mirror, its runs and its queue.
* `NamesUnique`, `NoDanglingRefs`: notebooks.
* `MirrorNeverBlocked`, `AccountsAgree`, `DeletionCompletes`: accounts.
* `PasswordUnwraps`, `NotesOpen`, `WorkspaceOpens`, `DataKeyKept`: keys.
* `OwnText`, `TypedSurvives`, `QuietEditorIsStored`, `TypedIsStored`,
  `NothingLost`, `QuietScreenIsStored`, `EventuallySynced`: the screens.

Type invariants (`ServerTypeOK`, `SyncTypeOK`, ...) stand in each module. Those of
the store, the feed, the mirror queue, the keyring (`KeyringAlwaysTyped`) and the
phone (`PhoneTyped`) are proved, the mirror's are part of its invariant, and the
note sync's device types are part of `SyncInvariant`.

## 4. Where the code and its documentation disagree

`android_mark` is a run of the project that is expected to end in a violation
(`NewerEditStaysPending`): on the phone `markAcceptedChanges` reads a note,
compares it with what was pushed and writes the marked copy in another
statement. An edit saved between the two is replaced and marked as synced, while
`docs/conflict-handling.md` 18-20 says that clients compare atomically.

The following configurations each open one window, and show the behaviour
behind it:

| Configuration | Module | Violates | What happens |
|---|---|---|---|
| `EditorOverwrites.cfg` | `MCNoteSync` | `NeverSilentlyOverwritten` | A sync replaces the open note; the text stays on the screen; the next keystroke saves the old text on the new version, and the server accepts it. The overwritten text survives only in `note_versions`. |
| `MergeRace.cfg` | `MCNoteSync` | `PendingEditsStay` | An edit saved between the read and the put of `mergeRemoteNote` is replaced. |
| `LateRemote.cfg` | `MCNoteSync` | `SyncedMeansServerCopy` | A pull passes over a note in conflict and moves the cursor; taking the stored remote side later leaves an older version marked as synced. |
| `StaleConflict.cfg` | `MCNoteSync` | `NoEditLost` | Typing between `saveConflict` and the dialog is replaced by the stored local side. |
| `PushRetry.cfg` | `MCNoteSync` | `AcceptanceOrConflict` | The answer's lists outlive a rolled-back attempt: one note is both accepted and refused. |
| `MirrorOverwrites.cfg` | `MCMirror` | `NothingOverwritten` | A run deletes a record it planned to delete although it was written since (`docs/operations.md` 62: it stops instead of choosing). |
| `NotebookAssignments.cfg` | `MCNotebookSync` | `AssignmentsKept` | References to a notebook whose name was refused are stripped before the user chooses (`docs/conflict-handling.md` 43). |
| `NotebookLate.cfg` | `MCNotebookSync` | `NoDanglingRefs` | The timer syncs with a conflict open; the remote side, taken after its deletion was pulled, is stored as it was, and a note keeps a reference to a notebook that is gone (`docs/conflict-handling.md` 37-40, `docs/sync-protocol.md` 154-157: no orphaned links). |
| `KeyringHalfway.cfg` | `MCKeyring` | `OpensAsAWhole` | A page that goes between the tables of an adoption leaves notes under the new material and the rest under the old; `preflightLocalWorkspaceAdoption` then finds records it cannot read at every sign-in of that browser. |
| `KeyringTouch.cfg` | `MCKeyring` | `NotesOpen` | A browser still on password material writes after the account migrated and the password changed (`encryption-keyring.ts` 406-423). |
| `AccountsBlocked.cfg` | `Accounts` | `MirrorNeverBlocked` | A run lists the owners of an account it has not copied, writes its data, and every later run stops at its check. |
| `EditorSwitch.cfg` | `NoteEditor` | `OwnText` | Typing while a switch awaits its flush: the new timer saves the next note's text into the old one (`editor.ts` 64-82). |
| `ControllerSwitch.cfg`, `ControllerUnseen.cfg` | `NotesController` | `OwnText`, `NothingLost` | On the phone: a save or refresh under way brings `selectedNote` back under another note's text; a background sync changes the note on screen and the next save puts the older text back. |

Further things met while modelling, outside what the models check: the request
of `downloadRecoveryKit` sends a keyring without a proof, which the route always
refuses (`security.ts` 58-85, `hono.ts` 1783-1793); a password changed on the
server while the local setup fails is reported and left (`security.ts`); an
archive import on the phone that runs outside a sync is followed by no sync
(`NotesController.kt` 1786-1828); a note that is deleted on the phone, or by another
device, between the read and the end of `openNote` (`NotesController.kt` 730-742)
leaves its text on the screen, as the text of a draft (the windows `"late"` and
`"gone"`, which two taps or a pull can hit).

## 5. What is proved

Eight modules hold theorems. They are about the specifications for *any* values
of the constants that satisfy the assumptions the modules declare; TLC evaluates
those assumptions in the runs. Each follows the same plan: an inductive
invariant, one lemma per action that preserves it, and a last temporal step.

*The store* (`NoteServerProofs`). `VersionIdentity`, `LogAgreement`,
`VersionsForward`, `ServerTypeCorrect`. `ServerInv` adds `IssuedSoFar` (no version
given out exceeds the note's current one, so that the next one is new),
`LogOrdered` (revisions are distinct and at most `lastRev`), `NewestKept`
(compaction leaves an entry of each logged note) and `RowOrTombstone`. The lemma
about a push is stated for any batch of changes, so that it serves `ChangeFeed`
and `NoteSync`, which both build on these transactions.

*The limits* (in `NoteSyncProofs`). `LimitsOnlyRefuse`: a server with limits takes
only steps a server without them could take, so every theorem about the store holds of it.
`DeletingAlwaysPasses` (`AlwaysRoomToDelete`): whoever deletes only active notes makes both
projections smaller, and the versions it names are current, so nothing of it is
refused after it passed. `PushesKeepTheLimit` (`LimitHolds`): a push that passes
leaves at most the notes the limit allows, or fewer than there were, for any
batch, provided none of its deletions is stale. Without that condition it is false, and TLC
finds why: the estimate counts a deletion as room before anything is known of its
version, so a stale deletion, refused afterwards, pays for the notes sent with it
and the account grows past its limit. (`docs/sync-protocol.md` 25 asks for
version-matched deletions only for the way out, not for the estimate.)

*The pull* (also in `NoteSyncProofs`). `NoChangeSkipped`, `PullsAdvance`,
`CopiesMoveForward`. `FeedInv` adds what a pull in each phase owes the notes its
page covers: revisions come from one counter and no query reads past the revision the
pull started from, so a note with a later entry is owed nothing, and a covered
note has not changed since.

*The sync* (`NoteSyncProofs`). `EditsKept` (`NoEditLost`), `BasesSeen`
(`BaseMeansSeen`), `NoConflictWithOneself` (`NoOwnConflict`), `ServerTextKept`
(`NeverSilentlyOverwritten`) and
`StoreUnderSync`, for any number of devices, notes and edits, under
`Closed`: the windows `"merge"`, `"conflict"` and `"orphan"` are not open
(`"late"` may be open, and `SyncSpec` has no steps for the others). That a request handled
after its client gave up does no harm is therefore checked by TLC only
(`note_sync_delays`). `OnlyOvertakenNotesChange` needs none of this: whichever windows
are open, a note that waits or is in conflict loses something only where a sync writes
over a record that changed since it read it. Its invariant, `TypesInv`, says no more
than what kind of thing each phase of a sync has in hand. With the race excluded,
`PendingEditsStay` is a consequence of `SyncInv` (`PendingKept`). `NoEditLost` alone is far from inductive. `SyncInv` says what
every copy of a note that is under way claims about the server:

* `Seen(n, v, text)`: whoever names the server's current version has in view
  what the server holds. It holds of every local record's base (`LocalInv`),
  every record sent (`SentInv`), every acceptance (`AnswerInv`), and every record the
  server gave out in a page or a conflict (`Known`).
* `OwnSeen`: a device has in view what it wrote itself, although the answer may
  be lost; this is why its own echo may be absorbed.
* `SentInv` also says that the record that was sent is still there or grew, and
  has no conflict; `AnswerInv` that an acceptance means the server holds the text.
* `ConflictInv`, `RefusedInv`, `PageInv`: a note in conflict is not pending, its text
  is kept in the conflict, and what is stored is at least as new as what the
  device wrote.
* `Kept`: an edit is dropped, on the server, in a record that is not marked as
  synced, or on the local side of a conflict.

`SyncedIsServerCopy` (`SyncedMeansServerCopy`) needs one window more to be closed,
`"late"` (`Strict`; `LateRemote.cfg` shows why), and a second invariant beside
`SyncInv`, `CopiesInv`: a clean note is the server's copy (`Copy`), or the change
that makes it differ is `Coming`: logged past the cursor, past the page while
one is being merged, or among the notes of the page that are not settled yet
(`CleanInv`, `PulledInv`). What a push was told is the server's copy or was
overtaken by a later entry (`TakenInv`, `TheirsInv`), the cursor never passes
an entry of a note that is owed (`CursorInv`), and a local note that names no
version has no copy on the server but its own unanswered push
(`BaselessInv`, `OneAuthor`).

The proof of `SyncInv` splits a step into what it does to the server (`Forward`: a note's
version moves only with its text kept or given up, and not by a device's own hand
behind its back) and to each device (`Good`, `NoteFades`); `Assembled` puts them
together. The invariant was model-checked on small instances before it was
proved.

*The mirror* (`MirrorProofs`). `CursorsHonest` (`CursorHonest`) and
`MirrorMerges`: `MirrorSpec` implements `Replicas` (`MergesOnly`), and `RunsAgree`
(`AgreeAfterRun`), for any records, edits, page limit and cut-off runs, under
`Closed`: clients hit neither window (`MirrorOverwrites` shows what happens when
they do). `MirrorInv` says what the run under way still owes to either side:

* `PassInv`, `TouchedInv`: the cursors of the run are those it began with or
  saved since, and a record the pass wrote is on the source too. With
  `CursorHonest` this is what makes `NoUnmirroredChange` sound: a record of the
  target that was last logged up to the source's cursor, or was written by
  the pass, has nothing the source lacks (`SettledHeld`).
* `PulledInv`, `PlanInv`: a record that is copied incorporates what the
  target had when it named its base (`CopyInv`; the push goes through only with
  equal edits or while that base is current), a record deleted on the source
  is not live there and not settled on the target, and the target's part of a
  deletion is contained in the source's.
* `PageInv`: every live record of the source between the two cursors is in the
  page as it is, then planned as it is or already held, then held. It is why
  saving the cursor keeps it honest.

Clients, retention and compaction between the steps are one lemma (`BesideRun`):
a record stays, or grows and is logged beyond every cursor. `MirrorInv` was
model-checked on the instance of the `mirror` run before it was proved.

`RunsAgree` needs a second invariant beside it, `AgreeInv`, which was checked with up
to six edits of one record. `LevelInv`: a record that both cursors cover is active on
both sides or on neither. `OwedInv`: it stays so because a page gives every record
it covers what the source has, a copy or a deletion, unless the target logged a
change since it was last carried over. `QuietInv`: in a run without writers all that
a page writes agrees afterwards, so that what the first pass did not bring into
agreement is behind one cursor after it, behind both after the second pass, and agrees
by `LevelInv` and `CursorHonest`; the third pass keeps that. What agrees is what is
active. A deleted row may face a tombstone until the next run: `pushChanges` gives a
record that goes over a tombstone the tombstone's next version and not the copy's
own, after which two deleted rows can differ and only the source's is removed.

*The mirror queue* (also in `MirrorProofs`). `WakeupsKept` (`NoLostWakeup`) and
`QueueTypeCorrect`. `NoLostWakeup` is inductive beside the type invariant: every
step that consumes one reason for a run leaves another.

*Accounts* (`AccountsKeyringProofs`). `MirrorStaysOpen` (`MirrorNeverBlocked`), for any
users, devices, requests and failures, with the window `"signup"` (of `Unguarded`) closed (section 4
shows the violation when it is open), and `DeletedForGood`: an account that was
deleted never comes back on the remote. What is assumed besides is that no user has
the name that stands for "no session". The invariant `AccountsInv`:

* `StepsInv`: what is left of a request keeps the order of its route, so that a step
  that relies on a row comes directly after the one that saw it or wrote it
  (`Follows`), also when a wait for a run is put in front.
* `RequestsInv`, `SessionsInv`: the row a request's next step relies on, and the local
  row of a session, are there unless the account was deleted. They survive any
  step of another request or of a run because none takes a row from an account
  without leaving a tombstone (`Grows`).
* `RunInv`: in a pass from the remote, every remote account has its local row or is
  still to be copied, from the copy of the accounts to the list of owners. This is
  what a sign-up in the window breaks.

The proof found that a run's end was written with two overlapping arms of a CASE,
which TLC evaluates in order and TLA+ leaves open; it is an IF now.

*Keys* (also in `AccountsKeyringProofs`). `PasswordAlwaysUnwraps`, `DataKeyAlwaysKept` and
`KeysAlwaysAgree`, with the window `"otp"` closed: whatever keyring material a
browser stores or holds during a sign-in is what the account's keyring holds.
`UnreadableOnlyByPassword` keeps `"touch"` open: a note the account's keyring
does not open was written by a browser that was still on password material; nothing else
that overlaps leaves one. `NotesAlwaysOpen` (`NotesOpen`) and `WorkspaceAlwaysOpens`
(`WorkspaceOpens`) close `"touch"` too, which breaks both. None of these excludes a page
that goes in the middle of an adoption, and what they say of a browser's tables is
said of each envelope. The invariant `OpenInv` says
what every sealed thing was sealed with (`Readable`): an envelope on the server,
with the data key once there is one, or by a browser on password material (`GoodShelf`,
`Touched`, `Reads`); each envelope in a browser's tables, with the
material it stores or with what it could derive again by signing in (`AtHand`,
`Reachable`, `OpenNow`); and an adoption under way knows which tables it has re-encrypted
and which materials the others need (`Adopting`). That the old material stays derivable while another browser
migrates the account or changes its password is the lemma `AccountsGrow`.

*The phone* (`AndroidSyncProofs`). `EditsKept` (`NoEditLost`),
`NothingOverwrittenUnseen` (`NeverSilentlyOverwritten`), `ConflictsShown`
(`ConflictShowsNote`), `NoConflictWithOneself` and `PhoneTyped`, for any notes,
edits and failures, with all windows closed: no write of the user falls between two statements of the
sync on the same note (`android_mark` shows what one does), while the sync's statements may
fall anywhere in an operation of the user. `PhoneInv` makes the same claims about
copies of a note as `SyncInv` does, and more, because here every statement is
a step of its own and operations are not serialised with the sync:

* `Phase`: what a sync has read is still there when it writes it back, which is what
  the closed windows amount to, and all its lists are empty outside their phase.
* `UsingInv`: the row an operation has read names no more than it knows, and
  what stands in its place by the time it is written has nothing more that is not on
  the server. So its write may go over whatever the sync wrote in between.
* A note in conflict may be edited, pushed and refused again: `SentInv` allows
  it, and `ShownInv` finds the conflict that shows it among several.
* `ResolvingInv`: until the chosen record is written, what it will replace is on
  one of the two sides or given up with the choice. A resolution cut off between its
  writes is offered again, with the same sides.
* `Kept`: a conflict keeps its local side until its last write.

`SyncedIsServerCopy` (`SyncedMeansServerCopy`) adds `CopiesInv`, which has the parts
it has for the web client and two that come from this program's own order of steps:
the copy that "duplicate both" makes of a side that was deleted is a deleted
note that names no version (`Stillborn`), and has to vanish before it is pushed
(`StillbornInv`); and an operation never has a deleted row in hand (`AliveInv`),
because otherwise an edit could bring such a note into a push.

*The editor* (`NoteEditorProofs`). `NotesHoldOwnText` (`OwnText`),
`TypedTextSurvives` (`TypedSurvives`), `QuietEditorStored` (`QuietEditorIsStored`)
and `EditorTyped`, for any notes, keystrokes, switches and crashes, each as far as the windows named below
are closed. The proof needs
two invariants, for two kinds of windows.

`EditorInv` says whose text is where, and holds with `"stale"`, `"clear"` and
`"overtake"` open (`OwnClosed`): these delay or repeat a save, and TLC finds that
each of the other four breaks `OwnText`.

* `BornInv`, `NextInv`, `CreatingInv`: at most one draft is being created, it is
  the one on screen, and some save of it has still to write. This is what makes it
  sound that `saveEditorNow` joins the creation under way instead of asking whose it is.
* `DraftInv`, `OwnSaves`: all saves under way are of the session on screen, go to
  the note on screen or to the one the draft becomes, and carry its text.
* `AwaitInv`, `UniqueOpsInv`: the recovery queue has at most one operation of a save,
  and the save waits for exactly that one, so what an operation finds when its turn
  comes is its own save.

`TypedInv` needs all windows closed (`Closed`), and TLC finds that each of the
seven breaks `TypedSurvives` or `QuietEditorIsStored`. It is about order. Keystrokes are
numbered, and `SinceInv` says that there is always a number up to which everything
the row and its queue have had is in the notes table, while all later texts
were typed on the screen as it is now. `ScreenInv` and `WrittenInv` say the same of
the saves: oldest text first, each at least as new as what its note has until it
writes. From these follow

* `DeleteInv`: when the row is deleted, all that it held is stored. The
  check before has compared texts and not versions; that this is enough is
  `CheckRecovers`: the row has the newest text, so a match means that the save
  under way has stored it.
* `HeldInv`: what the row has had is stored or still held, also while
  `rememberEditorRecoveryNoteId` puts the row a second time with the note's id.
* `QuietInv`, `FreshInv`: what is on screen is stored or about to be, and the list a
  click reads from lags only for the note on screen.

Both invariants were model-checked on the instance of the `editor` run, and on one
with four keystrokes and one crash.

*The phone's screen* (`NotesControllerProofs`). `OwnTextAlways` (`OwnText`),
`NothingLostAlways` (`NothingLost`) and `QuietScreenIsStoredAlways`
(`QuietScreenIsStored`), for any notes, keystrokes, taps, pulls and failures, with all
windows closed but `"archive"` and `"fail"`, which are about what is synced
(`EventuallySynced`). Each of the other eight breaks one of the three: TLC finds it
with three keys and two taps. `ControllerInv` relates the screen and the table through the
coroutines under way:

* `ScreenInv`: unless a coroutine is about to show another note (`Leaving`), the text on
  screen is of the selected note or the draft (`Fits`), that note is not deleted, and what
  is not yet stored is in a save under way (`Unwritten`) or waits for the timer.
  While a call leaves, the screen may show a note that is gone; a timer that is set means
  that none does (`SetStays`).
* `WriteInv`, `PairInv`: all saves under way are of the selected note; each has what the
  table has and what the saves before it have, so that a save never takes
  anything back; and one tap is carried out at a time.
* `ReadInv`: a table read earlier (`Past`) has no more of a note than the table now, and
  no refresh beside a save selects another note (`Steady`), except when a tap
  that opens another note has flushed that save itself.
* `Staged`: what a coroutine waits for goes with what it is for. `restore` and `import` do
  not flush, so that a timer may be set while they are carried out; the note they open
  afterwards flushes it.

The proof found two steps that were not guarded by the window they belong to: a second
tap while one is carried out, and a deletion pulled between the read and the
end of `openNote` (section 4).

*Notebooks* (`NotebookSyncProofs`). `NamesAlwaysUnique` (`NamesUnique`), for any
devices, notebooks, names, orders of a request and bounds. After every decision of a
request (`DecidedSoFar`) the notebooks that are active are the ones this request has
written and the ones it has not yet come to, and no two of them have one name; that
it holds after all of them is shown by the least number of decisions after which it
would not (`LeastNumber`), which needs no induction rule.

`ReferencesRepaired` (`NoDanglingRefs`) says that the references of notes are repaired,
although no process watches over them, with syncs going on while conflicts are open, and
under `Closed`: nobody takes a remote side that is no longer the server's (window
`"late"`; `NotebookLate.cfg` shows what that does). It works because the end of a notebook is brought to a device
once, the repair comes after the merge, and the server refuses nothing because of a
reference. The inductive invariant `RefsAllInv` says who still has to act:

* `RefsInv`: the server's row of a note refers to a notebook that is gone only if the
  device that filed the note last still owes it a look (`Owed`): the end of the
  notebook is still to come to it, or it will send the note again, or it has the
  notebook unsettled and will be answered, or its repair is the next step. That it is
  the *last* device that owes this, and not every one, is why a push of another device
  may overtake.
* `CopyInv`: a clean note is the server's row or that row is still to come, as far as
  `Reach` says: between the merge and the repair the copies are ahead of the cursor.
* `ConflictsInv`: what is marked as in conflict has a row in the dialog, and a note's
  server row is then another device's, so that the device which filed the note is
  never the one whose repair skips it.
* `DeletionInv` and `DeletionsApart`: a deletion the device has not settled is not
  the one the server has, unless its answer was lost; then the pull brings it back.
  Two devices never make the same deletion, since each has its own time. Without the
  time in the content a device's repeated deletion would be taken for another's, the
  merge would leave its row pending and the repair would pass it by.
* `StillbornInv`: a notebook deleted before it was ever sent (the copy of a deleted
  side) vanishes in the push, so it owes nothing in the rest of the sync.

`NotebookStepKeepsRefs` has one lemma per step; those of the push say first what every
decision of the request leaves (`DecidedWell`) and what each answer does to the record
it is about (`AnsweredFacts`). `SettledRefs` then finds nobody to whom anything is
owed. `NotebooksTyped` (`NotebookTypeOK`) comes with the same invariant. The proof
assumes that `None` is not a record (`NoneAssumption`).

*Only model-checked.* Liveness (`EventuallyAgree`, `EventuallyMirrored`,
`AccountsAgree`, `DeletionCompletes`, `TypedIsStored`, `EventuallySynced`): fairness
is out of the prover's reach. The bounds on the version numbers of `Accounts`.

## 6. What is not modelled, and why

* *The IndexedDB lease* that replaces the Web Lock where browsers lack it. The
  modelled client runs one sync at a time. Two tabs that both believe to hold
  the lease are not excluded by the code between two fencing checks.
* *A server restored from a backup*: the cursor reset of clients and mirrors.
  The logs of these models only grow.
* *Challenges, one-time codes, rate limits, session expiry, invitations*: they
  refuse requests before the modelled steps, and appear as nondeterministic
  refusal or not at all. Payload validation likewise.
* *The recovery kit*: no screen offers to open its box.
* *Simplifications of the sync*: `mergeRemoteNote` re-publishes a clean note whose
  envelope is older than the stored keys (`sync-store.ts` 469-486), which `MergeClean`
  leaves out because encryption is not seen; `absorbSameDevicePushConflict` is one step
  in `NoteSync`, and a read and a write in `AndroidSync`.
* *Two mirror runs at once*: `MirrorQueue` has a lease taken over while its run goes on,
  `Mirror` does not say what the two write.
* *Android*: notebooks, which follow functions of the shape the notes have;
  republishing of notes whose encryption changed; migration of old databases;
  two operations of the user on one note at once; undo, bulk taps and exports.
* *Version snapshots* (`note_versions`) and their pruning, local snapshots,
  favourites (edits like any other), archives, queries, diagnostics, backups,
  rendering, service worker, build and deployment: they hold no state of the
  protocol, or only copies of it.

Worth doing next: the lease with two tabs.
