--------------------------- MODULE NotesController ---------------------------
(***************************************************************************)
(* The editor of the Android app and the scheduling of its syncs           *)
(* (ui/state/NotesController.kt, core/SyncWorker.kt).                      *)
(*                                                                         *)
(* Everything here runs on the main thread, as coroutines that stop at     *)
(* each call of the repository; "calls" holds those under way, each with   *)
(* where it stopped.  A read of the database and the use of what it read   *)
(* are two steps, a write and what follows it is one.  What a sync does to *)
(* a single note is AndroidSync's; here a sync is the notes it read as     *)
(* pending, the changes it pulls, and its end.                             *)
(*                                                                         *)
(* A text is the set of its marks: a mark is what one keystroke typed or   *)
(* one change of another device added, with the note (a positive home) or  *)
(* the draft (a negative one) it was made in.  Undo and redo type an       *)
(* earlier text again and are left out.                                    *)
(***************************************************************************)
EXTENDS Integers, SequencesExt

CONSTANTS
    Initial,      \* notes 1 .. Initial are there from the start, synced, all but
                  \* the first in the trash
    MaxKeys,      \* bound on keystrokes
    MaxMoves,     \* bound on taps: opening, creating, trashing, importing, ...
    MaxTroubles,  \* bound on changes of other devices and syncs that fail, together
    MaxAsking,    \* bound on the syncs that ask for the key when the timer starts one
    Loose         \* what may happen in a window the program leaves open

(***************************************************************************)
(* The windows:                                                            *)
(*   "switch"   another note is shown while a save or a refresh of the     *)
(*              last one is under way, and selectedNote goes back to it    *)
(*              under the text of the new one                              *)
(*   "stale"    a save starts while a refresh is under way, or the other   *)
(*              way round: the refresh shows the text from before          *)
(*   "draft"    typing goes on while a draft's note is created: the next   *)
(*              save creates a second one                                  *)
(*   "late"     typing goes on, or the next tap is made, while a tap is    *)
(*              carried out: a note that is deleted while it is opened     *)
(*              leaves its text on the screen, as a draft                  *)
(*   "unseen"   a note on screen is changed by a sync, and edited before a *)
(*              refresh has shown the change (SyncWorker brings no refresh)*)
(*   "gone"     a note is deleted remotely while it is being edited or     *)
(*              opened                                                     *)
(*   "overtake" two saves of a note under way reach the database in either *)
(*              order                                                      *)
(*   "closing"  the activity is destroyed while a save is under way: the   *)
(*              flush of close finds no timer, and the save is cancelled   *)
(*   "archive"  an import runs outside a sync that completes: no sync      *)
(*              follows (isArchiveBusy is reset after                      *)
(*              scheduleSyncAfterLocalChange, and nothing reads syncQueued)*)
(*   "fail"     a sync of the foreground fails and no background work is   *)
(*              left that would read what is pending: it runs already, so  *)
(*              ExistingWorkPolicy.KEEP dropped the new one, and the end   *)
(*              of a failed sync resets syncQueued                         *)
(***************************************************************************)
Window == {"switch", "stale", "draft", "late", "unseen", "gone", "overtake",
           "closing", "archive", "fail"}

ASSUME ControllerAssumption ==
    /\ {Initial, MaxKeys, MaxMoves, MaxTroubles, MaxAsking} \subseteq Nat
    /\ Loose \subseteq Window

VARIABLES
    rows,       \* notes table, by id: text, life, pending, known to the server
    born,       \* history: the home a note's first text was typed in
    sel,        \* selectedNote, or Draft
    session,    \* history: how many drafts there were
    value,      \* titleValue and bodyValue
    job,        \* saveJob
    calls,      \* coroutines under way
    syncing,    \* isSyncing
    queued,     \* syncQueued
    counted,    \* pendingSyncCount > 0
    auto,       \* autoSyncJob
    hasToken,
    archive,    \* isArchiveBusy
    worker,     \* the unique background work: "none", "waiting", "running"
    holder,     \* who holds syncMutex: "none", "ui", "worker"
    sent,       \* the pending notes that sync read, by id
    weak,       \* history: which of the two kinds of sync has failed, "ui", "worker"
                \* or "none" yet; the other one does not
    keys, moves, pulls, failures,
    made,       \* history: the marks made so far
    deleted     \* history: the marks of notes deleted for good

screen == <<sel, session, value, job>>
flags == <<syncing, queued, counted, auto, hasToken, archive>>
runs == <<worker, holder, sent, weak>>
counters == <<keys, moves, pulls, failures>>
history == <<made, deleted, born>>
controllerVars == <<rows, screen, calls, flags, runs, counters, history>>

Draft == 0
Gone == [text |-> {}, life |-> "deleted", pending |-> FALSE, known |-> TRUE]
Has(id) == id \in DOMAIN rows
Row(id) == IF Has(id) THEN rows[id] ELSE Gone
Shown(row) == row.life # "deleted"
Pending == {id \in DOMAIN rows : rows[id].pending}
Here == IF sel = Draft THEN -session ELSE sel
NextId == Len(born) + 1
WithRow(id, row) == [i \in DOMAIN rows \union {id} |-> IF i = id THEN row ELSE rows[i]]
Nothing == [i \in {} |-> Gone]
NoShot == [id |-> Draft, rows |-> Nothing]

(***************************************************************************)
(* Coroutines.  "then" is what the coroutine is for and "arg" the note it  *)
(* is for, "at" the call it waits for; "note" and "text" are those of the  *)
(* save it makes, "shot" what its refresh read, "ok" how its sync ended.   *)
(***************************************************************************)
First(then) ==
    CASE then = "open" -> "load" [] then = "draft" -> "show"
      [] then = "sync" -> "lock" [] then = "start" -> "read"
      [] then = "save" -> "done" [] OTHER -> "change"

Call(then, arg) ==
    [then |-> then, arg |-> arg, at |-> First(then), note |-> Draft, text |-> {},
     shot |-> NoShot, ok |-> "yes"]

Saves_NotDrafts(s, v) == s # Draft
(* A save of an empty draft does nothing. *)
Saves(s, v) == s # Draft \/ v # {}

Flushing_IntoNext(c, s, v) ==
    IF job # "off" /\ Saves(s, v)
    THEN [c EXCEPT !.at = "write", !.note = IF c.then = "open" THEN c.arg ELSE s, !.text = v]
    ELSE c
(* flushPendingSave, and then the coroutine's own calls. *)
Flushing(c, s, v) ==
    IF job # "off" /\ Saves(s, v) THEN [c EXCEPT !.at = "write", !.note = s, !.text = v]
    ELSE c
Flushed == job' = "off"

Add(c) == calls' = IF c.at = "done" THEN calls ELSE Append(calls, c)
Step(i, c) == calls' = IF c.at = "done" THEN RemoveAt(calls, i) ELSE [calls EXCEPT ![i] = c]
Under(stages) == \E i \in DOMAIN calls : calls[i].at \in stages
Tapped == \E i \in DOMAIN calls : calls[i].then \notin {"save", "sync"}

Trouble == pulls + failures < MaxTroubles

(* A save may start: no refresh is under way that would show an older text. *)
MaySave == "stale" \in Loose \/ ~Under({"apply", "reapply"})

(* Another note may be shown: no other call would select the last one again. *)
MayShow(i) ==
    "switch" \in Loose \/ \A j \in DOMAIN calls \ {i} :
                              calls[j].at \notin {"write", "apply", "reapply"}

(***************************************************************************)
(* Scheduling a sync.                                                      *)
(***************************************************************************)
Scheduled_NotWhileSyncing ==
    IF ~hasToken \/ archive \/ syncing THEN UNCHANGED <<queued, worker, auto>>
    ELSE /\ worker' = IF worker = "none" THEN "waiting" ELSE worker
         /\ auto' = TRUE /\ UNCHANGED queued

(* scheduleSyncAfterLocalChange. *)
Scheduled ==
    IF ~hasToken THEN UNCHANGED <<queued, worker, auto>>
    ELSE IF archive THEN queued' = TRUE /\ UNCHANGED <<worker, auto>>
    ELSE /\ worker' = IF worker = "none" THEN "waiting" ELSE worker
         /\ IF syncing THEN queued' = TRUE /\ UNCHANGED auto
            ELSE auto' = TRUE /\ UNCHANGED queued

(* syncNow up to its first call, which asks for the stored key: isSyncing is set
   only when that has answered, so two syncs may get past their check of it. *)
SyncCall == [Call("sync", Draft) EXCEPT !.at = "key"]

SyncNow(rest) ==
    IF hasToken' /\ ~archive /\ ~syncing
    THEN calls' = Append(rest, SyncCall) /\ UNCHANGED queued
    ELSE /\ queued' = (queued \/ archive \/ (hasToken' /\ syncing))
         /\ calls' = rest

AutoSync ==
    /\ auto
    /\ Cardinality({i \in DOMAIN calls : calls[i].at = "key"}) < MaxAsking
    /\ auto' = FALSE
    /\ UNCHANGED <<rows, screen, syncing, counted, hasToken, archive, runs, counters,
                   history>>
    /\ SyncNow(calls)

(***************************************************************************)
(* Typing and saving.                                                      *)
(***************************************************************************)
MayType ==
    /\ sel # Draft => Row(sel).life = "active"
    /\ "late" \in Loose \/ ~Tapped
    /\ "draft" \in Loose \/ \A i \in DOMAIN calls : calls[i].at = "write" => calls[i].note # Draft
    /\ "unseen" \in Loose \/ (sel # Draft => Row(sel).text \subseteq value)

(* updateEditor and scheduleSave. *)
UpdateEditor ==
    /\ keys < MaxKeys /\ MayType
    /\ keys' = keys + 1
    /\ LET mark == [home |-> Here, n |-> keys'] IN
       /\ value' = value \union {mark}
       /\ made' = made \union {mark}
    /\ job' = "set"
    /\ UNCHANGED <<rows, sel, session, calls, flags, runs, moves, pulls, failures,
                   deleted, born>>

(* The 120 ms are over, or lockAppIfEnabled flushes: saveEditorNow. *)
SaveTimer ==
    /\ job = "set" /\ MaySave
    /\ Flushed
    /\ Add(Flushing(Call("save", Draft), sel, value))
    /\ UNCHANGED <<rows, sel, session, value, flags, runs, counters, history>>

FirstInLine(i) ==
    \A j \in 1 .. i - 1 : calls[j].at = "write" => calls[j].note # calls[i].note

Resumed(c) == [c EXCEPT !.at = First(c.then), !.note = Draft, !.text = {}]

(* updateNoteContent. *)
SavedRow(row, text) == [row EXCEPT !.text = text, !.pending = TRUE]

(* updateNoteContent or createBlankNote, and what saveEditorNow does then:
   the saved note is selected.  A note that is gone starts a refresh. *)
Write(i) ==
    LET c == calls[i]
        id == IF c.note = Draft THEN NextId ELSE c.note
    IN
    /\ c.at = "write"
    /\ "overtake" \in Loose \/ FirstInLine(i)
    /\ IF c.note # Draft /\ ~Shown(Row(id))
       THEN /\ Step(i, [c EXCEPT !.at = "reread"])
            /\ UNCHANGED <<rows, screen, flags, runs, counters, history>>
       ELSE /\ IF c.note = Draft
               THEN /\ rows' = WithRow(id, [text |-> c.text, life |-> "active",
                                            pending |-> TRUE, known |-> FALSE])
                    /\ born' = Append(born, -session)
               ELSE /\ rows' = WithRow(id, SavedRow(rows[id], c.text))
                    /\ UNCHANGED born
            /\ sel' = id
            /\ counted' = TRUE
            /\ Scheduled
            /\ Step(i, Resumed(c))
            /\ UNCHANGED <<session, value, job, syncing, hasToken, archive, holder, sent,
                           weak, counters, made, deleted>>

(***************************************************************************)
(* Taps.  Restoring and importing do not flush.                            *)
(***************************************************************************)
Tap(then, arg) ==
    /\ moves < MaxMoves
    /\ "late" \in Loose \/ ~Tapped
    /\ moves' = moves + 1
    /\ IF then \in {"restore", "import"}
       THEN Add(Call(then, arg)) /\ UNCHANGED job
       ELSE MaySave /\ Flushed /\ Add(Flushing(Call(then, arg), sel, value))
    /\ archive' = (archive \/ then = "import")
    /\ UNCHANGED <<rows, sel, session, value, syncing, queued, counted, auto, hasToken,
                   runs, keys, pulls, failures, history>>

OpenNote(id) == Shown(Row(id)) /\ Tap("open", id)
NewNote == Tap("draft", Draft)
TrashNote(id) == Row(id).life = "active" /\ Tap("trash", id)
RestoreNote(id) == Row(id).life = "trashed" /\ Tap("restore", id)
DeleteNote(id) == Shown(Row(id)) /\ Tap("delete", id)
ToggleFavorite(id) == Row(id).life = "active" /\ Tap("favorite", id)
ImportMarkdown ==
    /\ ~archive
    /\ "archive" \in Loose \/ (syncing /\ weak # "ui")
    /\ Tap("import", NextId)

(* openNote reads the note; one that is gone makes it a refresh and a draft. *)
LoadNote(i) ==
    LET c == calls[i] IN
    /\ c.at = "load"
    /\ Step(i, IF Has(c.arg)
               THEN [c EXCEPT !.at = "show", !.shot = [id |-> c.arg, rows |-> rows]]
               ELSE [c EXCEPT !.then = "draft", !.at = "reread"])
    /\ UNCHANGED <<rows, screen, flags, runs, counters, history>>

(* The end of openNote, and openDraftNote, which cancels the timer. *)
ShowDraft ==
    /\ sel' = Draft /\ value' = {} /\ session' = session + 1
    /\ job' = IF job = "off" THEN "off" ELSE "cancelled"

Show(i) ==
    LET c == calls[i] IN
    /\ c.at = "show" /\ MayShow(i)
    /\ IF c.then = "draft" THEN ShowDraft
       ELSE /\ sel' = c.arg /\ value' = c.shot.rows[c.arg].text
            /\ UNCHANGED <<session, job>>
    /\ Step(i, [c EXCEPT !.at = "done"])
    /\ UNCHANGED <<rows, flags, runs, counters, history>>

(* The row's new value: moveNoteToTrash, restoreNote, deleteNotePermanently,
   setNoteFavorite. *)
Changed(row, then) ==
    CASE then = "trash" /\ row.life = "active" -> [row EXCEPT !.life = "trashed", !.pending = TRUE]
      [] then = "restore" /\ row.life = "trashed" -> [row EXCEPT !.life = "active", !.pending = TRUE]
      [] then = "delete" -> [row EXCEPT !.life = "deleted", !.pending = TRUE]
      [] then = "favorite" /\ Shown(row) -> [row EXCEPT !.pending = TRUE]
      [] OTHER -> row

(* What a note holds, or will. *)
Made(id) ==
    Row(id).text \union UNION {calls[j].text : j \in {k \in DOMAIN calls : calls[k].note = id}}

Change(i) ==
    LET c == calls[i]
        id == IF c.then = "import" THEN NextId ELSE c.arg
    IN
    /\ c.at = "change"
    /\ IF c.then = "import"
       THEN /\ rows' = WithRow(id, [text |-> {}, life |-> "active", pending |-> TRUE,
                                    known |-> FALSE])
            /\ born' = Append(born, id)
       ELSE /\ rows' = IF ~Has(id) THEN rows
                       ELSE IF c.then = "delete" /\ ~rows[id].known
                       THEN [j \in DOMAIN rows \ {id} |-> rows[j]]
                       ELSE WithRow(id, Changed(rows[id], c.then))
            /\ UNCHANGED born
    /\ deleted' = IF c.then = "delete" THEN deleted \union Made(id) ELSE deleted
    /\ Step(i, [c EXCEPT !.arg = id, !.at = "read", !.ok = IF sel = id THEN "open" ELSE "yes"])
    /\ UNCHANGED <<screen, flags, runs, counters, made>>

(***************************************************************************)
(* refresh: the selected note's id and the workspace are read; then the    *)
(* note is selected again, its text shown unless a save is due.            *)
(***************************************************************************)
ReadWorkspace(i) ==
    LET c == calls[i] IN
    /\ c.at \in {"read", "reread"}
    /\ "stale" \in Loose \/ ~Under({"write"})
    /\ Step(i, [c EXCEPT !.at = IF @ = "read" THEN "apply" ELSE "reapply",
                         !.shot = [id |-> sel, rows |-> rows]])
    /\ UNCHANGED <<rows, screen, flags, runs, counters, history>>

Listed(s, life) == {id \in DOMAIN s.rows : s.rows[id].life = life}
Found(s) == s.id \in Listed(s, "active") \union Listed(s, "trashed")
SelAfter(s) == IF s.id = Draft THEN sel ELSE IF Found(s) THEN s.id ELSE Draft
ValueAfter_Always(s) == IF Found(s) THEN s.rows[s.id].text ELSE value
ValueAfter(s) == IF Found(s) /\ job = "off" THEN s.rows[s.id].text ELSE value
CountAfter(s) == \E id \in DOMAIN s.rows : s.rows[id].pending

Refreshed(s) ==
    /\ sel' = SelAfter(s) /\ value' = ValueAfter(s)
    /\ session' = IF sel # Draft /\ sel' = Draft THEN session + 1 ELSE session
    /\ counted' = CountAfter(s)

(* The refresh of a save whose note is gone, or of an openNote. *)
Reapply(i) ==
    LET c == calls[i] IN
    /\ c.at = "reapply"
    /\ Refreshed(c.shot)
    /\ IF c.note # Draft THEN Scheduled ELSE UNCHANGED <<queued, worker, auto>>
    /\ Step(i, [Resumed(c) EXCEPT !.shot = NoShot])
    /\ UNCHANGED <<rows, job, syncing, hasToken, archive, holder, sent, weak, counters,
                   history>>

(* selectNote, from within a coroutine that ends. *)
Selects(i, id, s, v) ==
    /\ calls' = Append(RemoveAt(calls, i), Flushing(Call("open", id), s, v))
    /\ Flushed

(* The notes shown instead of one that was trashed or deleted. *)
Others(c) ==
    IF c.then = "trash" THEN {Listed(c.shot, "active") \ {c.arg}}
    ELSE {Listed(c.shot, "active"), Listed(c.shot, "trashed")}

(* What follows the refresh of a tap. *)
ApplyTap(i) ==
    LET c == calls[i]
        leaves == \/ c.then = "trash" /\ SelAfter(c.shot) = c.arg
                  \/ c.then = "delete" /\ c.ok = "open"
    IN
    /\ c.at = "apply" /\ c.then \notin {"sync", "start"}
    /\ \/ /\ leaves
          /\ \E S \in Others(c) :
                \/ /\ Refreshed(c.shot)
                   /\ \E id \in S : Selects(i, id, sel', value')
                \/ /\ S = {} /\ MayShow(i)
                   /\ ShowDraft /\ counted' = CountAfter(c.shot)
                   /\ calls' = RemoveAt(calls, i)
       \/ /\ ~leaves /\ Refreshed(c.shot)
          /\ IF c.then \in {"restore", "import"} /\ c.arg \in Listed(c.shot, "active")
             THEN Selects(i, c.arg, sel', value')
             ELSE calls' = RemoveAt(calls, i) /\ UNCHANGED job
    /\ Scheduled
    /\ archive' = (archive /\ c.then # "import")
    /\ UNCHANGED <<rows, syncing, hasToken, holder, sent, weak, counters, history>>

(* The start of the app: resumeSession follows the first refresh. *)
ApplyStart(i) ==
    LET c == calls[i] IN
    /\ c.at = "apply" /\ c.then = "start"
    /\ Refreshed(c.shot)
    /\ UNCHANGED <<rows, job, syncing, auto, hasToken, archive, runs, counters, history>>
    /\ SyncNow(RemoveAt(calls, i))

(***************************************************************************)
(* A sync of the foreground (syncNow) or of SyncWorker; syncMutex lets one *)
(* run at a time.                                                          *)
(***************************************************************************)
TakeMutex(by) ==
    /\ holder = "none"
    /\ holder' = by
    /\ sent' = [id \in Pending |-> rows[id]]

ReleaseMutex == holder' = "none" /\ sent' = Nothing

(* What was accepted is marked, unless it changed since it was read. *)
Accepted ==
    rows' = [id \in DOMAIN rows |->
                IF id \notin DOMAIN sent THEN rows[id]
                ELSE [rows[id] EXCEPT !.known = TRUE, !.pending = @ /\ rows[id] # sent[id]]]

(* The stored key is usable: syncNow goes on with the flush of the timer. *)
SyncBegins(i) ==
    /\ calls[i].at = "key" /\ MaySave
    /\ syncing' = TRUE
    /\ calls' = Append(RemoveAt(calls, i), Flushing(Call("sync", Draft), sel, value))
    /\ Flushed
    /\ UNCHANGED <<rows, sel, session, value, queued, counted, auto, hasToken, archive, runs,
                   counters, history>>

(* It is not, or the workspace does not open with it. *)
SyncRefused(i) ==
    /\ calls[i].at = "key" /\ Trouble
    /\ failures' = failures + 1
    /\ Step(i, [calls[i] EXCEPT !.at = "read", !.ok = "keyless"])
    /\ UNCHANGED <<rows, screen, flags, runs, keys, moves, pulls, history>>

SyncStarts(i) ==
    /\ calls[i].at = "lock"
    /\ TakeMutex("ui")
    /\ Step(i, [calls[i] EXCEPT !.at = "run"])
    /\ UNCHANGED <<rows, screen, flags, worker, weak, counters, history>>

SyncRuns(i) ==
    /\ calls[i].at = "run"
    /\ Accepted /\ ReleaseMutex
    /\ Step(i, [calls[i] EXCEPT !.at = "read"])
    /\ UNCHANGED <<screen, flags, worker, weak, counters, history>>

(* "no" for any failure, "auth" for an AuthException. *)
SyncFails(i) ==
    /\ calls[i].at = "run" /\ weak # "worker" /\ Trouble
    /\ worker = "waiting" \/ Pending = {} \/ "fail" \in Loose
    /\ ~archive \/ "archive" \in Loose
    /\ failures' = failures + 1 /\ weak' = "ui"
    /\ ReleaseMutex
    /\ \E ok \in {"no", "auth"} : Step(i, [calls[i] EXCEPT !.at = "read", !.ok = ok])
    /\ UNCHANGED <<rows, screen, flags, worker, keys, moves, pulls, history>>

ShouldSyncAgain(completed, pending) == completed /\ (queued \/ pending)

(* The finally of syncNow. *)
Finish(completed, pending) ==
    /\ "archive" \in Loose \/ ~archive
    /\ syncing' = FALSE
    /\ IF ShouldSyncAgain(completed, pending) /\ hasToken
       THEN IF archive THEN queued' = TRUE /\ UNCHANGED <<worker, auto>>
            ELSE /\ queued' = FALSE /\ auto' = TRUE
                 /\ worker' = IF worker = "none" THEN "waiting" ELSE worker
       ELSE queued' = FALSE /\ UNCHANGED <<worker, auto>>
    /\ UNCHANGED hasToken

(* clearLocalSession, and after it the finally of a sync that had begun. *)
Expire ==
    /\ "archive" \in Loose \/ ~archive
    /\ queued' = FALSE /\ auto' = FALSE /\ hasToken' = FALSE
    /\ UNCHANGED worker

(* The refresh after a run. *)
ApplySync(i) ==
    LET c == calls[i] IN
    /\ c.at = "apply" /\ c.then = "sync"
    /\ Refreshed(c.shot)
    /\ CASE c.ok = "yes" -> /\ Step(i, [c EXCEPT !.at = "status", !.shot = NoShot])
                            /\ UNCHANGED <<syncing, queued, worker, auto, hasToken>>
         [] c.ok \in {"auth", "keyless"} ->
                /\ Expire /\ Step(i, [c EXCEPT !.at = "done"])
                /\ syncing' = (syncing /\ c.ok = "keyless")
         [] OTHER -> Finish(FALSE, counted') /\ Step(i, [c EXCEPT !.at = "done"])
    /\ UNCHANGED <<rows, job, archive, holder, sent, weak, counters, history>>

(* loadSyncStatus and refreshServerConfigNow answer.  A status that cannot be
   read brings one more refresh, or the end of the session: as SyncFails. *)
Status(i) ==
    LET c == calls[i] IN
    /\ c.at = "status"
    /\ Finish(TRUE, counted)
    /\ Step(i, [c EXCEPT !.at = "done"])
    /\ UNCHANGED <<rows, screen, counted, archive, holder, sent, weak, counters, history>>

(* The end of login. *)
SignIn ==
    /\ ~hasToken /\ moves < MaxMoves
    /\ moves' = moves + 1
    /\ hasToken' = TRUE
    /\ SyncNow(calls)
    /\ UNCHANGED <<rows, screen, syncing, counted, auto, archive, runs, keys, pulls,
                   failures, history>>

(* doWork. *)
WorkerStarts ==
    /\ worker = "waiting"
    /\ "fail" \in Loose \/ \A i \in DOMAIN calls : calls[i].ok # "no"
    /\ IF hasToken THEN TakeMutex("worker") /\ worker' = "running"
       ELSE worker' = "none" /\ UNCHANGED <<holder, sent>>
    /\ UNCHANGED <<rows, screen, calls, flags, weak, counters, history>>

WorkerRuns ==
    /\ worker = "running"
    /\ Accepted /\ ReleaseMutex
    /\ worker' = "none"
    /\ UNCHANGED <<screen, calls, flags, weak, counters, history>>

(* Result.retry, or Result.success for a failure that no retry would mend. *)
WorkerFails ==
    /\ worker = "running" /\ Trouble
    /\ failures' = failures + 1
    /\ ReleaseMutex
    /\ \/ worker' = "waiting" /\ UNCHANGED weak
       \/ worker' = "none" /\ weak # "ui" /\ weak' = "worker"
    /\ UNCHANGED <<rows, screen, calls, flags, keys, moves, pulls, history>>

(* A sync merges what another device made of a note that is not pending. *)
Editing(id) ==
    \/ sel = id /\ job # "off"
    \/ \E i \in DOMAIN calls : calls[i].at = "write" /\ calls[i].note = id

Opening(id) == \E i \in DOMAIN calls : calls[i].at = "show" /\ calls[i].arg = id

PullChange(id) ==
    /\ holder # "none" /\ Trouble
    /\ Has(id) /\ Shown(rows[id]) /\ ~rows[id].pending /\ rows[id].known
    /\ "unseen" \in Loose \/ ~Editing(id)
    /\ pulls' = pulls + 1
    /\ LET mark == [home |-> id, n |-> MaxKeys + pulls'] IN
       /\ rows' = [rows EXCEPT ![id].text = @ \union {mark}]
       /\ made' = made \union {mark}
    /\ UNCHANGED <<screen, calls, flags, runs, keys, moves, failures, deleted, born>>

PullDelete(id) ==
    /\ holder # "none" /\ Trouble
    /\ Has(id) /\ ~rows[id].pending /\ rows[id].known
    /\ "gone" \in Loose \/ (sel # id /\ ~Editing(id) /\ ~Opening(id))
    /\ pulls' = pulls + 1
    /\ rows' = [j \in DOMAIN rows \ {id} |-> rows[j]]
    /\ deleted' = deleted \union rows[id].text
    /\ UNCHANGED <<screen, calls, flags, runs, keys, moves, failures, made, born>>

(***************************************************************************)
(* The activity is destroyed and created anew (close, initialize): the     *)
(* last text is saved and all coroutines are cancelled.                    *)
(***************************************************************************)
Recreate ==
    LET saves == job # "off" /\ Saves(sel, value)
        id == IF sel = Draft THEN NextId ELSE sel
        stored == saves /\ (sel = Draft \/ Shown(Row(id)))
    IN
    /\ moves < MaxMoves
    /\ "closing" \in Loose \/ ~Under({"write"})
    /\ moves' = moves + 1
    /\ rows' = IF ~stored THEN rows
               ELSE IF sel = Draft
               THEN WithRow(id, [text |-> value, life |-> "active", pending |-> TRUE,
                                 known |-> FALSE])
               ELSE WithRow(id, SavedRow(rows[id], value))
    /\ born' = IF stored /\ sel = Draft THEN Append(born, -session) ELSE born
    /\ worker' = IF saves /\ hasToken /\ ~archive /\ worker = "none" THEN "waiting" ELSE worker
    /\ IF holder = "ui" THEN ReleaseMutex ELSE UNCHANGED <<holder, sent>>
    /\ calls' = <<Call("start", Draft)>>
    /\ sel' = Draft /\ value' = {} /\ session' = session + 1 /\ job' = "off"
    /\ syncing' = FALSE /\ queued' = FALSE /\ counted' = FALSE /\ auto' = FALSE
    /\ archive' = FALSE
    /\ UNCHANGED <<hasToken, weak, keys, pulls, failures, made, deleted>>

----------------------------------------------------------------------------
ControllerInit ==
    /\ rows = [id \in 1 .. Initial |-> [text |-> {}, pending |-> FALSE, known |-> TRUE,
                                        life |-> IF id = 1 THEN "active" ELSE "trashed"]]
    /\ born = [id \in 1 .. Initial |-> id]
    /\ sel = Draft /\ session = 1 /\ value = {} /\ job = "off"
    /\ calls = <<>>
    /\ syncing = FALSE /\ queued = FALSE /\ counted = FALSE /\ auto = FALSE
    /\ hasToken = TRUE /\ archive = FALSE
    /\ worker = "none" /\ holder = "none" /\ sent = Nothing
    /\ weak = "none"
    /\ keys = 0 /\ moves = 0 /\ pulls = 0 /\ failures = 0
    /\ made = {} /\ deleted = {}

CallStep ==
    \E i \in DOMAIN calls :
        \/ Write(i) \/ LoadNote(i) \/ Show(i) \/ Change(i) \/ ReadWorkspace(i)
        \/ Reapply(i) \/ ApplyTap(i) \/ ApplyStart(i) \/ SyncBegins(i) \/ SyncStarts(i)
        \/ SyncRuns(i)
        \/ ApplySync(i) \/ Status(i)
WorkerStep == WorkerStarts \/ WorkerRuns

UserStep ==
    \/ UpdateEditor \/ NewNote \/ ImportMarkdown \/ SignIn \/ Recreate
    \/ \E id \in DOMAIN rows : \/ OpenNote(id) \/ TrashNote(id) \/ RestoreNote(id)
                               \/ DeleteNote(id) \/ ToggleFavorite(id)

OthersStep ==
    \/ \E id \in DOMAIN rows : PullChange(id) \/ PullDelete(id)
    \/ \E i \in DOMAIN calls : SyncRefused(i) \/ SyncFails(i)
    \/ WorkerFails

ControllerNext == SaveTimer \/ AutoSync \/ CallStep \/ WorkerStep \/ UserStep \/ OthersStep

(* Timers fire, what is awaited is answered, WorkManager runs its work. *)
ControllerFairness ==
    /\ WF_controllerVars(SaveTimer) /\ WF_controllerVars(AutoSync)
    /\ WF_controllerVars(CallStep) /\ WF_controllerVars(WorkerStep)
ControllerSpec ==
    ControllerInit /\ [][ControllerNext]_controllerVars /\ ControllerFairness

(***************************************************************************)
(* Properties.                                                             *)
(***************************************************************************)

(* No note ever holds text typed in another note or in another draft, however
   saves, refreshes and taps overlap outside the windows "switch" and "draft":
   the save takes selectedNote and the text on screen together, and only there
   are the two of different notes (ControllerSwitch.cfg). *)
OwnText == \A id \in DOMAIN rows : \A mark \in rows[id].text : mark.home \in {id, born[id]}

OnTheWay ==
    (IF job = "set" THEN value ELSE {})
    \union UNION {calls[i].text : i \in DOMAIN calls}

(* Nothing typed and nothing another device wrote is lost on the way between
   the screen and the notes table, whichever refresh, sync or tap comes between
   the keystroke and its save, outside the windows: a refresh that shows an older
   text ("stale") and an edit of a note that a sync changed unseen ("unseen",
   ControllerUnseen.cfg) lose text. *)
NothingLost ==
    made \subseteq deleted \union OnTheWay \union UNION {rows[id].text : id \in DOMAIN rows}

(* With no timer and no call left, the screen shows nothing that is not stored
   in the selected note. *)
QuietScreenIsStored ==
    (job # "set" /\ calls = <<>>) =>
        IF sel = Draft THEN value = {}
        ELSE Shown(Row(sel)) => value \subseteq rows[sel].text

(* While the phone stays signed in, whatever is saved is pushed in the end: by
   the timer, by the sync that follows one already under way, or by SyncWorker,
   although one of the two kinds of sync may fail. *)
EventuallySynced == Pending # {} ~> (Pending = {} \/ ~hasToken)
=============================================================================
