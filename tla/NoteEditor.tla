----------------------------- MODULE NoteEditor -----------------------------
(***************************************************************************)
(* The editor of one browser tab (actions/editor.ts): the text on screen,  *)
(* the 120 ms save timer, the saves under way, the creation of a draft's   *)
(* note, switching notes, and the crash recovery row with the queue its    *)
(* reads and writes pass through; crash and reopening of the tab           *)
(* (initialize of page-controller.svelte.ts).  A text is where it was      *)
(* typed, its home, and a key count: all that the properties tell apart.   *)
(* Homes are note ids (positive) and editor sessions with a draft          *)
(* (negative).  Nothing here syncs: NoteSync composes saving and syncing.  *)
(***************************************************************************)
EXTENDS Integers, SequencesExt

CONSTANTS
    Initial,     \* the notes that are there from the start, 1 .. Initial
    MaxKeys,     \* bound on keystrokes
    MaxMoves,    \* bound on clicks on a note or on "new note"
    MaxCrashes,  \* bound on crashes, and on sign-outs
    Loose        \* windows left open, of "switch", "stale", "overlap", "clear",
                 \* "overtake", "lock", "startup"; each is described at its guard

ASSUME EditorBounds == /\ {Initial, MaxKeys, MaxMoves, MaxCrashes} \subseteq Nat
                       /\ Loose \subseteq {"switch", "stale", "overlap", "clear",
                                           "overtake", "lock", "startup"}

VARIABLES
    store,     \* notes table: text of each note
    born,      \* the home whose draft became the note (itself: not a draft)
    list,      \* controller.notes, as the last refresh read it
    sel,       \* selectedNote, or Draft
    session,   \* editorSessionId
    value,     \* titleValue and bodyValue
    timer,     \* saveTimer: the note id it captured, or Off
    saves,     \* saveEditorNow calls under way, oldest first
    creating,  \* draftCreatePromise: the id it will have, or Off
    nav,       \* a selectNote or newNote that awaits its flush
    rec,       \* the editorRecovery row, or None
    recq,      \* queued recovery operations (editorRecoveryQueue)
    phase,     \* "closed", "reading", "writing", "clearing", "open"
    keys, moves, crashes,
    acked      \* history: texts the recovery row has held

store_ == <<store, born, list>>
screen == <<sel, session, value, timer>>
recovery == <<rec, recq, acked>>
editorVars == <<store_, screen, saves, creating, nav, recovery, phase, keys, moves, crashes>>

Draft == 0
Off == -1
None == [note |-> Off, text |-> [home |-> 0, n |-> 0]]
NoNav == [to |-> Off, text |-> None.text, awaits |-> 0]

Notes == DOMAIN store
Blank(s) == [home |-> -s, n |-> 0]
IsBlank(text) == text.home < 0 /\ text.n = 0
Here == IF sel = Draft THEN -session ELSE sel
SameHome(a, b) == \/ a = b
                  \/ \E id \in DOMAIN born : {a, b} = {id, born[id]}
Covers(text, t) == SameHome(text.home, t.home) /\ text.n >= t.n
Stored(t) == \E id \in Notes : Covers(store[id], t)

Queue(op) == recq' = Append(recq, op)
Put(note, text) == [op |-> "put", row |-> [note |-> note, text |-> text], by |-> 0]
Delete(by) == [op |-> "delete", row |-> None, by |-> by]
Read(by) == [op |-> "read", row |-> None, by |-> by]
Restorer == -1   \* restoreEditorRecovery, where a save's number stands otherwise

Unfinished(no) == \E s \in Range(saves) : s.no = no
FreshNo == CHOOSE n \in 1 .. Len(saves) + 1 : ~Unfinished(n)
Updated(s) == saves' = [i \in DOMAIN saves |-> IF saves[i].no = s.no THEN s ELSE saves[i]]
Finished(no) == \E i \in DOMAIN saves : saves[i].no = no /\ saves' = RemoveAt(saves, i)

----------------------------------------------------------------------------
(* Typing and saving.                                                      *)

\* The note a save goes to: what the timer captured, or the note on screen.
Captured(id) == IF id # Draft THEN id ELSE sel

\* Mutant of Joined: every save of a draft creates a note.
Joined_Never == Cardinality(DOMAIN born) + 1

\* The note a draft's save creates, or joins the creation of.
Joined == IF creating # Off THEN creating ELSE Cardinality(DOMAIN born) + 1

\* saveEditorNow up to its first await: the text is the one on screen now.
StartSave(id) ==
  LET note  == Captured(id)
      made  == IF note = Draft /\ ~IsBlank(value) THEN Joined ELSE Off
      stage == IF note # Draft THEN "write" ELSE IF made = Off THEN "refresh"
               ELSE IF made \in Notes THEN "remember" ELSE "create"
  IN /\ saves' = Append(saves, [no |-> FreshNo, note |-> note, text |-> value,
                                session |-> session, stage |-> stage, made |-> made])
     /\ creating' = IF made = Off THEN creating ELSE made
     /\ born' = IF made \in DOMAIN born \cup {Off} THEN born
                ELSE [i \in DOMAIN born \cup {made} |-> IF i = made THEN value.home ELSE born[i]]
     /\ recq' = IF stage = "remember" THEN Append(recq, Read(FreshNo)) ELSE recq
     /\ timer' = Off

\* handleEditorInput (and undo, redo): timer anew, recovery row queued.
\* "switch": typing while a switch awaits its flush; the new timer then fires
\* with the next note's text in titleValue and bodyValue.
\* "clear": typing while a save's check of the recovery row is read; its
\* delete, or its copy of the older text, lands after the newer row.
\* "startup": typing before initialize has restored the row.
Type ==
  /\ keys < MaxKeys
  /\ phase = "open" \/ (phase # "closed" /\ "startup" \in Loose)
  /\ nav = NoNav \/ "switch" \in Loose
  /\ "clear" \in Loose \/ \A i \in DOMAIN recq : recq[i].op # "read"
  /\ keys' = keys + 1
  /\ value' = [home |-> Here, n |-> keys']
  /\ timer' = sel
  /\ Queue(Put(sel, value'))
  /\ UNCHANGED <<store_, sel, session, saves, creating, nav, rec, acked, phase, moves, crashes>>

\* The timer fires.
TimerFires ==
  /\ timer # Off
  /\ StartSave(timer)
  /\ UNCHANGED <<store, list, sel, session, value, nav, rec, acked, phase, keys, moves, crashes>>

\* Mutant of Settled: the promise is never cleared.
Settled_Never(s) == creating

\* The end of a draft's save clears draftCreatePromise, if it is still its own.
Settled(s) == IF creating = s.made THEN Off ELSE creating

\* Older saves of the note that have not written yet.
Older(s) == {i \in DOMAIN saves : /\ saves[i].stage \in {"create", "remember", "write"}
                                  /\ s.note \in {saves[i].note, saves[i].made}
                                  /\ \E j \in DOMAIN saves : i < j /\ saves[j] = s}

\* updateNoteContent.  "overtake": before an older save of the same note, which
\* then puts its text over this one (an older save still creates, remembers,
\* or has read the note and not put it).
Write(s) ==
  /\ s.stage = "write"
  /\ "overtake" \in Loose \/ Older(s) = {}
  /\ store' = [store EXCEPT ![s.note] = s.text]
  /\ creating' = Settled(s)
  /\ Updated([s EXCEPT !.stage = "refresh"])
  /\ UNCHANGED <<born, list, screen, nav, recovery, phase, keys, moves, crashes>>

\* createBlankNote has put the note, with its first save's text; every save
\* that joined goes on, and reads the row in rememberEditorRecoveryNoteId.
Create ==
  \E id \in {s.made : s \in {t \in Range(saves) : t.stage = "create"}} :
    LET joined == {i \in DOMAIN saves : saves[i].made = id} IN
    \E order \in [1 .. Cardinality(joined) -> joined] :
      /\ \A i, j \in DOMAIN order : i < j => order[i] < order[j]
      /\ store' = [i \in Notes \cup {id} |-> IF i = id THEN saves[order[1]].text ELSE store[i]]
      /\ saves' = [i \in DOMAIN saves |-> IF i \in joined
                                          THEN [saves[i] EXCEPT !.stage = "remember"] ELSE saves[i]]
      /\ recq' = recq \o [i \in DOMAIN order |-> Read(saves[order[i]].no)]
      /\ UNCHANGED <<born, list, screen, creating, nav, rec, acked, phase, keys, moves, crashes>>

\* stillEditingDraft.
StillEditing(s) == session = s.session /\ sel \in {Draft, s.made}

\* The draft becomes the note on screen, and gets this save's text if it differs.
Adopt(s) ==
  LET writes == StillEditing(s) /\ store[s.made] # s.text IN
  /\ sel' = IF StillEditing(s) THEN s.made ELSE sel
  /\ Updated([s EXCEPT !.note = s.made, !.stage = IF writes THEN "write" ELSE "refresh"])
  /\ creating' = IF writes THEN creating ELSE Settled(s)

\* refresh, then clearEditorRecoveryIfMatches reads the row.
Refresh(s) ==
  /\ s.stage = "refresh"
  /\ list' = store
  /\ IF s.note = Draft THEN Finished(s.no) /\ UNCHANGED recq
     ELSE Updated([s EXCEPT !.stage = "check"]) /\ Queue(Read(s.no))
  /\ UNCHANGED <<store, born, screen, creating, nav, rec, acked, phase, keys, moves, crashes>>

----------------------------------------------------------------------------
(* The recovery queue runs one operation at a time.  What awaits a read    *)
(* goes on in the same turn, so it queues behind what was queued before    *)
(* the read ended.                                                         *)

RecPut ==
  /\ recq # <<>> /\ Head(recq).op = "put"
  /\ rec' = Head(recq).row
  /\ acked' = IF rec'.text.n = 0 THEN acked ELSE acked \cup {rec'.text}
  /\ recq' = Tail(recq)
  /\ IF Unfinished(Head(recq).by)
     THEN \E s \in Range(saves) : s.no = Head(recq).by /\ Adopt(s)
     ELSE UNCHANGED <<saves, sel, creating>>
  /\ UNCHANGED <<store_, session, value, timer, nav, phase, keys, moves, crashes>>

\* Mutant of RowIs: the texts are not compared.
RowIs_AnyText(note, text) == rec.note = note

RowIs(note, text) == rec.note = note /\ rec.text = text

\* rememberEditorRecoveryNoteId: the row gets the new note's id, if it is this save's.
RecRemember(s) ==
  /\ recq # <<>> /\ Head(recq) = Read(s.no)
  /\ s.stage = "remember"
  /\ IF RowIs(Draft, s.text)
     THEN /\ recq' = Append(Tail(recq), [Put(s.made, s.text) EXCEPT !.by = s.no])
          /\ UNCHANGED <<saves, sel, creating>>
     ELSE recq' = Tail(recq) /\ Adopt(s)
  /\ UNCHANGED <<store_, session, value, timer, nav, rec, acked, phase, keys, moves, crashes>>

\* clearEditorRecoveryIfMatches: the row is deleted, if it is this save's.
RecCheck(s) ==
  /\ recq # <<>> /\ Head(recq) = Read(s.no)
  /\ s.stage = "check"
  /\ IF RowIs(s.note, s.text)
     THEN recq' = Append(Tail(recq), Delete(s.no)) /\ UNCHANGED saves
     ELSE recq' = Tail(recq) /\ Finished(s.no)
  /\ UNCHANGED <<store_, screen, creating, nav, rec, acked, phase, keys, moves, crashes>>

RecDelete ==
  /\ recq # <<>> /\ Head(recq).op = "delete"
  /\ rec' = None
  /\ recq' = Tail(recq)
  /\ IF Unfinished(Head(recq).by) THEN Finished(Head(recq).by) ELSE UNCHANGED saves
  /\ phase' = IF Head(recq).by = Restorer THEN "open" ELSE phase
  /\ UNCHANGED <<store_, screen, creating, nav, acked, keys, moves, crashes>>

----------------------------------------------------------------------------
(* Switching notes.                                                        *)

\* Show the note with the text the click took from the list, or openDraftNote.
\* "overlap": a save is still under way; a new draft's save would join its
\* creation, and the recovery row of its text is replaced or deleted.
Show(to, text) ==
  /\ "overlap" \in Loose \/ saves = <<>>
  /\ session' = session + 1
  /\ sel' = to
  /\ value' = IF to = Draft THEN Blank(session') ELSE text
  /\ timer' = IF to = Draft THEN Off ELSE timer
  /\ IF to = Draft THEN Queue(Delete(0)) ELSE UNCHANGED recq
  /\ nav' = NoNav

ListText(to) == IF to = Draft THEN None.text ELSE list[to]

\* selectNote(note) and newNote flush first; with no timer they go on at once.
\* "stale": a click on the note on screen while the list has an older text.
Navigate(to) ==
  /\ phase = "open" /\ nav = NoNav /\ moves < MaxMoves
  /\ (to = sel /\ to # Draft /\ "stale" \notin Loose) => list[to] = value
  /\ moves' = moves + 1
  /\ IF timer = Off
     THEN Show(to, ListText(to)) /\ UNCHANGED <<saves, creating, born>>
     ELSE /\ nav' = [to |-> to, text |-> ListText(to), awaits |-> FreshNo]
          /\ StartSave(timer)
          /\ UNCHANGED <<sel, session, value>>
  /\ UNCHANGED <<store, list, rec, acked, phase, keys, crashes>>

Arrive ==
  /\ nav # NoNav /\ ~Unfinished(nav.awaits)
  /\ Show(nav.to, nav.text)
  /\ UNCHANGED <<store_, saves, creating, rec, acked, phase, keys, moves, crashes>>

----------------------------------------------------------------------------
(* Crash, sign-out and reopening.                                          *)

Crash ==
  /\ phase # "closed" /\ crashes < MaxCrashes
  /\ crashes' = crashes + 1
  /\ phase' = "closed"
  /\ timer' = Off /\ saves' = <<>> /\ creating' = Off /\ nav' = NoNav /\ recq' = <<>>
  /\ sel' = Draft /\ session' = session + 1 /\ value' = Blank(session')
  /\ born' = [i \in Notes |-> born[i]]
  /\ UNCHANGED <<store, list, rec, acked, keys, moves>>

\* logoutAccount, then a sign-in: clearSensitiveWorkspace keeps the row, drops
\* the timer and never flushes ("lock"); a sign-in restores nothing.
SignOut ==
  /\ phase = "open" /\ crashes < MaxCrashes
  /\ "lock" \in Loose \/ (timer = Off /\ saves = <<>> /\ nav = NoNav /\ rec = None /\ recq = <<>>)
  /\ crashes' = crashes + 1
  /\ timer' = Off
  /\ sel' = Draft /\ session' = session + 1 /\ value' = Blank(session')
  /\ UNCHANGED <<store_, saves, creating, nav, recovery, phase, keys, moves>>

\* initialize: refresh, then restoreEditorRecovery reads the row.
Reopen ==
  /\ phase = "closed"
  /\ phase' = "reading"
  /\ list' = store
  /\ Queue(Read(Restorer))
  /\ UNCHANGED <<store, born, screen, saves, creating, nav, rec, acked, keys, moves, crashes>>

\* Mutant of NothingToRestore: a draft without a note is not worth restoring.
NothingToRestore_Draft == rec.note \in {Draft, Off}
NothingToRestore == rec = None

\* The row is there or not.  Without one the tab opens with a draft.
RestoreRead ==
  /\ recq # <<>> /\ Head(recq) = Read(Restorer) /\ phase = "reading"
  /\ IF NothingToRestore
     THEN /\ phase' = "open"
          /\ recq' = Append(Tail(recq), Delete(0))
          /\ session' = session + 1 /\ sel' = Draft /\ value' = Blank(session') /\ timer' = Off
     ELSE phase' = "writing" /\ recq' = Tail(recq) /\ UNCHANGED screen
  /\ UNCHANGED <<store_, saves, creating, nav, rec, acked, keys, moves, crashes>>

\* The note the row's text goes to: its own, or a new one (createBlankNote).
RestoreTarget == IF rec.note # Draft THEN rec.note ELSE Cardinality(Notes) + 1

\* The row's text is written to its note, or to a new one, and shown.
RestoreWrite ==
  LET id == RestoreTarget IN
  /\ phase = "writing"
  /\ store' = [i \in Notes \cup {id} |-> IF i = id THEN rec.text ELSE store[i]]
  /\ born' = [i \in DOMAIN born \cup {id} |-> IF i \in DOMAIN born THEN born[i] ELSE rec.text.home]
  /\ list' = store'
  /\ session' = session + 1 /\ sel' = id /\ value' = rec.text
  /\ phase' = "clearing"
  /\ Queue(IF rec.note = Draft THEN Delete(Restorer) ELSE Read(Restorer))
  /\ UNCHANGED <<timer, saves, creating, nav, rec, acked, keys, moves, crashes>>

\* clearEditorRecoveryIfMatches at the end of a restore.
RestoreCheck ==
  /\ recq # <<>> /\ Head(recq) = Read(Restorer) /\ phase = "clearing"
  /\ IF RowIs(sel, value) THEN recq' = Append(Tail(recq), Delete(Restorer)) /\ UNCHANGED phase
     ELSE recq' = Tail(recq) /\ phase' = "open"
  /\ UNCHANGED <<store_, screen, saves, creating, nav, rec, acked, keys, moves, crashes>>

----------------------------------------------------------------------------
SaveStep == Create \/ \E s \in Range(saves) : Write(s) \/ Refresh(s)
QueueStep == \/ RecPut \/ RecDelete \/ RestoreRead \/ RestoreCheck
             \/ \E s \in Range(saves) : RecRemember(s) \/ RecCheck(s)
TabStep == TimerFires \/ SaveStep \/ QueueStep \/ Arrive \/ Reopen \/ RestoreWrite
UserStep == Type \/ SignOut \/ \E to \in DOMAIN list \cup {Draft} : Navigate(to)
EditorNext == TabStep \/ UserStep \/ Crash

EditorInit ==
  /\ store = [id \in 1 .. Initial |-> [home |-> id, n |-> 0]]
  /\ born = [id \in 1 .. Initial |-> id] /\ list = store
  /\ sel = Draft /\ session = 1 /\ value = Blank(1) /\ timer = Off
  /\ saves = <<>> /\ creating = Off /\ nav = NoNav
  /\ rec = None /\ recq = <<>> /\ acked = {}
  /\ phase = "open" /\ keys = 0 /\ moves = 0 /\ crashes = 0

\* The event loop runs what is due, and a crashed tab is opened again.
EditorFairness ==
  /\ WF_editorVars(TimerFires) /\ WF_editorVars(SaveStep) /\ WF_editorVars(QueueStep)
  /\ WF_editorVars(Arrive) /\ WF_editorVars(Reopen) /\ WF_editorVars(RestoreWrite)
EditorSpec == EditorInit /\ [][EditorNext]_editorVars /\ EditorFairness

----------------------------------------------------------------------------
Text == [home : Int, n : Nat]

\* Every variable has its type; what is on screen and what saves is a note
\* that exists or a draft.
EditorTypeOK ==
  /\ Notes \subseteq DOMAIN born /\ DOMAIN born = 1 .. Cardinality(DOMAIN born)
  /\ \A id \in Notes : store[id] \in Text
  /\ DOMAIN list \subseteq Notes
  /\ sel \in Notes \cup {Draft} /\ session \in Nat /\ value \in Text
  /\ timer \in Notes \cup {Draft, Off}
  /\ creating \in DOMAIN born \cup {Off}
  /\ \A s \in Range(saves) :
       /\ s.note \in Notes \cup {Draft} /\ s.text \in Text
       /\ s.stage \in {"write", "create", "remember", "refresh", "check"}
  /\ \A s, t \in Range(saves) : s.no = t.no => s = t
  /\ phase \in {"closed", "reading", "writing", "clearing", "open"}

\* No note ever holds text typed in another note or in another draft, however
\* timers, saves, creations and switches overlap outside the windows "switch",
\* "overlap", "lock" and "startup" (saveEditorNow captures an id but reads the
\* text on screen; EditorSwitch.cfg shows it going wrong in "switch").
OwnText == \A id \in Notes : store[id].home \in {id, born[id]}

\* Text the recovery row has held is never lost: the notes table or the row
\* has it, or a later text of the same note, also after a crash at any point
\* (rememberEditorRecoveryNoteId, clearEditorRecoveryIfMatches, restore).
TypedSurvives == \A t \in acked : Stored(t) \/ Covers(rec.text, t)

\* With no timer, save or switch left, an open editor shows what is stored:
\* a save never puts an older text over a newer one, and a switch never
\* shows an older text than the one just saved.
QuietEditorIsStored ==
  phase = "open" /\ timer = Off /\ saves = <<>> /\ nav = NoNav /\ recq = <<>>
    => IF sel = Draft THEN IsBlank(value) ELSE store[sel] = value

\* What the recovery row has held is in the notes table in the end.
TypedIsStored == \A n \in 1 .. MaxKeys :
  (\E t \in acked : t.n = n) ~> (\E t \in acked : t.n = n /\ Stored(t))
=============================================================================
