----------------------------- MODULE ChangeFeed -----------------------------
(***************************************************************************)
(* The paged pull: how a device follows the server by a revision cursor.   *)
(*                                                                         *)
(* pullMirrorChangesSinceRevision is not a transaction.  It reads the      *)
(* current revision, then one page of revisions, then the newest operation *)
(* of each note in the page, then the rows: four queries, each of a        *)
(* possibly newer database, with pushes, cleanups and compactions of other *)
(* connections between them.  The device applies the response and saves    *)
(* the cursor in separate writes and may be closed in between.             *)
(*                                                                         *)
(* The device here has no edits of its own, so that what it shows is       *)
(* exactly what the pulls delivered; NoteSync has the edits.               *)
(***************************************************************************)
EXTENDS RecordLimits

CONSTANT PageLimit   \* the most log entries one page may cover
ASSUME PageAssumption == PageLimit \in Nat \ {0}

PullPhase == {"idle", "revision", "page", "changes", "response", "applied"}

NoteCopy == [content : Content, life : Life, device : Device, version : Nat \ {0}]
ASSUME CopyAssumption == None \notin NoteCopy

VARIABLES
    phase,      \* how far the device's current pull has come
    current,    \* currentServerRevision read by the pull
    end,        \* serverRevision of its page
    more,       \* hasMore of its page
    upserts,    \* notes whose newest operation in the page is an upsert
    deletes,    \* deletedNoteIds
    notes,      \* the rows of the response, None where there was none
    lastPulled, \* lastPulledRevision saved on the device
    shown       \* the device's copies of the notes, None where it has none

pullVars == <<phase, current, end, more, upserts, deletes, notes>>
deviceVars == <<lastPulled, shown>>
feedVars == <<serverVars, pullVars, deviceVars>>

CopyOf(row) == [content |-> row.content, life |-> row.life,
                device |-> row.device, version |-> row.version]

(* currentRevision: the largest revision in the log, 0 when it is empty. *)
IsMaxRevision(r) ==
    IF changes = {} THEN r = 0
    ELSE (\E c \in changes : c.rev = r) /\ (\A c \in changes : c.rev <= r)

ReadRevision(d) ==
    /\ phase[d] = "idle"
    /\ \E r \in 0..lastRev : IsMaxRevision(r)
                             /\ current' = [current EXCEPT ![d] = r]
    /\ phase' = [phase EXCEPT ![d] = "revision"]
    /\ UNCHANGED <<serverVars, end, more, upserts, deletes, notes, deviceVars>>

(* The revisions a page may show: past the cursor, not past the revision the
   pull started from. *)
PageEntries_WithoutLast(d) ==
    {c \in changes : lastPulled[d] < c.rev /\ c.rev < current[d]}
PageEntries_FromCursor(d) ==
    {c \in changes : lastPulled[d] <= c.rev /\ c.rev <= current[d]}
PageEntries(d) == {c \in changes : lastPulled[d] < c.rev /\ c.rev <= current[d]}

(* An empty page ends at the current revision and needs no more queries. *)
ReadEmptyPage(d) ==
    /\ phase[d] = "revision" /\ PageEntries(d) = {}
    /\ end' = [end EXCEPT ![d] = current[d]]
    /\ more' = [more EXCEPT ![d] = FALSE]
    /\ upserts' = [upserts EXCEPT ![d] = {}]
    /\ deletes' = [deletes EXCEPT ![d] = {}]
    /\ notes' = [notes EXCEPT ![d] = [n \in Note |-> None]]
    /\ phase' = [phase EXCEPT ![d] = "response"]
    /\ UNCHANGED <<serverVars, current, deviceVars>>

(* Otherwise the page ends at one of its revisions.  It holds at most the limit
   of entries; fewer when the client asked for fewer, or when a response over
   the byte limit made the server start again with half of them. *)
ReadPage(d) ==
    /\ phase[d] = "revision"
    /\ \E last \in PageEntries(d) :
        /\ Cardinality({c \in PageEntries(d) : c.rev <= last.rev}) <= PageLimit
        /\ end' = [end EXCEPT ![d] = last.rev]
        /\ more' = [more EXCEPT
                      ![d] = \E c \in PageEntries(d) : c.rev > last.rev]
    /\ phase' = [phase EXCEPT ![d] = "page"]
    /\ UNCHANGED <<serverVars, current, upserts, deletes, notes, deviceVars>>

(* The newest operation of each note inside the page. *)
InPage(d) == {c \in changes : lastPulled[d] < c.rev /\ c.rev <= end[d]}

NewestInPage(d, op) ==
    {n \in Note : \E c \in InPage(d) :
        c.note = n /\ c.op = op /\ IsLatest(c, InPage(d))}

ReadChanges(d) ==
    /\ phase[d] = "page"
    /\ upserts' = [upserts EXCEPT ![d] = NewestInPage(d, "upsert")]
    /\ deletes' = [deletes EXCEPT ![d] = NewestInPage(d, "delete")]
    /\ phase' = [phase EXCEPT ![d] = "changes"]
    /\ UNCHANGED <<serverVars, current, end, more, notes, deviceVars>>

(* getNotesByIds: the rows as they are now; a note deleted since is left out. *)
ReadRows(d) ==
    /\ phase[d] = "changes"
    /\ notes' = [notes EXCEPT ![d] =
                    [n \in Note |-> IF n \in upserts[d] /\ HasRow(n)
                                    THEN CopyOf(rows[n]) ELSE None]]
    /\ phase' = [phase EXCEPT ![d] = "response"]
    /\ UNCHANGED <<serverVars, current, end, more, upserts, deletes, deviceVars>>

(* A page whose cursor would not advance ends the sync with an error;
   otherwise applyRemoteDeletes and mergeRemoteChanges. *)
Apply(d) ==
    /\ phase[d] = "response"
    /\ SafeRevisionCursor(end[d], lastPulled[d], more[d])
    /\ shown' = [shown EXCEPT ![d] = [n \in Note |->
                    IF notes[d][n] # None THEN notes[d][n]
                    ELSE IF n \in deletes[d] THEN None
                    ELSE shown[d][n]]]
    /\ phase' = [phase EXCEPT ![d] = "applied"]
    /\ UNCHANGED <<serverVars, current, end, more, upserts, deletes, notes,
                   lastPulled>>

(* Nothing of a finished or abandoned pull is kept. *)
Forget(d) ==
    /\ phase' = [phase EXCEPT ![d] = "idle"]
    /\ current' = [current EXCEPT ![d] = 0]
    /\ end' = [end EXCEPT ![d] = 0]
    /\ more' = [more EXCEPT ![d] = FALSE]
    /\ upserts' = [upserts EXCEPT ![d] = {}]
    /\ deletes' = [deletes EXCEPT ![d] = {}]
    /\ notes' = [notes EXCEPT ![d] = [n \in Note |-> None]]

SaveLastPulled(d) ==
    /\ phase[d] = "applied"
    /\ lastPulled' = [lastPulled EXCEPT ![d] = end[d]]
    /\ Forget(d)
    /\ UNCHANGED <<serverVars, shown>>

(* A lost response, an error or a closed tab: the pull is gone, the cursor is
   still the saved one, and the next pull starts over. *)
Abandon(d) ==
    /\ phase[d] # "idle"
    /\ Forget(d)
    /\ UNCHANGED <<serverVars, deviceVars>>

FeedInit ==
    /\ ServerInit
    /\ phase = [d \in Device |-> "idle"]
    /\ current = [d \in Device |-> 0]
    /\ end = [d \in Device |-> 0]
    /\ more = [d \in Device |-> FALSE]
    /\ upserts = [d \in Device |-> {}]
    /\ deletes = [d \in Device |-> {}]
    /\ notes = [d \in Device |-> [n \in Note |-> None]]
    /\ lastPulled = [d \in Device |-> 0]
    /\ shown = [d \in Device |-> [n \in Note |-> None]]

PullStep(d) == ReadRevision(d) \/ ReadEmptyPage(d) \/ ReadPage(d)
               \/ ReadChanges(d) \/ ReadRows(d) \/ Apply(d) \/ SaveLastPulled(d)

FeedNext ==
    \/ LimitedServerNext /\ UNCHANGED <<pullVars, deviceVars>>
    \/ \E d \in Device : PullStep(d) \/ Abandon(d)

FeedSpec == FeedInit /\ [][FeedNext]_feedVars

(***************************************************************************)
(* Properties.                                                             *)
(***************************************************************************)
FeedTypeOK ==
    /\ ServerTypeOK
    /\ phase \in [Device -> PullPhase]
    /\ current \in [Device -> Nat]
    /\ end \in [Device -> Nat]
    /\ more \in [Device -> BOOLEAN]
    /\ upserts \in [Device -> SUBSET Note]
    /\ deletes \in [Device -> SUBSET Note]
    /\ notes \in [Device -> [Note -> NoteCopy \union {None}]]
    /\ lastPulled \in [Device -> Nat]
    /\ shown \in [Device -> [Note -> NoteCopy \union {None}]]

ServerCopy(n) == IF HasRow(n) THEN CopyOf(rows[n]) ELSE None

(* Every logged change of the note is at or before revision r. *)
Covered(n, r) == \A c \in changes : c.note = n => c.rev <= r

(* A cursor never runs ahead of what was delivered: while the saved cursor is
   at or past the newest change of a note, the device shows exactly what the
   server has of it.  No page boundary, purge, compaction, lost response or
   write between the four queries makes the device skip a change for good. *)
CursorCoversStore ==
    \A d \in Device, n \in Note :
        Covered(n, lastPulled[d]) => shown[d][n] = ServerCopy(n)

(* A pull never takes the device back to an older version of a note it
   shows: every step leaves the version or raises it, unless the note goes. *)
NeverOlder ==
    [][\A d \in Device, n \in Note :
          (shown[d][n] # None /\ shown'[d][n] # None)
             => shown'[d][n].version >= shown[d][n].version]_feedVars

(* A page the server built is one the client accepts: the guard against a
   cursor that stands still never stops a pull of an intact log. *)
PagesAdvance ==
    \A d \in Device : phase[d] = "response" =>
        SafeRevisionCursor(end[d], lastPulled[d], more[d])
=============================================================================
