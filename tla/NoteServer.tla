----------------------------- MODULE NoteServer -----------------------------
(***************************************************************************)
(* The server's store of one account's notes (server/repository.ts): the   *)
(* notes table, the hard-delete tombstones and the entity_changes log, and *)
(* the write transactions that change them.  Every transaction is one      *)
(* step: SQLite serialises writers (withWriteTransaction), and nothing of  *)
(* a transaction is visible before it commits.                             *)
(*                                                                         *)
(* An operator Name_How beside an operator Name is that operator with a    *)
(* plausible mistake in it.  No action uses it: it is what a property is   *)
(* tried against, to see that the property would notice.                   *)
(***************************************************************************)
EXTENDS SyncSpec, FiniteSets

CONSTANTS
    Note,         \* note ids of the account
    Device,       \* devices that push
    Content,      \* what a note holds, as far as recordsDiffer tells apart
    Life,         \* the trash states that occur
    None,         \* "no row" and "no tombstone"
    Base,         \* versions clients name as the one they last synced
    BatchLimit,   \* MAX_SYNC_CHANGES_PER_PUSH
    MaxRevision   \* bound on the change log's revision counter

Record    == [content : Content, life : Life]
Row       == [content : Content, life : Life, device : Device,
              version : Nat \ {0}, aged : BOOLEAN]
Tombstone == [device : Device, version : Nat \ {0}]
Operation == {"upsert", "delete"}
LogEntry  == [rev : Nat \ {0}, note : Note, op : Operation]

(* The finiteness of Note lets a transaction number its changes. *)
ASSUME NoteAssumption == IsFiniteSet(Note)
ASSUME NoneAssumption == None \notin Row /\ None \notin Tombstone
ASSUME LifeAssumption ==
    "active" \in Life /\ Life \subseteq {"active", "trashed", "deleted"}
ASSUME BoundAssumption ==
    Base \subseteq Nat /\ BatchLimit \in Nat /\ MaxRevision \in Nat

VARIABLES
    rows,     \* notes: the row of each note, or None
    tombs,    \* entity_tombstones: the tombstone of each note, or None
    changes,  \* entity_changes: the retained log entries
    lastRev,  \* the AUTOINCREMENT counter of entity_changes
    issued    \* history: every (version, record) the server has ever given out

serverVars == <<rows, tombs, changes, lastRev, issued>>

(***************************************************************************)
(* One change of a push request.  "base" is the version the client last    *)
(* synced, "stripped" whether the server dropped references to notebooks   *)
(* that are not active while normalising the record (the content here is   *)
(* the normalised one).                                                    *)
(***************************************************************************)
Change == [content : Content, life : Life, base : Base, stripped : BOOLEAN]

(* A request holds at most one change of a note: assertUniquePushChangeIds. *)
Batch == UNION {[ids -> Change] :
                  ids \in {s \in SUBSET Note : Cardinality(s) \in 1..BatchLimit}}

HasRow(n) == rows[n] # None
HasTombstone(n) == tombs[n] # None

(* The version a client must name to replace what the server has of a note. *)
Version(n) == IF HasRow(n) THEN rows[n].version
              ELSE IF HasTombstone(n) THEN tombs[n].version ELSE 0

(***************************************************************************)
(* The four outcomes of one change (pushChanges, the loop over notes).     *)
(***************************************************************************)
DeletedRemotely(n, ch) ==
    ~HasRow(n) /\ HasTombstone(n) /\ ch.base # tombs[n].version

RemoteChanged(n, ch) == HasRow(n) /\ ShouldConflict(ch, rows[n], ch.base)

Refused(n, ch) == DeletedRemotely(n, ch) \/ RemoteChanged(n, ch)

(* Identical content is accepted as the row that is already there. *)
AlreadyThere(n, ch) ==
    HasRow(n) /\ ~ch.stripped /\ ~RecordsDiffer(ch, rows[n])

Writes(n, ch) == ~Refused(n, ch) /\ ~AlreadyThere(n, ch)

Written(batch) == {n \in DOMAIN batch : Writes(n, batch[n])}

(* The version an accepted change gets: a new note starts at 1, a note that
   comes back over a tombstone continues after it. *)
AcceptedVersion_ForgetsTombstone(n) ==
    IF HasRow(n) THEN NextVersionAfter(rows[n].version) ELSE 1
AcceptedVersion(n) == NextVersionAfter(Version(n))

(* putNotes: retention_started_at is set when a note enters the trash, kept
   while it stays there and cleared when it leaves; "aged" says that it is
   older than the 90 days the cleanup waits. *)
NewRow(d, n, ch) ==
    [content |-> ch.content, life |-> ch.life, device |-> d,
     version |-> AcceptedVersion(n),
     aged |-> /\ ch.life # "active"
              /\ HasRow(n) /\ rows[n].life # "active" /\ rows[n].aged]

(* A transaction that logs the notes in ids draws consecutive revisions for
   them, in the order of the request. *)
Numberings(ids) ==
    {f \in [ids -> (lastRev + 1)..(lastRev + Cardinality(ids))] :
        \A m, n \in ids : f[m] = f[n] => m = n}

Log_AlwaysUpsert(f, ids, op) ==
    {[rev |-> f[n], note |-> n, op |-> "upsert"] : n \in ids}
Log(f, ids, op) == {[rev |-> f[n], note |-> n, op |-> op] : n \in ids}

Issue(n, row) == [note |-> n, version |-> row.version,
                  content |-> row.content, life |-> row.life]

(* pushChanges for the notes of one device: accepted changes are written,
   clear the note's tombstone and are logged; refused ones change nothing. *)
Push(d, batch) ==
    LET W == Written(batch) IN
    /\ lastRev + Cardinality(W) <= MaxRevision
    /\ rows' = [n \in Note |-> IF n \in W THEN NewRow(d, n, batch[n])
                               ELSE rows[n]]
    /\ tombs' = [n \in Note |-> IF n \in W THEN None ELSE tombs[n]]
    /\ \E f \in Numberings(W) : changes' = changes \union Log(f, W, "upsert")
    /\ lastRev' = lastRev + Cardinality(W)
    /\ issued' = issued \union {Issue(n, NewRow(d, n, batch[n])) : n \in W}

(* The retention period of a trashed note runs out. *)
Age(n) ==
    /\ HasRow(n) /\ rows[n].life # "active" /\ ~rows[n].aged
    /\ rows' = [rows EXCEPT ![n].aged = TRUE]
    /\ UNCHANGED <<tombs, changes, lastRev, issued>>

(* cleanupTrash: every note past its retention leaves a tombstone one version
   further on, and a delete entry in the log. *)
Expired == {n \in Note : HasRow(n) /\ rows[n].life # "active" /\ rows[n].aged}

CleanupTrash ==
    /\ Expired # {}
    /\ lastRev + Cardinality(Expired) <= MaxRevision
    /\ rows' = [n \in Note |-> IF n \in Expired THEN None ELSE rows[n]]
    /\ tombs' = [n \in Note |->
                    IF n \in Expired
                    THEN [device  |-> rows[n].device,
                          version |-> NextVersionAfter(rows[n].version)]
                    ELSE tombs[n]]
    /\ \E f \in Numberings(Expired) :
          changes' = changes \union Log(f, Expired, "delete")
    /\ lastRev' = lastRev + Cardinality(Expired)
    /\ UNCHANGED issued

(* The newest retained entry of a note. *)
IsLatest(c, log) == \A e \in log : e.note = c.note => e.rev <= c.rev

(* compactEntityChanges keeps one entry of each note, the newest. *)
CompactEntityChanges ==
    /\ changes' = {c \in changes : IsLatest(c, changes)}
    /\ UNCHANGED <<rows, tombs, lastRev, issued>>

ServerInit ==
    /\ rows = [n \in Note |-> None]
    /\ tombs = [n \in Note |-> None]
    /\ changes = {}
    /\ lastRev = 0
    /\ issued = {}

ServerNext ==
    \/ \E d \in Device, batch \in Batch : Push(d, batch)
    \/ \E n \in Note : Age(n)
    \/ CleanupTrash
    \/ CompactEntityChanges

ServerSpec == ServerInit /\ [][ServerNext]_serverVars

(***************************************************************************)
(* Properties.                                                             *)
(***************************************************************************)

(* The tables hold rows, tombstones, entries and counters of their types. *)
ServerTypeOK ==
    /\ rows \in [Note -> Row \union {None}]
    /\ tombs \in [Note -> Tombstone \union {None}]
    /\ changes \subseteq LogEntry
    /\ lastRev \in Nat
    /\ issued \subseteq [note : Note, version : Nat \ {0},
                         content : Content, life : Life]

(* What a version names never changes: two records the server gave out for a
   note under one version are the same record, however the note was written,
   deleted, purged and recreated in between.  Every base-version comparison of
   the protocol relies on it. *)
VersionNamesOneRecord ==
    \A a, b \in issued :
        (a.note = b.note /\ a.version = b.version) => a = b

(* The newest log entry of a note tells what the tables hold of it: an upsert
   has a row and no tombstone, a delete a tombstone and no row, and a note that
   was never logged has neither.  A pull trusts the log alone to find what
   changed, so an entry that disagrees is a change no device ever learns of. *)
LogMatchesStore ==
    /\ \A c \in changes : IsLatest(c, changes) =>
          IF c.op = "upsert" THEN HasRow(c.note) /\ ~HasTombstone(c.note)
                             ELSE HasTombstone(c.note) /\ ~HasRow(c.note)
    /\ \A n \in Note : (HasRow(n) \/ HasTombstone(n)) =>
          \E c \in changes : c.note = n

(* Whatever a transaction does to a note (a write, a purge, a return from the
   tombstone), the version a client has to name moves forward, and it moves
   whenever the record or its existence changes: a client that is one step
   behind can always be told from one that is up to date. *)
Visible(n) == IF HasRow(n) THEN <<rows[n].content, rows[n].life>> ELSE <<>>

VersionStep ==
    \A n \in Note : /\ Version(n)' >= Version(n)
                    /\ Visible(n)' # Visible(n) => Version(n)' > Version(n)

VersionsMoveForward == [][VersionStep]_serverVars
=============================================================================
