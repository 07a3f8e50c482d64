--------------------------- MODULE NoteSyncProofs ---------------------------
(***************************************************************************)
(* Theorems about the two sides of the sync of notes: first about          *)
(* ChangeFeed, how a device follows the server's log page by page, and     *)
(* the limits of that server, then about NoteSync, how edits travel.       *)
(***************************************************************************)
EXTENDS ChangeFeed, NoteSync, NoteServerProofs

(***************************************************************************)
(* A device's cursor never covers a change the device has not got, for     *)
(* every number of devices and notes and every page limit.                 *)
(*                                                                         *)
(* The argument: revisions are drawn from one counter and no query of a    *)
(* pull reads past it, so whatever commits between two queries is logged   *)
(* beyond the page.  A note with a later change is not covered by the page *)
(* and owes it nothing; a note all of whose changes are covered has not    *)
(* changed since the page's revision was read, so that what the later      *)
(* queries read of it is what the server still has.  PullInv says this for *)
(* each phase of a pull.                                                   *)
(***************************************************************************)

(* What the pull of device d owes the notes its page covers, in each phase. *)
ChangesRead(d) ==
    phase[d] = "changes" => \A n \in Note : Covered(n, end[d]) =>
        \/ n \in upserts[d] /\ HasRow(n)
        \/ n \notin upserts[d] /\ n \in deletes[d] /\ ServerCopy(n) = None
        \/ n \notin upserts[d] /\ n \notin deletes[d]
           /\ shown[d][n] = ServerCopy(n)

ResponseReady(d) ==
    phase[d] = "response" => \A n \in Note : Covered(n, end[d]) =>
        IF notes[d][n] # None THEN notes[d][n] = ServerCopy(n)
        ELSE IF n \in deletes[d] THEN ServerCopy(n) = None
        ELSE shown[d][n] = ServerCopy(n)

PageApplied(d) ==
    phase[d] = "applied" => \A n \in Note :
        Covered(n, end[d]) => shown[d][n] = ServerCopy(n)

(* Cursor, page end and current revision are in this order, below the counter;
   and the log still reaches as far as the cursor. *)
CursorOrder(d) ==
    /\ lastPulled[d] <= lastRev
    /\ lastPulled[d] = 0 \/ \E c \in changes : c.rev >= lastPulled[d]
    /\ phase[d] # "idle" =>
          /\ lastPulled[d] <= current[d] /\ current[d] <= lastRev
          /\ current[d] = 0 \/ \E c \in changes : c.rev >= current[d]
    /\ phase[d] \in {"page", "changes", "response", "applied"} =>
          /\ lastPulled[d] <= end[d] /\ end[d] <= current[d]
          /\ more[d] => end[d] # lastPulled[d]

CursorCovers(d) ==
    \A n \in Note : Covered(n, lastPulled[d]) => shown[d][n] = ServerCopy(n)

(* Copies on the way and on the device are of logged notes, and not newer
   than the store. *)
CopiesFromStore(d) ==
    \A n \in Note :
        /\ shown[d][n] # None =>
              /\ shown[d][n].version <= Version(n)
              /\ \E c \in changes : c.note = n
        /\ notes[d][n] # None =>
              /\ notes[d][n].version <= Version(n)
              /\ \E c \in changes : c.note = n
              /\ shown[d][n] # None =>
                    notes[d][n].version >= shown[d][n].version

PullInv(d) == /\ ChangesRead(d) /\ ResponseReady(d) /\ PageApplied(d)
              /\ CursorOrder(d) /\ CursorCovers(d) /\ CopiesFromStore(d)

FeedInv == ServerInv /\ FeedTypeOK /\ \A d \in Device : PullInv(d)

USE NoteAssumption, NoneAssumption, LifeAssumption, BoundAssumption
USE PageAssumption, CopyAssumption

(***************************************************************************)
(* What a server step means for a pull in flight.                          *)
(***************************************************************************)
(* A transaction that logs the notes in ids puts their entries past every
   revision drawn before. *)
LEMMA ChangedPast ==
    ASSUME ServerInv, NEW ids \in SUBSET Note, NEW f \in Numberings(ids),
           NEW op, changes' = changes \union Log(f, ids, op),
           NEW r \in Nat, r <= lastRev
    PROVE  /\ \A n \in ids : ~Covered(n, r)'
           /\ \A n \in Note : Covered(n, r)' => Covered(n, r)
           /\ changes \subseteq changes'
<1>1. \A n \in ids : f[n] \in Nat /\ f[n] > lastRev
  BY NumberingFacts DEF ServerInv, ServerTypeOK
<1>2. ASSUME NEW n \in ids
      PROVE  ~Covered(n, r)'
  <2>1. [rev |-> f[n], note |-> n, op |-> op] \in changes'
    BY DEF Log
  <2>2. ~(f[n] <= r)
    BY <1>1 DEF ServerInv, ServerTypeOK
  <2> QED
    BY <2>1, <2>2 DEF Covered
<1>3. \A n \in Note : Covered(n, r)' => Covered(n, r)
  BY DEF Covered
<1> QED
  BY <1>2, <1>3

(* If a server step leaves a note covered by a revision already drawn, the
   note was covered before and the server has the same of it; logged notes
   stay logged, and the log reaches as far as before. *)
LEMMA ServerStep ==
    ASSUME ServerInv, [ServerNext]_serverVars, NEW r \in Nat, r <= lastRev
    PROVE  /\ \A n \in Note : Covered(n, r)' =>
                /\ Covered(n, r)
                /\ ServerCopy(n)' = ServerCopy(n)
                /\ HasRow(n)' <=> HasRow(n)
           /\ \A n \in Note : (\E c \in changes : c.note = n)
                              => \E c \in changes' : c.note = n
           /\ (\E c \in changes : c.rev >= r) => \E c \in changes' : c.rev >= r
           /\ lastRev' \in Nat /\ lastRev' >= lastRev
<1>0. lastRev \in Nat /\ changes \subseteq LogEntry
  BY DEF ServerInv, ServerTypeOK
<1>1. ASSUME NEW d \in Device, NEW batch \in Batch, Push(d, batch)
      PROVE  /\ \A n \in Note : Covered(n, r)' =>
                   /\ Covered(n, r)
                   /\ ServerCopy(n)' = ServerCopy(n)
                   /\ HasRow(n)' <=> HasRow(n)
             /\ changes \subseteq changes'
             /\ lastRev' \in Nat /\ lastRev' >= lastRev
  <2>1. /\ Written(batch) \in SUBSET Note
        /\ \A n \in Note \ Written(batch) : rows'[n] = rows[n]
    BY <1>1, BatchIsRequest, PushEffect
  <2>2. PICK f \in Numberings(Written(batch)) :
            changes' = changes \union Log(f, Written(batch), "upsert")
    BY <1>1 DEF Push
  <2>3. /\ \A n \in Written(batch) : ~Covered(n, r)'
        /\ \A n \in Note : Covered(n, r)' => Covered(n, r)
        /\ changes \subseteq changes'
    BY <2>1, <2>2, ChangedPast
  <2>4. Cardinality(Written(batch)) \in Nat
    BY <2>1, <2>2, <1>0, NumberingFacts
  <2>5. lastRev' = lastRev + Cardinality(Written(batch))
    BY <1>1 DEF Push
  <2> QED
    BY <1>0, <2>1, <2>3, <2>4, <2>5 DEF ServerCopy, HasRow
<1>2. ASSUME CleanupTrash
      PROVE  /\ \A n \in Note : Covered(n, r)' =>
                   /\ Covered(n, r)
                   /\ ServerCopy(n)' = ServerCopy(n)
                   /\ HasRow(n)' <=> HasRow(n)
             /\ changes \subseteq changes'
             /\ lastRev' \in Nat /\ lastRev' >= lastRev
  <2>1. /\ Expired \in SUBSET Note
        /\ \A n \in Note \ Expired : rows'[n] = rows[n]
    BY <1>2, CleanupEffect
  <2>2. PICK f \in Numberings(Expired) :
            changes' = changes \union Log(f, Expired, "delete")
    BY <1>2 DEF CleanupTrash
  <2>3. /\ \A n \in Expired : ~Covered(n, r)'
        /\ \A n \in Note : Covered(n, r)' => Covered(n, r)
        /\ changes \subseteq changes'
    BY <2>1, <2>2, ChangedPast
  <2>4. Cardinality(Expired) \in Nat
    BY <2>1, <2>2, <1>0, NumberingFacts
  <2>5. lastRev' = lastRev + Cardinality(Expired)
    BY <1>2 DEF CleanupTrash
  <2> QED
    BY <1>0, <2>1, <2>3, <2>4, <2>5 DEF ServerCopy, HasRow
<1>3. ASSUME NEW m \in Note, Age(m)
      PROVE  /\ \A n \in Note : /\ ServerCopy(n)' = ServerCopy(n)
                                /\ HasRow(n)' <=> HasRow(n)
             /\ UNCHANGED <<changes, lastRev>>
  <2>1. /\ rows' = [rows EXCEPT ![m].aged = TRUE]
        /\ rows[m] # None /\ UNCHANGED <<changes, lastRev>>
    BY <1>3 DEF Age, HasRow
  <2>2. rows \in [Note -> Row \union {None}] /\ rows[m] \in Row
    BY <2>1 DEF ServerInv, ServerTypeOK
  <2>3. rows'[m] = [rows[m] EXCEPT !.aged = TRUE]
    BY <2>1, <2>2
  <2>4. CopyOf(rows'[m]) = CopyOf(rows[m])
    BY <2>2, <2>3 DEF CopyOf, Row
  <2>5. \A n \in Note : HasRow(n)' <=> HasRow(n)
    BY <1>3, AgeInv
  <2>6. \A n \in Note : n # m => rows'[n] = rows[n]
    BY <2>1, <2>2
  <2>7. HasRow(m)' /\ HasRow(m)
    BY <2>1, <2>5 DEF HasRow
  <2>8. ServerCopy(m)' = ServerCopy(m)
    BY <2>4, <2>7 DEF ServerCopy
  <2>9. \A n \in Note : n # m => ServerCopy(n)' = ServerCopy(n)
    BY <2>6 DEF ServerCopy, HasRow
  <2> QED
    BY <2>1, <2>5, <2>8, <2>9
<1>4. ASSUME CompactEntityChanges
      PROVE  /\ \A n \in Note : /\ Covered(n, r)' => Covered(n, r)
                                /\ ServerCopy(n)' = ServerCopy(n)
                                /\ HasRow(n)' <=> HasRow(n)
             /\ \A n \in Note : (\E c \in changes : c.note = n)
                                => \E c \in changes' : c.note = n
             /\ (\E c \in changes : c.rev >= r)
                   => \E c \in changes' : c.rev >= r
             /\ lastRev' = lastRev
  <2>1. /\ changes' = {c \in changes : IsLatest(c, changes)}
        /\ UNCHANGED <<rows, lastRev>>
    BY <1>4 DEF CompactEntityChanges
  <2>2. ASSUME NEW c \in changes
        PROVE  \E e \in changes' : e.note = c.note /\ e.rev >= c.rev
    <3>1. PICK e \in changes : e.note = c.note /\ IsLatest(e, changes)
      BY DEF ServerInv, NewestKept
    <3> QED
      BY <1>0, <2>1, <3>1 DEF IsLatest
  <2>3. \A n \in Note : Covered(n, r)' => Covered(n, r)
    <3>1. SUFFICES ASSUME NEW n \in Note, Covered(n, r)', NEW c \in changes,
                          c.note = n
                   PROVE  c.rev <= r
      BY DEF Covered
    <3>2. PICK e \in changes' : e.note = n /\ e.rev >= c.rev
      BY <2>2, <3>1
    <3>3. e.rev <= r /\ e \in changes
      BY <2>1, <3>1, <3>2 DEF Covered
    <3> QED
      BY <1>0, <3>2, <3>3 DEF LogEntry
  <2>4. (\E c \in changes : c.rev >= r) => \E c \in changes' : c.rev >= r
    <3>1. SUFFICES ASSUME NEW c \in changes, c.rev >= r
                   PROVE  \E e \in changes' : e.rev >= r
      OBVIOUS
    <3>2. PICK e \in changes' : e.rev >= c.rev
      BY <2>2
    <3>3. e \in changes
      BY <2>1
    <3> QED
      BY <1>0, <3>1, <3>2, <3>3 DEF LogEntry
  <2> QED
    BY <2>1, <2>2, <2>3, <2>4 DEF ServerCopy, HasRow
<1>5. CASE UNCHANGED serverVars
  BY <1>0, <1>5 DEF serverVars, Covered, ServerCopy, HasRow
<1>6. CASE \E d \in Device, batch \in Batch : Push(d, batch)
  BY <1>1, <1>6
<1>7. CASE \E m \in Note : Age(m)
  BY <1>0, <1>3, <1>7 DEF Covered
<1>8. CASE CompactEntityChanges
  BY <1>0, <1>4, <1>8
<1>9. CASE CleanupTrash
  BY <1>2, <1>9
<1> QED
  BY <1>5, <1>6, <1>7, <1>8, <1>9 DEF ServerNext

(* Server steps leave every pull consistent. *)
LEMMA ServerStepInv ==
    ASSUME FeedInv, [ServerNext]_serverVars, UNCHANGED <<pullVars, deviceVars>>
    PROVE  FeedInv'
<1>1. ServerInv'
  BY ServerInvNext DEF FeedInv
<1>2. FeedTypeOK'
  BY <1>1 DEF FeedInv, FeedTypeOK, ServerInv, pullVars, deviceVars
<1>3. SUFFICES ASSUME NEW d \in Device PROVE PullInv(d)'
  BY <1>1, <1>2 DEF FeedInv
<1>4. /\ lastPulled[d] \in Nat /\ end[d] \in Nat /\ current[d] \in Nat
      /\ lastRev \in Nat /\ phase[d] \in PullPhase
  BY DEF FeedInv, FeedTypeOK, ServerTypeOK
<1>5. lastPulled[d] <= lastRev /\ PullInv(d) /\ ServerInv
  BY DEF FeedInv, PullInv, CursorOrder
<1>6. phase[d] # "idle" => current[d] <= lastRev
  BY <1>5 DEF PullInv, CursorOrder
<1>7. phase[d] \in {"page", "changes", "response", "applied"}
         => end[d] <= lastRev
  BY <1>4, <1>5, <1>6 DEF PullInv, CursorOrder
<1>8. UNCHANGED <<phase[d], current[d], end[d], more[d], upserts[d],
                  deletes[d], notes[d], lastPulled[d], shown[d]>>
  BY DEF pullVars, deviceVars
<1>9. ChangesRead(d)' /\ ResponseReady(d)' /\ PageApplied(d)'
  <2>1. SUFFICES ASSUME phase[d] \in {"changes", "response", "applied"}
                 PROVE  ChangesRead(d)' /\ ResponseReady(d)' /\ PageApplied(d)'
    BY <1>8 DEF ChangesRead, ResponseReady, PageApplied
  <2>2. \A n \in Note : Covered(n, end[d])' =>
            /\ Covered(n, end[d])
            /\ ServerCopy(n)' = ServerCopy(n)
            /\ HasRow(n)' <=> HasRow(n)
    <3>1. \A n \in Note : Covered(n, end[d])' <=>
              \A c \in changes' : c.note = n => c.rev <= end[d]
      BY <1>8 DEF Covered
    <3> DEFINE r == end[d]
    <3>2. r \in Nat /\ r <= lastRev
      BY <1>4, <1>7, <2>1
    <3>3. \A n \in Note : (\A c \in changes' : c.note = n => c.rev <= r) =>
            /\ Covered(n, r)
            /\ ServerCopy(n)' = ServerCopy(n)
            /\ HasRow(n)' <=> HasRow(n)
      <4> HIDE DEF r
      <4> QED
        BY <1>5, <3>2, ServerStep DEF Covered
    <3> QED
      BY <3>1, <3>3
  <2>3. ChangesRead(d) /\ ResponseReady(d) /\ PageApplied(d)
    BY <1>5 DEF PullInv
  <2>4. ChangesRead(d)'
    BY <1>8, <2>2, <2>3 DEF ChangesRead
  <2>5. ResponseReady(d)'
    BY <1>8, <2>2, <2>3 DEF ResponseReady
  <2>6. PageApplied(d)'
    BY <1>8, <2>2, <2>3 DEF PageApplied
  <2> QED
    BY <2>4, <2>5, <2>6
<1>10. CursorOrder(d)'
  <2>1. lastRev' \in Nat /\ lastRev' >= lastRev
    BY <1>4, <1>5, ServerStep
  <2>2. ASSUME NEW r \in Nat, r <= lastRev, \E c \in changes : c.rev >= r
        PROVE  \E c \in changes' : c.rev >= r
    BY <1>5, <2>2, ServerStep
  <2>3. CursorOrder(d)
    BY <1>5 DEF PullInv
  <2>4. lastPulled[d] = 0 \/ \E c \in changes' : c.rev >= lastPulled[d]
    BY <1>4, <2>2, <2>3 DEF CursorOrder
  <2>5. phase[d] # "idle" =>
            current[d] = 0 \/ \E c \in changes' : c.rev >= current[d]
    BY <1>4, <2>2, <2>3 DEF CursorOrder
  <2> QED
    BY <1>4, <1>8, <2>1, <2>3, <2>4, <2>5 DEF CursorOrder
<1>11. CursorCovers(d)'
  <2> DEFINE r == lastPulled[d]
  <2>1. r \in Nat /\ r <= lastRev
    BY <1>4, <1>5
  <2>2. \A n \in Note : (\A c \in changes' : c.note = n => c.rev <= r) =>
            Covered(n, r) /\ ServerCopy(n)' = ServerCopy(n)
    <3> HIDE DEF r
    <3> QED
      BY <1>5, <2>1, ServerStep DEF Covered
  <2>3. CursorCovers(d)
    BY <1>5 DEF PullInv
  <2> QED
    BY <1>8, <2>2, <2>3 DEF CursorCovers, Covered
<1>12. CopiesFromStore(d)'
  <2>1. \A n \in Note : /\ Version(n) \in Nat /\ Version(n)' \in Nat
                        /\ Version(n)' >= Version(n)
    <3>1. \A n \in Note : Version(n) \in Nat
      BY <1>5, VersionType DEF ServerInv
    <3>2. \A n \in Note : Version(n)' \in Nat
      BY <1>1 DEF ServerInv, ServerTypeOK, Version, HasRow, HasTombstone, Row,
                  Tombstone
    <3>3. VersionStep
      BY <1>5, VersionStepHolds
    <3> QED
      BY <3>1, <3>2, <3>3 DEF VersionStep
  <2>2. \A n \in Note : (\E c \in changes : c.note = n)
                        => \E c \in changes' : c.note = n
    BY <1>4, <1>5, ServerStep
  <2>3. CopiesFromStore(d)
    BY <1>5 DEF PullInv
  <2>4. \A n \in Note : /\ shown[d][n] # None => shown[d][n].version \in Nat
                        /\ notes[d][n] # None => notes[d][n].version \in Nat
    BY DEF FeedInv, FeedTypeOK, NoteCopy
  <2>5. shown' = shown /\ notes' = notes
    BY DEF pullVars, deviceVars
  <2>6. SUFFICES ASSUME NEW n \in Note
                 PROVE  /\ shown[d][n] # None =>
                             /\ shown[d][n].version <= Version(n)'
                             /\ \E c \in changes' : c.note = n
                        /\ notes[d][n] # None =>
                             /\ notes[d][n].version <= Version(n)'
                             /\ \E c \in changes' : c.note = n
                             /\ shown[d][n] # None =>
                                  notes[d][n].version >= shown[d][n].version
    BY <2>5 DEF CopiesFromStore
  <2>7. shown[d][n] # None => shown[d][n].version <= Version(n)'
    BY <2>1, <2>3, <2>4 DEF CopiesFromStore
  <2>8. notes[d][n] # None => notes[d][n].version <= Version(n)'
    BY <2>1, <2>3, <2>4 DEF CopiesFromStore
  <2> QED
    BY <2>2, <2>3, <2>7, <2>8 DEF CopiesFromStore
<1> QED
  BY <1>9, <1>10, <1>11, <1>12 DEF PullInv

(***************************************************************************)
(* Each step of a pull.                                                    *)
(***************************************************************************)
(* A pull owes nothing new when neither it nor the server moves. *)
LEMMA OtherPulls ==
    ASSUME UNCHANGED serverVars, NEW e \in Device, PullInv(e),
           UNCHANGED <<phase[e], current[e], end[e], more[e], upserts[e],
                       deletes[e], notes[e], lastPulled[e], shown[e]>>
    PROVE  PullInv(e)'
BY DEF serverVars, PullInv, ChangesRead, ResponseReady, PageApplied,
       CursorOrder, CursorCovers, CopiesFromStore, Covered, ServerCopy, HasRow,
       HasTombstone, Version

(* A step of one device's pull preserves the invariant if it keeps the types
   and leaves that pull consistent. *)
LEMMA PullFrame ==
    ASSUME FeedInv, UNCHANGED serverVars, NEW d \in Device,
           FeedTypeOK', PullInv(d)',
           \A e \in Device : e # d =>
              UNCHANGED <<phase[e], current[e], end[e], more[e], upserts[e],
                          deletes[e], notes[e], lastPulled[e], shown[e]>>
    PROVE  FeedInv'
<1>1. ServerInv'
  BY ServerInvNext DEF FeedInv
<1>2. \A e \in Device : e # d => PullInv(e)'
  BY OtherPulls DEF FeedInv
<1> QED
  BY <1>1, <1>2 DEF FeedInv

(* The revision a pull starts from is at or past its cursor. *)
LEMMA ReadRevisionInv ==
    ASSUME FeedInv, NEW d \in Device, ReadRevision(d)
    PROVE  FeedInv'
<1>1. /\ phase[d] = "idle" /\ phase' = [phase EXCEPT ![d] = "revision"]
      /\ UNCHANGED <<serverVars, end, more, upserts, deletes, notes, deviceVars>>
  BY DEF ReadRevision
<1>2. PICK r \in 0..lastRev : IsMaxRevision(r)
                              /\ current' = [current EXCEPT ![d] = r]
  BY DEF ReadRevision
<1>3. FeedTypeOK /\ PullInv(d) /\ ServerInv
  BY DEF FeedInv
<1>4. lastPulled[d] \in Nat /\ lastRev \in Nat /\ changes \subseteq LogEntry
  BY <1>3 DEF FeedTypeOK, ServerTypeOK
<1>5. lastPulled[d] <= r
  BY <1>2, <1>3, <1>4 DEF PullInv, CursorOrder, IsMaxRevision, LogEntry
<1>6. r = 0 \/ \E c \in changes : c.rev >= r
  BY <1>2, <1>4 DEF IsMaxRevision, LogEntry
<1>7. FeedTypeOK'
  BY <1>1, <1>2, <1>3, <1>4 DEF FeedTypeOK, ServerTypeOK, PullPhase, serverVars,
                                deviceVars
<1>8. /\ phase'[d] = "revision" /\ current'[d] = r
      /\ lastPulled' = lastPulled /\ shown' = shown /\ notes' = notes
      /\ changes' = changes /\ lastRev' = lastRev /\ rows' = rows
      /\ tombs' = tombs
  BY <1>1, <1>2, <1>3 DEF FeedTypeOK, serverVars, deviceVars
<1>9. CursorOrder(d)'
  BY <1>2, <1>3, <1>4, <1>5, <1>6, <1>8 DEF CursorOrder, PullInv
<1>10. ChangesRead(d)' /\ ResponseReady(d)' /\ PageApplied(d)'
  BY <1>8 DEF ChangesRead, ResponseReady, PageApplied
<1>11. CursorCovers(d)' /\ CopiesFromStore(d)'
  BY <1>3, <1>8 DEF PullInv, CursorCovers, CopiesFromStore, Covered,
                    ServerCopy, HasRow, HasTombstone, Version
<1> QED
  BY <1>1, <1>2, <1>3, <1>7, <1>9, <1>10, <1>11, PullFrame
     DEF PullInv, FeedTypeOK, deviceVars

(* A page with no entries owes nothing: what is covered up to the current
   revision was covered up to the cursor. *)
LEMMA ReadEmptyPageInv ==
    ASSUME FeedInv, NEW d \in Device, ReadEmptyPage(d)
    PROVE  FeedInv'
<1>1. /\ phase[d] = "revision" /\ PageEntries(d) = {}
      /\ end' = [end EXCEPT ![d] = current[d]]
      /\ more' = [more EXCEPT ![d] = FALSE]
      /\ upserts' = [upserts EXCEPT ![d] = {}]
      /\ deletes' = [deletes EXCEPT ![d] = {}]
      /\ notes' = [notes EXCEPT ![d] = [n \in Note |-> None]]
      /\ phase' = [phase EXCEPT ![d] = "response"]
      /\ UNCHANGED <<serverVars, current, deviceVars>>
  BY DEF ReadEmptyPage
<1>2. FeedTypeOK /\ PullInv(d)
  BY DEF FeedInv
<1>3. FeedTypeOK'
  BY <1>1, <1>2 DEF FeedTypeOK, ServerTypeOK, PullPhase, serverVars, deviceVars
<1>4. /\ phase'[d] = "response" /\ end'[d] = current[d] /\ more'[d] = FALSE
      /\ deletes'[d] = {} /\ notes'[d] = [n \in Note |-> None]
      /\ UNCHANGED <<current, lastPulled, shown, rows, tombs, changes, lastRev>>
  BY <1>1, <1>2 DEF FeedTypeOK, serverVars, deviceVars
<1>5. \A n \in Note : Covered(n, current[d]) => Covered(n, lastPulled[d])
  <2>1. SUFFICES ASSUME NEW n \in Note, Covered(n, current[d]),
                        NEW c \in changes, c.note = n
                 PROVE  c.rev <= lastPulled[d]
    BY DEF Covered
  <2>2. c.rev \in Nat /\ lastPulled[d] \in Nat
    BY <1>2 DEF FeedTypeOK, ServerTypeOK, LogEntry
  <2>3. c.rev <= current[d]
    BY <2>1 DEF Covered
  <2> QED
    BY <1>1, <2>2, <2>3 DEF PageEntries
<1>6. \A n \in Note : Covered(n, current[d]) => shown[d][n] = ServerCopy(n)
  BY <1>2, <1>5 DEF PullInv, CursorCovers
<1>7. ResponseReady(d)' /\ ChangesRead(d)' /\ PageApplied(d)'
  BY <1>4, <1>6 DEF ResponseReady, ChangesRead, PageApplied, Covered,
                    ServerCopy, HasRow
<1>8. CursorOrder(d)'
  BY <1>1, <1>2, <1>4 DEF PullInv, CursorOrder, FeedTypeOK
<1>9. CursorCovers(d)' /\ CopiesFromStore(d)'
  BY <1>2, <1>4 DEF PullInv, CursorCovers, CopiesFromStore, Covered,
                    ServerCopy, HasRow, HasTombstone, Version
<1> QED
  BY <1>1, <1>2, <1>3, <1>7, <1>8, <1>9, PullFrame
     DEF PullInv, FeedTypeOK, deviceVars

(* A page ends past the cursor and not past the current revision. *)
LEMMA ReadPageInv ==
    ASSUME FeedInv, NEW d \in Device, ReadPage(d)
    PROVE  FeedInv'
<1>1. PICK last \in PageEntries(d) :
        /\ end' = [end EXCEPT ![d] = last.rev]
        /\ more' = [more EXCEPT
                      ![d] = \E c \in PageEntries(d) : c.rev > last.rev]
  BY DEF ReadPage
<1>2. /\ phase[d] = "revision" /\ phase' = [phase EXCEPT ![d] = "page"]
      /\ UNCHANGED <<serverVars, current, upserts, deletes, notes, deviceVars>>
  BY DEF ReadPage
<1>3. FeedTypeOK /\ PullInv(d)
  BY DEF FeedInv
<1>4. /\ last.rev \in Nat /\ lastPulled[d] \in Nat /\ current[d] \in Nat
      /\ lastPulled[d] < last.rev /\ last.rev <= current[d]
  BY <1>1, <1>3 DEF PageEntries, FeedTypeOK, ServerTypeOK, LogEntry
<1>5. (\E c \in PageEntries(d) : c.rev > last.rev) \in BOOLEAN
  OBVIOUS
<1>6. FeedTypeOK'
  BY <1>1, <1>2, <1>3, <1>4, <1>5 DEF FeedTypeOK, ServerTypeOK, PullPhase,
                                      serverVars, deviceVars
<1>7. /\ phase'[d] = "page" /\ end'[d] = last.rev
      /\ UNCHANGED <<current, notes, lastPulled, shown, rows, tombs, changes,
                     lastRev>>
  BY <1>1, <1>2, <1>3 DEF FeedTypeOK, serverVars, deviceVars
<1>8. CursorOrder(d)'
  BY <1>2, <1>3, <1>4, <1>7 DEF PullInv, CursorOrder
<1>9. ResponseReady(d)' /\ ChangesRead(d)' /\ PageApplied(d)'
  BY <1>7 DEF ResponseReady, ChangesRead, PageApplied
<1>10. CursorCovers(d)' /\ CopiesFromStore(d)'
  BY <1>3, <1>7 DEF PullInv, CursorCovers, CopiesFromStore, Covered,
                    ServerCopy, HasRow, HasTombstone, Version
<1> QED
  BY <1>1, <1>2, <1>3, <1>6, <1>8, <1>9, <1>10, PullFrame
     DEF PullInv, FeedTypeOK, deviceVars

(* The newest operation of a covered note inside the page is its newest in the
   log, and tells what the server has of it. *)
LEMMA ReadChangesInv ==
    ASSUME FeedInv, NEW d \in Device, ReadChanges(d)
    PROVE  FeedInv'
<1>1. /\ phase[d] = "page" /\ phase' = [phase EXCEPT ![d] = "changes"]
      /\ upserts' = [upserts EXCEPT ![d] = NewestInPage(d, "upsert")]
      /\ deletes' = [deletes EXCEPT ![d] = NewestInPage(d, "delete")]
      /\ UNCHANGED <<serverVars, current, end, more, notes, deviceVars>>
  BY DEF ReadChanges
<1>2. FeedTypeOK /\ PullInv(d) /\ ServerInv
  BY DEF FeedInv
<1>3. FeedTypeOK'
  BY <1>1, <1>2 DEF FeedTypeOK, ServerTypeOK, PullPhase, serverVars, deviceVars,
                    NewestInPage
<1>4. /\ phase'[d] = "changes" /\ upserts'[d] = NewestInPage(d, "upsert")
      /\ deletes'[d] = NewestInPage(d, "delete")
      /\ UNCHANGED <<current, end, more, notes, lastPulled, shown, rows, tombs,
                     changes, lastRev>>
  BY <1>1, <1>2 DEF FeedTypeOK, serverVars, deviceVars
<1>5. /\ changes \subseteq LogEntry /\ lastPulled[d] \in Nat /\ end[d] \in Nat
  BY <1>2 DEF FeedTypeOK, ServerTypeOK
<1>6. ASSUME NEW n \in Note, Covered(n, end[d])
      PROVE  \/ n \in upserts'[d] /\ HasRow(n)
             \/ n \notin upserts'[d] /\ n \in deletes'[d] /\ ServerCopy(n) = None
             \/ n \notin upserts'[d] /\ n \notin deletes'[d]
                /\ shown[d][n] = ServerCopy(n)
  <2>1. CASE \E c \in InPage(d) : c.note = n
    <3>1. PICK c \in InPage(d) : c.note = n
      BY <2>1
    <3>2. PICK e \in changes : e.note = n /\ IsLatest(e, changes)
      BY <1>2, <3>1 DEF ServerInv, NewestKept, InPage
    <3>3. e \in InPage(d) /\ IsLatest(e, InPage(d))
      BY <1>5, <1>6, <3>1, <3>2 DEF InPage, IsLatest, Covered, LogEntry
    <3>4. \A x \in InPage(d) : x.note = n /\ IsLatest(x, InPage(d)) => x = e
      BY <1>2, <1>5, <3>2, <3>3 DEF IsLatest, InPage, ServerInv, LogOrdered,
                                    LogEntry
    <3>5. e.op = "upsert" \/ e.op = "delete"
      BY <1>5 DEF LogEntry, Operation
    <3>6. CASE e.op = "upsert"
      BY <1>2, <1>4, <3>2, <3>3, <3>6
         DEF NewestInPage, ServerInv, LogMatchesStore
    <3>7. CASE e.op = "delete"
      <4>1. ~HasRow(n)
        BY <1>2, <3>2, <3>7 DEF ServerInv, LogMatchesStore
      <4> QED
        BY <1>4, <3>2, <3>3, <3>4, <3>7, <4>1 DEF NewestInPage, ServerCopy
    <3> QED
      BY <3>5, <3>6, <3>7
  <2>2. CASE ~\E c \in InPage(d) : c.note = n
    <3>1. Covered(n, lastPulled[d])
      BY <1>5, <1>6, <2>2 DEF Covered, InPage, LogEntry
    <3> QED
      BY <1>2, <1>4, <2>2, <3>1 DEF PullInv, CursorCovers, NewestInPage
  <2> QED
    BY <2>1, <2>2
<1>7. ChangesRead(d)' /\ ResponseReady(d)' /\ PageApplied(d)'
  BY <1>4, <1>6 DEF ChangesRead, ResponseReady, PageApplied, Covered,
                    ServerCopy, HasRow
<1>8. CursorOrder(d)'
  BY <1>1, <1>2, <1>4 DEF PullInv, CursorOrder
<1>9. CursorCovers(d)' /\ CopiesFromStore(d)'
  BY <1>2, <1>4 DEF PullInv, CursorCovers, CopiesFromStore, Covered,
                    ServerCopy, HasRow, HasTombstone, Version
<1> QED
  BY <1>1, <1>2, <1>3, <1>7, <1>8, <1>9, PullFrame
     DEF PullInv, FeedTypeOK, deviceVars

(* The rows read for a covered note are what the server still has of it. *)
LEMMA ReadRowsInv ==
    ASSUME FeedInv, NEW d \in Device, ReadRows(d)
    PROVE  FeedInv'
<1>1. /\ phase[d] = "changes" /\ phase' = [phase EXCEPT ![d] = "response"]
      /\ notes' = [notes EXCEPT ![d] =
                     [n \in Note |-> IF n \in upserts[d] /\ HasRow(n)
                                     THEN CopyOf(rows[n]) ELSE None]]
      /\ UNCHANGED <<serverVars, current, end, more, upserts, deletes,
                     deviceVars>>
  BY DEF ReadRows
<1>2. FeedTypeOK /\ PullInv(d) /\ ServerInv
  BY DEF FeedInv
<1>3. \A n \in Note : HasRow(n) => /\ CopyOf(rows[n]) \in NoteCopy
                                   /\ CopyOf(rows[n]) # None
                                   /\ CopyOf(rows[n]).version = Version(n)
  BY <1>2 DEF ServerInv, ServerTypeOK, HasRow, CopyOf, NoteCopy, Row, Version
<1>4. [n \in Note |-> IF n \in upserts[d] /\ HasRow(n)
                      THEN CopyOf(rows[n]) ELSE None]
         \in [Note -> NoteCopy \union {None}]
  BY <1>3
<1>5. FeedTypeOK'
  BY <1>1, <1>2, <1>4 DEF FeedTypeOK, ServerTypeOK, PullPhase, serverVars,
                          deviceVars
<1>6. /\ phase'[d] = "response"
      /\ \A n \in Note : notes'[d][n] = IF n \in upserts[d] /\ HasRow(n)
                                        THEN CopyOf(rows[n]) ELSE None
      /\ UNCHANGED <<current, end, more, upserts, deletes, lastPulled, shown, rows,
                     tombs, changes, lastRev>>
  BY <1>1, <1>2 DEF FeedTypeOK, serverVars, deviceVars
<1>7. ASSUME NEW n \in Note, Covered(n, end[d])
      PROVE  IF notes'[d][n] # None THEN notes'[d][n] = ServerCopy(n)
             ELSE IF n \in deletes[d] THEN ServerCopy(n) = None
             ELSE shown[d][n] = ServerCopy(n)
  <2>1. \/ n \in upserts[d] /\ HasRow(n)
        \/ n \notin upserts[d] /\ n \in deletes[d] /\ ServerCopy(n) = None
        \/ n \notin upserts[d] /\ n \notin deletes[d]
           /\ shown[d][n] = ServerCopy(n)
    BY <1>1, <1>2, <1>7 DEF PullInv, ChangesRead
  <2> QED
    BY <1>3, <1>6, <2>1 DEF ServerCopy
<1>8. ChangesRead(d)' /\ ResponseReady(d)' /\ PageApplied(d)'
  BY <1>6, <1>7 DEF ChangesRead, ResponseReady, PageApplied, Covered,
                    ServerCopy, HasRow
<1>9. CursorOrder(d)'
  BY <1>1, <1>2, <1>6 DEF PullInv, CursorOrder
<1>10. CursorCovers(d)'
  BY <1>2, <1>6 DEF PullInv, CursorCovers, Covered, ServerCopy, HasRow
<1>11. CopiesFromStore(d)'
  <2>1. SUFFICES ASSUME NEW n \in Note
                 PROVE  /\ shown[d][n] # None =>
                             /\ shown[d][n].version <= Version(n)
                             /\ \E c \in changes : c.note = n
                        /\ notes'[d][n] # None =>
                             /\ notes'[d][n].version <= Version(n)
                             /\ \E c \in changes : c.note = n
                             /\ shown[d][n] # None =>
                                  notes'[d][n].version >= shown[d][n].version
    BY <1>6 DEF CopiesFromStore, Version, HasRow, HasTombstone
  <2>2. Version(n) \in Nat
    BY <1>2, VersionType DEF ServerInv
  <2>3. shown[d][n] # None => /\ shown[d][n].version \in Nat
                              /\ shown[d][n].version <= Version(n)
                              /\ \E c \in changes : c.note = n
    BY <1>2 DEF PullInv, CopiesFromStore, FeedTypeOK, NoteCopy
  <2>4. HasRow(n) => \E c \in changes : c.note = n
    BY <1>2 DEF ServerInv, LogMatchesStore
  <2>5. notes'[d][n] # None => HasRow(n) /\ notes'[d][n].version = Version(n)
    BY <1>3, <1>6
  <2> QED
    BY <2>2, <2>3, <2>4, <2>5
<1> QED
  BY <1>1, <1>2, <1>5, <1>8, <1>9, <1>10, <1>11, PullFrame
     DEF PullInv, FeedTypeOK, deviceVars

(* A page applied leaves every note it covers as the server has it. *)
LEMMA ApplyInv ==
    ASSUME FeedInv, NEW d \in Device, Apply(d)
    PROVE  FeedInv'
<1>1. /\ phase[d] = "response" /\ phase' = [phase EXCEPT ![d] = "applied"]
      /\ shown' = [shown EXCEPT ![d] = [n \in Note |->
                     IF notes[d][n] # None THEN notes[d][n]
                     ELSE IF n \in deletes[d] THEN None
                     ELSE shown[d][n]]]
      /\ UNCHANGED <<serverVars, current, end, more, upserts, deletes, notes,
                     lastPulled>>
  BY DEF Apply
<1>2. FeedTypeOK /\ PullInv(d)
  BY DEF FeedInv
<1>3. FeedTypeOK'
  <2>1. [n \in Note |-> IF notes[d][n] # None THEN notes[d][n]
                        ELSE IF n \in deletes[d] THEN None
                        ELSE shown[d][n]] \in [Note -> NoteCopy \union {None}]
    BY <1>2 DEF FeedTypeOK
  <2> QED
    BY <1>1, <1>2, <2>1 DEF FeedTypeOK, ServerTypeOK, PullPhase, serverVars
<1>4. /\ phase'[d] = "applied"
      /\ \A n \in Note : shown'[d][n] = IF notes[d][n] # None THEN notes[d][n]
                                        ELSE IF n \in deletes[d] THEN None
                                        ELSE shown[d][n]
      /\ UNCHANGED <<current, end, more, upserts, deletes, notes, lastPulled, rows,
                     tombs, changes, lastRev>>
  BY <1>1, <1>2 DEF FeedTypeOK, serverVars
<1>5. \A n \in Note : Covered(n, end[d]) => shown'[d][n] = ServerCopy(n)
  BY <1>1, <1>2, <1>4 DEF PullInv, ResponseReady
<1>6. ChangesRead(d)' /\ ResponseReady(d)' /\ PageApplied(d)'
  BY <1>4, <1>5 DEF ChangesRead, ResponseReady, PageApplied, Covered,
                    ServerCopy, HasRow
<1>7. CursorOrder(d)'
  BY <1>1, <1>2, <1>4 DEF PullInv, CursorOrder
<1>8. CursorCovers(d)'
  <2>1. /\ lastPulled[d] \in Nat /\ end[d] \in Nat /\ lastPulled[d] <= end[d]
        /\ changes \subseteq LogEntry
    BY <1>1, <1>2 DEF PullInv, CursorOrder, FeedTypeOK, ServerTypeOK
  <2>2. \A n \in Note : Covered(n, lastPulled[d]) => Covered(n, end[d])
    BY <2>1 DEF Covered, LogEntry
  <2> QED
    BY <1>4, <1>5, <2>2 DEF CursorCovers, Covered, ServerCopy, HasRow
<1>9. CopiesFromStore(d)'
  <2>1. SUFFICES ASSUME NEW n \in Note
                 PROVE  /\ shown'[d][n] # None =>
                             /\ shown'[d][n].version <= Version(n)
                             /\ \E c \in changes : c.note = n
                        /\ notes[d][n] # None =>
                             /\ notes[d][n].version <= Version(n)
                             /\ \E c \in changes : c.note = n
                             /\ shown'[d][n] # None =>
                                  notes[d][n].version >= shown'[d][n].version
    BY <1>4 DEF CopiesFromStore, Version, HasRow, HasTombstone
  <2>2. notes[d][n] # None => notes[d][n].version \in Nat
    BY <1>2 DEF FeedTypeOK, NoteCopy
  <2>3. CopiesFromStore(d)
    BY <1>2 DEF PullInv
  <2>4. CASE notes[d][n] # None
    BY <1>4, <2>2, <2>3, <2>4 DEF CopiesFromStore
  <2>5. CASE notes[d][n] = None
    BY <1>4, <2>3, <2>5 DEF CopiesFromStore
  <2> QED
    BY <2>4, <2>5
<1> QED
  BY <1>1, <1>2, <1>3, <1>6, <1>7, <1>8, <1>9, PullFrame
     DEF PullInv, FeedTypeOK

(* What is left when a pull ends: the saved cursor and the copies. *)
LEMMA ForgetInv ==
    ASSUME FeedInv, NEW d \in Device, Forget(d), UNCHANGED <<serverVars, shown>>,
           NEW r \in Nat, lastPulled' = [lastPulled EXCEPT ![d] = r],
           r <= lastRev, r = 0 \/ \E c \in changes : c.rev >= r,
           \A n \in Note : Covered(n, r) => shown[d][n] = ServerCopy(n)
    PROVE  FeedInv'
<1>1. FeedTypeOK /\ PullInv(d)
  BY DEF FeedInv
<1>2. /\ phase' = [phase EXCEPT ![d] = "idle"]
      /\ current' = [current EXCEPT ![d] = 0]
      /\ end' = [end EXCEPT ![d] = 0]
      /\ more' = [more EXCEPT ![d] = FALSE]
      /\ upserts' = [upserts EXCEPT ![d] = {}]
      /\ deletes' = [deletes EXCEPT ![d] = {}]
      /\ notes' = [notes EXCEPT ![d] = [n \in Note |-> None]]
  BY DEF Forget
<1>3. FeedTypeOK'
  BY <1>1, <1>2 DEF FeedTypeOK, ServerTypeOK, PullPhase, serverVars
<1>4. /\ phase'[d] = "idle" /\ lastPulled'[d] = r
      /\ \A n \in Note : notes'[d][n] = None
      /\ UNCHANGED <<shown, rows, tombs, changes, lastRev>>
  BY <1>1, <1>2 DEF FeedTypeOK, serverVars
<1>5. ChangesRead(d)' /\ ResponseReady(d)' /\ PageApplied(d)' /\ CursorOrder(d)'
  BY <1>4 DEF ChangesRead, ResponseReady, PageApplied, CursorOrder
<1>6. CursorCovers(d)' /\ CopiesFromStore(d)'
  BY <1>1, <1>4 DEF PullInv, CursorCovers, CopiesFromStore, Covered,
                    ServerCopy, HasRow, HasTombstone, Version
<1> QED
  BY <1>1, <1>2, <1>3, <1>5, <1>6, PullFrame DEF PullInv, FeedTypeOK

(* Saving the cursor keeps what the page delivered. *)
LEMMA SaveLastPulledInv ==
    ASSUME FeedInv, NEW d \in Device, SaveLastPulled(d)
    PROVE  FeedInv'
<1>1. /\ phase[d] = "applied" /\ lastPulled' = [lastPulled EXCEPT ![d] = end[d]]
      /\ Forget(d) /\ UNCHANGED <<serverVars, shown>>
  BY DEF SaveLastPulled
<1>2. FeedTypeOK /\ CursorOrder(d) /\ PageApplied(d)
  BY DEF FeedInv, PullInv
<1>3. /\ end[d] \in Nat /\ current[d] \in Nat /\ lastRev \in Nat
      /\ changes \subseteq LogEntry
  BY <1>2 DEF FeedTypeOK, ServerTypeOK
<1>4. end[d] <= current[d] /\ current[d] <= lastRev
  BY <1>1, <1>2 DEF CursorOrder
<1>5. end[d] = 0 \/ \E c \in changes : c.rev >= end[d]
  BY <1>1, <1>2, <1>3, <1>4 DEF CursorOrder, LogEntry
<1>6. \A n \in Note : Covered(n, end[d]) => shown[d][n] = ServerCopy(n)
  BY <1>1, <1>2 DEF PageApplied
<1> DEFINE r == end[d]
<1>7. /\ r \in Nat /\ r <= lastRev
      /\ r = 0 \/ \E c \in changes : c.rev >= r
      /\ \A n \in Note : Covered(n, r) => shown[d][n] = ServerCopy(n)
      /\ lastPulled' = [lastPulled EXCEPT ![d] = r]
  BY <1>1, <1>3, <1>4, <1>5, <1>6
<1> HIDE DEF r
<1> QED
  BY <1>1, <1>7, ForgetInv

(* An abandoned pull leaves the cursor where it was. *)
LEMMA AbandonInv ==
    ASSUME FeedInv, NEW d \in Device, Abandon(d)
    PROVE  FeedInv'
<1>1. Forget(d) /\ UNCHANGED <<serverVars, deviceVars>>
  BY DEF Abandon
<1>2. FeedTypeOK /\ CursorOrder(d) /\ CursorCovers(d)
  BY DEF FeedInv, PullInv
<1>3. lastPulled[d] \in Nat /\ lastPulled' = [lastPulled EXCEPT ![d] = lastPulled[d]]
  BY <1>1, <1>2 DEF FeedTypeOK, deviceVars
<1> QED
  BY <1>1, <1>2, <1>3, ForgetInv DEF CursorOrder, CursorCovers, deviceVars

(***************************************************************************)
(* The invariant of the feed, and the theorems.                            *)
(***************************************************************************)
(* A server without notes and devices without pulls satisfy the invariant. *)
LEMMA FeedInvInit == FeedInit => FeedInv
<1> SUFFICES ASSUME FeedInit PROVE FeedInv
  OBVIOUS
<1>1. ServerInv
  BY ServerInvInit DEF FeedInit
<1>2. FeedTypeOK
  BY <1>1 DEF FeedInit, FeedTypeOK, ServerInv, PullPhase
<1>3. \A d \in Device : PullInv(d)
  BY DEF FeedInit, ServerInit, PullInv, ChangesRead, ResponseReady,
         PageApplied, CursorOrder, CursorCovers, CopiesFromStore, ServerCopy,
         HasRow
<1> QED
  BY <1>1, <1>2, <1>3 DEF FeedInv

(* The limits change no transaction: what they let happen, the store without
   them does too. *)
LEMMA LimitedIsServer == LimitedServerNext => ServerNext
BY DEF LimitedServerNext, ServerNext, PushWithinLimits

(* Every step of the server and of every pull preserves it. *)
LEMMA FeedInvNext == FeedInv /\ [FeedNext]_feedVars => FeedInv'
<1> SUFFICES ASSUME FeedInv, [FeedNext]_feedVars PROVE FeedInv'
  OBVIOUS
<1>1. CASE LimitedServerNext /\ UNCHANGED <<pullVars, deviceVars>>
  BY <1>1, LimitedIsServer, ServerStepInv
<1>2. ASSUME NEW d \in Device, PullStep(d) PROVE FeedInv'
  BY <1>2, ReadRevisionInv, ReadEmptyPageInv, ReadPageInv, ReadChangesInv,
     ReadRowsInv, ApplyInv, SaveLastPulledInv DEF PullStep
<1>3. ASSUME NEW d \in Device, Abandon(d) PROVE FeedInv'
  BY <1>3, AbandonInv
<1>4. CASE UNCHANGED feedVars
  BY <1>4, ServerStepInv DEF feedVars
<1> QED
  BY <1>1, <1>2, <1>3, <1>4 DEF FeedNext

(* The inductive invariant holds in every state of the feed. *)
THEOREM FeedInvariant == FeedSpec => []FeedInv
BY FeedInvInit, FeedInvNext, PTL DEF FeedSpec

(* Store, pulls and devices keep their types. *)
THEOREM FeedTypeCorrect == FeedSpec => []FeedTypeOK
<1>1. FeedInv => FeedTypeOK
  BY DEF FeedInv
<1> QED
  BY <1>1, FeedInvariant, PTL

(* A saved cursor at or past the newest change of a note means that the device
   shows what the server has of it, for any number of devices and notes, any
   page limit and any interleaving of the four queries with transactions. *)
THEOREM NoChangeSkipped == FeedSpec => []CursorCoversStore
<1>1. FeedInv => CursorCoversStore
  BY DEF FeedInv, PullInv, CursorCovers, CursorCoversStore
<1> QED
  BY <1>1, FeedInvariant, PTL

(* The client's cursor check never rejects a page of an intact log. *)
THEOREM PullsAdvance == FeedSpec => []PagesAdvance
<1>1. FeedInv => PagesAdvance
  BY DEF FeedInv, PullInv, CursorOrder, PagesAdvance, SafeRevisionCursor,
         FeedTypeOK
<1> QED
  BY <1>1, FeedInvariant, PTL

(* No step shows an older version of a note than the one it replaces. *)
THEOREM CopiesMoveForward == FeedSpec => NeverOlder
<1> DEFINE Forward == \A d \in Device, n \in Note :
              (shown[d][n] # None /\ shown'[d][n] # None)
                 => shown'[d][n].version >= shown[d][n].version
<1>1. FeedInv /\ [FeedNext]_feedVars => [Forward]_feedVars
  <2> SUFFICES ASSUME FeedInv, FeedNext PROVE Forward
    OBVIOUS
  <2>1. SUFFICES ASSUME NEW d \in Device, NEW n \in Note,
                        shown[d][n] # None, shown'[d][n] # None
                 PROVE  shown'[d][n].version >= shown[d][n].version
    OBVIOUS
  <2>2. FeedTypeOK /\ CopiesFromStore(d)
    BY DEF FeedInv, PullInv
  <2>3. shown[d][n].version \in Nat
    BY <2>1, <2>2 DEF FeedTypeOK, NoteCopy
  <2>4. ASSUME NEW e \in Device, Apply(e)
        PROVE  shown'[d][n] = shown[d][n] \/ shown'[d][n] = notes[d][n]
               \/ shown'[d][n] = None
    BY <2>2, <2>4 DEF Apply, FeedTypeOK
  <2>5. ASSUME NEW e \in Device, PullStep(e), ~Apply(e)
        PROVE  shown' = shown
    BY <2>5 DEF PullStep, ReadRevision, ReadEmptyPage, ReadPage, ReadChanges,
                ReadRows, SaveLastPulled, deviceVars
  <2>6. ASSUME NEW e \in Device, Abandon(e)
        PROVE  shown' = shown
    BY <2>6 DEF Abandon, deviceVars
  <2>7. shown'[d][n] = shown[d][n] \/ shown'[d][n] = notes[d][n]
        \/ shown'[d][n] = None
    BY <2>1, <2>4, <2>5, <2>6 DEF FeedNext, deviceVars
  <2> QED
    BY <2>1, <2>2, <2>3, <2>7 DEF CopiesFromStore
<1> QED
  BY <1>1, FeedInvariant, PTL DEF FeedSpec, NeverOlder

(***************************************************************************)
(* The storage limits.  A push is judged by numbers of notes and bytes, so *)
(* the lemmas are about cardinalities: that they are natural numbers, and  *)
(* that the projected number of notes bounds the number there will be.     *)
(***************************************************************************)
LEMMA BytesType ==
    ASSUME NEW records, DOMAIN records \subseteq Note
    PROVE  Bytes(records) \in Nat
<1> DEFINE all == (DOMAIN records) \X (1..LargestNote)
           counted == {p \in all : p[2] <= NoteBytes[records[p[1]].content]}
<1>1. IsFiniteSet(DOMAIN records)
  BY NoteAssumption, FS_Subset
<1>2. IsFiniteSet(1..LargestNote)
  BY LimitsAssumption, FS_Interval
<1>3. IsFiniteSet(all)
  BY <1>1, <1>2, FS_Product
<1>4. IsFiniteSet(counted)
  BY <1>3, FS_Subset
<1>5. Cardinality(counted) \in Nat
  BY <1>4, FS_CardinalityType
<1> QED
  BY <1>5 DEF Bytes

LEMMA NoBytes ==
    ASSUME NEW records, DOMAIN records = {}
    PROVE  Bytes(records) = 0
<1>1. {p \in (DOMAIN records) \X (1..LargestNote) :
          p[2] <= NoteBytes[records[p[1]].content]} = {}
  OBVIOUS
<1> QED
  BY <1>1, FS_EmptySet DEF Bytes

LEMMA MaxNotesType == ASSUME NEW users \in Users PROVE MaxNotes(users) \in Nat
<1>1. /\ users \in Nat \ {0} /\ Budget \in Nat
      /\ EstimatedNoteBytes \in Nat \ {0}
  BY LimitsAssumption
<1>2. (9 * Budget) \div (10 * users) \in Int
  BY <1>1
<1>3. MaxNoteBytes(users) \in Int
  BY <1>2 DEF MaxNoteBytes, AtLeastOne
<1>4. MaxNoteBytes(users) \div EstimatedNoteBytes \in Int
  BY <1>1, <1>3
<1> QED
  BY <1>4 DEF MaxNotes, AtLeastOne

LEMMA ActiveFinite ==
    ASSUME NEW S PROVE
    /\ IsFiniteSet(ActiveNotes) /\ Cardinality(ActiveNotes) \in Nat
    /\ IsFiniteSet(S \intersect ActiveNotes)
    /\ Cardinality(S \intersect ActiveNotes) \in Nat
<1>1. ActiveNotes \subseteq Note /\ S \intersect ActiveNotes \subseteq Note
  BY DEF ActiveNotes
<1>2. IsFiniteSet(ActiveNotes) /\ IsFiniteSet(S \intersect ActiveNotes)
  BY <1>1, NoteAssumption, FS_Subset
<1> QED
  BY <1>2, FS_CardinalityType

(* A delete of active notes at their versions is written, all of it. *)
LEMMA DeletesAreWritten ==
    ASSUME NEW ids \in SUBSET ActiveNotes
    PROVE  Written(DeleteAll(ids)) = ids
<1> DEFINE batch == DeleteAll(ids)
<1>1. DOMAIN batch = ids
  BY DEF DeleteAll
<1>2. ASSUME NEW n \in ids PROVE Writes(n, batch[n])
  <2>1. batch[n].life = "deleted" /\ batch[n].base = rows[n].version
    BY DEF DeleteAll
  <2>2. HasRow(n) /\ rows[n].life # "deleted"
    BY DEF ActiveNotes
  <2> HIDE DEF batch
  <2> QED
    BY <2>1, <2>2 DEF Writes, Refused, DeletedRemotely, RemoteChanged,
                      ShouldConflict, AlreadyThere, RecordsDiffer
<1> QED
  BY <1>1, <1>2 DEF Written

LEMMA RoomToDelete == AlwaysRoomToDelete
<1> SUFFICES ASSUME NEW ids \in (SUBSET ActiveNotes) \ {{}},
                    NEW users \in Users, NEW other \in OtherBytes
             PROVE  /\ LimitsAllow(DeleteAll(ids), users, other)
                    /\ Written(DeleteAll(ids)) = ids
  BY DEF AlwaysRoomToDelete
<1> DEFINE batch == DeleteAll(ids)
           count == CountUsage(batch, users)
           bytes == ByteUsage(batch, users)
<1>1. /\ DOMAIN batch = ids
      /\ \A n \in ids : batch[n].life = "deleted"
                        /\ batch[n].base = rows[n].version
  BY DEF DeleteAll
<1> HIDE DEF batch
<1>2. SentActive(batch) = {} /\ SentDeleted(batch) = ids
  BY <1>1 DEF SentActive, SentDeleted
<1>3. ids \intersect ActiveNotes = ids
  OBVIOUS
<1>4. IsFiniteSet(ids) /\ Cardinality(ids) \in Nat
  BY <1>3, ActiveFinite
<1>5. Cardinality(ids) # 0
  BY <1>4, FS_EmptySet
<1>6. count.projected < count.current /\ count.projected <= count.current
  <2>1. Cardinality({}) = 0 /\ {} \intersect ActiveNotes = {}
    BY FS_EmptySet
  <2>2. Cardinality(ActiveNotes) \in Nat
    BY ActiveFinite
  <2>3. count.current = Cardinality(ActiveNotes)
    BY DEF CountUsage
  <2>4. count.projected = Cardinality(ActiveNotes) + 0 - 0 - Cardinality(ids)
    BY <1>2, <1>3, <2>1 DEF CountUsage
  <2> QED
    BY <1>4, <1>5, <2>2, <2>3, <2>4
<1>7. bytes.projected <= bytes.current
  <2>1. StoredBytes(ActiveNotes) \in Nat
    BY BytesType DEF StoredBytes, ActiveNotes
  <2>2. StoredBytes(ids) \in Nat
    BY BytesType DEF StoredBytes, ActiveNotes
  <2>3. Bytes([n \in SentActive(batch) |-> batch[n]]) = 0
    BY <1>2, NoBytes
  <2>4. bytes.current = StoredBytes(ActiveNotes)
    BY DEF ByteUsage
  <2>5. bytes.projected = StoredBytes(ActiveNotes) - StoredBytes(ids) + 0
    BY <1>1, <1>3, <2>3 DEF ByteUsage
  <2> QED
    BY <2>1, <2>2, <2>4, <2>5
<1>8. Reduces({count, bytes})
  <2> HIDE DEF count, bytes
  <2> QED
    BY <1>6, <1>7 DEF Reduces
<1>9. GuaranteedActiveDeletes(batch)
  BY <1>1 DEF GuaranteedActiveDeletes
<1>10. LimitsAllow(batch, users, other)
  BY <1>8, <1>9 DEF LimitsAllow
<1> QED
  BY <1>10, DeletesAreWritten DEF batch

LEMMA ProjectionBounds ==
    ASSUME NEW batch \in Batch, ~StaleDelete(batch), NEW users \in Users
    PROVE  /\ CountUsage(batch, users).projected \in Int
           /\ Cardinality(ActiveAfter(batch)) \in Nat
           /\ Cardinality(ActiveAfter(batch))
                <= CountUsage(batch, users).projected
<1> DEFINE sentNotes == SentActive(batch)
           gone      == SentDeleted(batch)
           kept      == ActiveNotes \ gone
           new       == sentNotes \ ActiveNotes
<1>1. DOMAIN batch \subseteq Note
  BY DEF Batch
<1>2. sentNotes \subseteq Note /\ gone \subseteq Note
  BY <1>1 DEF SentActive, SentDeleted
<1>3. ActiveAfter(batch) \subseteq kept \union new
  <2> SUFFICES ASSUME NEW n \in ActiveAfter(batch)
               PROVE  n \in kept \/ n \in new
    OBVIOUS
  <2>1. CASE n \in Written(batch)
    BY <2>1 DEF ActiveAfter, Written, SentActive, SentDeleted
  <2>2. CASE n \notin Written(batch)
    <3>1. n \in ActiveNotes
      BY <2>2 DEF ActiveAfter
    <3>2. ASSUME n \in gone PROVE FALSE
      <4>1. n \in DOMAIN batch /\ batch[n].life = "deleted"
            /\ ~Refused(n, batch[n])
        BY <3>2 DEF SentDeleted, StaleDelete
      <4>2. rows[n].life # "deleted"
        BY <3>1 DEF ActiveNotes
      <4>3. ~AlreadyThere(n, batch[n])
        BY <4>1, <4>2 DEF AlreadyThere, RecordsDiffer
      <4> QED
        BY <2>2, <4>1, <4>3 DEF Written, Writes
    <3> QED
      BY <3>1, <3>2
  <2> QED
    BY <2>1, <2>2
<1>4. IsFiniteSet(sentNotes) /\ Cardinality(sentNotes) \in Nat
  BY <1>2, NoteAssumption, FS_Subset, FS_CardinalityType
<1>5. /\ IsFiniteSet(kept) /\ Cardinality(kept) \in Nat
      /\ Cardinality(kept) = Cardinality(ActiveNotes)
                               - Cardinality(ActiveNotes \intersect gone)
  BY ActiveFinite, FS_Difference, FS_CardinalityType
<1>6. /\ IsFiniteSet(new) /\ Cardinality(new) \in Nat
      /\ Cardinality(new) = Cardinality(sentNotes)
                              - Cardinality(sentNotes \intersect ActiveNotes)
  BY <1>4, FS_Difference, FS_CardinalityType
<1>7. /\ IsFiniteSet(kept \union new)
      /\ Cardinality(kept \union new) = Cardinality(kept) + Cardinality(new)
                                          - Cardinality(kept \intersect new)
  BY <1>5, <1>6, FS_Union
<1>8. Cardinality(kept \intersect new) = 0
  <2>1. kept \intersect new = {}
    OBVIOUS
  <2> QED
    BY <2>1, FS_EmptySet
<1>9. /\ IsFiniteSet(ActiveAfter(batch))
      /\ Cardinality(ActiveAfter(batch)) <= Cardinality(kept \union new)
  BY <1>3, <1>7, FS_Subset
<1>10. Cardinality(ActiveAfter(batch)) \in Nat
  BY <1>9, FS_CardinalityType
<1>11. gone \intersect ActiveNotes = ActiveNotes \intersect gone
  OBVIOUS
<1>12. CountUsage(batch, users).projected =
          Cardinality(ActiveNotes) + Cardinality(sentNotes)
            - Cardinality(sentNotes \intersect ActiveNotes)
            - Cardinality(ActiveNotes \intersect gone)
  BY <1>11 DEF CountUsage
<1>13. /\ Cardinality(ActiveNotes) \in Nat
       /\ Cardinality(sentNotes \intersect ActiveNotes) \in Nat
       /\ Cardinality(ActiveNotes \intersect gone) \in Nat
  BY <1>11, ActiveFinite
<1> HIDE DEF sentNotes, gone, kept, new
<1> QED
  BY <1>4, <1>5, <1>6, <1>7, <1>8, <1>9, <1>10, <1>12, <1>13

LEMMA LimitIsKept == LimitHolds
<1> SUFFICES ASSUME NEW batch \in Batch, NEW users \in Users,
                    NEW other \in OtherBytes,
                    LimitsAllow(batch, users, other), ~StaleDelete(batch)
             PROVE  \/ Cardinality(ActiveAfter(batch)) <= MaxNotes(users)
                    \/ Cardinality(ActiveAfter(batch)) < Cardinality(ActiveNotes)
  BY DEF LimitHolds
<1> DEFINE count == CountUsage(batch, users)
           bytes == ByteUsage(batch, users)
           after == Cardinality(ActiveAfter(batch))
<1>1. /\ count.projected \in Int /\ after \in Nat
      /\ after <= count.projected
  BY ProjectionBounds
<1>2. MaxNotes(users) \in Nat /\ Cardinality(ActiveNotes) \in Nat
  BY MaxNotesType, ActiveFinite
<1>3. /\ count.limit = MaxNotes(users)
      /\ count.current = Cardinality(ActiveNotes)
  BY DEF CountUsage
<1>4. CASE UsageAllowed({count, bytes}
                          \union {TotalUsage(bytes, batch, users, other)})
  <2>1. count.projected <= count.limit
    BY <1>4 DEF UsageAllowed
  <2>2. after <= MaxNotes(users)
    <3> HIDE DEF count, after
    <3> QED
      BY <1>1, <1>2, <1>3, <2>1
  <2> QED
    BY <2>2
<1>5. CASE Reduces({count, bytes}) /\ GuaranteedActiveDeletes(batch)
  <2> DEFINE gone == DOMAIN batch
  <2>1. /\ gone \subseteq ActiveNotes
        /\ SentActive(batch) = {} /\ SentDeleted(batch) = gone
    BY <1>5 DEF GuaranteedActiveDeletes, SentActive, SentDeleted
  <2>2. Cardinality(gone) \in 1..BatchLimit
    BY DEF Batch
  <2>3. gone \intersect ActiveNotes = gone
    BY <2>1
  <2>4. Cardinality(gone) \in Nat /\ Cardinality(gone) >= 1
    BY <2>2, BoundAssumption
  <2>5. Cardinality({}) = 0 /\ {} \intersect ActiveNotes = {}
    BY FS_EmptySet
  <2>6. count.projected = Cardinality(ActiveNotes) + 0 - 0 - Cardinality(gone)
    BY <2>1, <2>3, <2>5 DEF CountUsage
  <2>7. after < Cardinality(ActiveNotes)
    <3> HIDE DEF count, after, gone
    <3> QED
      BY <1>1, <1>2, <2>4, <2>6
  <2> QED
    BY <2>7
<1> QED
  BY <1>4, <1>5 DEF LimitsAllow

(* The limits only refuse pushes: every behaviour of the store with them is
   one of the store without them, so what NoteServerProofs shows holds. *)
THEOREM LimitsOnlyRefuse == LimitedServerSpec => ServerSpec
<1>1. [LimitedServerNext]_serverVars => [ServerNext]_serverVars
  BY LimitedIsServer
<1> QED
  BY <1>1, PTL DEF LimitedServerSpec, ServerSpec

(* However far an account is over its limits, and whatever brought it there, a
   push that deletes active notes at their present versions is let through and
   accepted as a whole. *)
THEOREM DeletingAlwaysPasses == FeedSpec => []AlwaysRoomToDelete
BY RoomToDelete, PTL

(* A push that the limits let through leaves at most the limit of notes, or
   fewer notes than before, unless one of its deletes is refused. *)
THEOREM PushesKeepTheLimit == FeedSpec => []LimitHolds
BY LimitIsKept, PTL

----------------------------------------------------------------------------
(***************************************************************************)
(* What holds of NoteSync for any notes, devices, edits and bounds, as     *)
(* long as nobody hits one of the windows that break it (Closed): edits    *)
(* are kept, the server's text is never silently overwritten, pending      *)
(* edits stay, and no device is shown a conflict with itself; and, if no   *)
(* resolution comes late either (Strict), a note marked as synced is what  *)
(* the server has of it.                                                   *)
(*                                                                         *)
(* The core of the invariant is what every copy of a note that is under    *)
(* way says about the server: whoever names the server's current version   *)
(* as the base of its text has seen what the server holds (Seen).  The     *)
(* rest keeps that inductive: a record that was sent is not taken back     *)
(* below what was sent (SentInv), a device has in view what it wrote       *)
(* itself, answered or not (OwnSeen), and a note in conflict is neither    *)
(* sent nor merged into (ConflictInv).  The last part of the module adds   *)
(* the copies (CopiesInv): a clean note is the server's copy, or the       *)
(* change that makes it differ is still coming to the device.              *)
(***************************************************************************)

Closed == Loose \intersect {"merge", "conflict", "orphan"} = {}

(***************************************************************************)
(* The server as the devices depend on it.                                 *)
(***************************************************************************)
Text(n) == IF HasRow(n) THEN rows[n].content ELSE {}
WrittenBy(n, d) == HasRow(n) /\ rows[n].device = d

Seen(n, v, text) ==
    /\ v <= Version(n)
    /\ HasRow(n) /\ Version(n) = v => Text(n) \subseteq text \union dropped

InServer(n, text) == text \subseteq Text(n) \union dropped

(* A record the server gave out: an answer to a pull or a refusal. *)
Known(n, t) ==
    /\ t.version >= 1
    /\ Seen(n, t.version, t.content)
    /\ HasRow(n) /\ Version(n) = t.version => rows[n].device = t.device
    /\ t.life # "deleted" => InServer(n, t.content)

(***************************************************************************)
(* The invariant of one device.                                            *)
(***************************************************************************)
DeviceTypes(d) ==
    /\ local[d] \in [Note -> LocalNote \union {None}]
    /\ \A n \in Note : Has(d, n) /\ local[d][n].status = "synced"
                          => local[d][n].version = local[d][n].base
    /\ conflicts[d] \subseteq Conflict /\ refused[d] \subseteq Conflict
    /\ cursor[d] \in 0..lastRev
    /\ NoteMap(sent[d], LocalNote) /\ NoteMap(accepted[d], Nat)
    /\ NoteMap(page[d].notes, Remote) /\ page[d].deletes \subseteq Note
    /\ page[d].revision \in 0..lastRev
    /\ step[d] \in Step

(* Nothing of the windows that are closed, or that SyncSpec has no steps for. *)
Quiet(d) ==
    /\ editor[d] = None /\ saving[d] = None
    /\ DOMAIN orphan[d] = {} /\ DOMAIN leaked[d] = {}

(* What a sync holds at each of its steps. *)
Phase(d) ==
    /\ step[d] \notin {"repair", "push", "answered"} => DOMAIN sent[d] = {}
    /\ step[d] # "answered" => DOMAIN accepted[d] = {}
    /\ step[d] \notin {"answered", "refused"} => refused[d] = {}
    /\ step[d] \notin {"pulled", "merge", "put"} => DOMAIN page[d].notes = {}
    /\ step[d] = "repair" => \A n \in DOMAIN sent[d] : local[d][n] = sent[d][n]
    /\ IF step[d] = "put"
       THEN /\ reading[d].note \in DOMAIN page[d].notes
            /\ reading[d].seen = local[d][reading[d].note]
       ELSE reading[d] = None

(* A device has seen what its bases name, and what it wrote itself. *)
OwnSeen(d, n) ==
    WrittenBy(n, d) /\ local[d][n].base < Version(n)
        => Text(n) \subseteq local[d][n].content \union dropped

LocalInv(d, n) ==
    Has(d, n) => /\ Seen(n, local[d][n].base, local[d][n].content)
                 /\ OwnSeen(d, n)

(* A record that was sent is still there, or grew; it has no conflict. *)
SentInv(d, n) ==
    n \in DOMAIN sent[d] =>
        /\ sent[d][n].status = "pending"
        /\ Seen(n, sent[d][n].base, sent[d][n].content)
        /\ \A c \in conflicts[d] : c.note # n
        /\ Has(d, n) =>
              /\ sent[d][n].base = local[d][n].base
              /\ sent[d][n].content \subseteq local[d][n].content \union dropped

(* An acceptance says that the server took what was sent. *)
AnswerInv(d, n) ==
    n \in DOMAIN accepted[d] =>
        /\ n \in DOMAIN sent[d]
        /\ sent[d][n].base <= accepted[d][n]
        /\ Seen(n, accepted[d][n], sent[d][n].content)
        /\ InServer(n, sent[d][n].content)

(* A note in conflict is not written by its device, and its local side is
   kept in the conflict. *)
ConflictInv(d, n) ==
    \A c \in conflicts[d] : c.note = n =>
        /\ Known(n, c.theirs)
        /\ c.reason = "remote_changed" => c.theirs.device # d
        /\ Has(d, n) =>
              /\ local[d][n].status # "pending"
              /\ local[d][n].status = "conflict"
                    => local[d][n].content \subseteq c.mine.content \union dropped
        /\ WrittenBy(n, d) => Version(n) <= c.theirs.version
        /\ n \in DOMAIN page[d].notes
              => c.theirs.version <= page[d].notes[n].version
        /\ \A b \in conflicts[d] : b.note = n => b = c

RefusedInv(d, n) ==
    \A c \in refused[d] : c.note = n =>
        /\ Known(n, c.theirs)
        /\ WrittenBy(n, d) => Version(n) <= c.theirs.version
        /\ \A b \in conflicts[d] : b.note # n
        /\ \A b \in refused[d] : b.note = n => b = c

(* A pulled record is at least as new as the device's own. *)
PageInv(d, n) ==
    n \in DOMAIN page[d].notes =>
        /\ Known(n, page[d].notes[n])
        /\ Has(d, n) => local[d][n].base <= page[d].notes[n].version
        /\ WrittenBy(n, d) => Version(n) <= page[d].notes[n].version

NoteInv(d, n) ==
    /\ LocalInv(d, n) /\ SentInv(d, n) /\ AnswerInv(d, n)
    /\ ConflictInv(d, n) /\ RefusedInv(d, n) /\ PageInv(d, n)

DeviceInv(d) ==
    /\ DeviceTypes(d) /\ Quiet(d) /\ Phase(d)
    /\ \A n \in Note : NoteInv(d, n)

(* Where a device keeps an edit that the server need not have. *)
Holds(d, e) ==
    \/ \E n \in Note : /\ Has(d, n) /\ local[d][n].status # "synced"
                       /\ e \in local[d][n].content
    \/ \E c \in conflicts[d] : e \in c.mine.content

OnServer(e) == \E n \in Note : e \in Text(n)

Kept == \A e \in used : \/ e \in dropped \/ OnServer(e)
                        \/ \E d \in Device : Holds(d, e)

(* Every variable of the devices is a function on them. *)
Shapes ==
    /\ DOMAIN local = Device /\ DOMAIN conflicts = Device
    /\ DOMAIN cursor = Device /\ DOMAIN editor = Device
    /\ DOMAIN saving = Device /\ DOMAIN step = Device
    /\ DOMAIN sent = Device /\ DOMAIN orphan = Device
    /\ DOMAIN leaked = Device /\ DOMAIN accepted = Device
    /\ DOMAIN refused = Device /\ DOMAIN page = Device
    /\ DOMAIN reading = Device

SyncInv ==
    /\ ServerInv
    /\ Shapes
    /\ used \subseteq Edit /\ dropped \subseteq Edit
    /\ \A d \in Device : DeviceInv(d)
    /\ Kept

USE EditAssumption, LocalAssumption, LooseAssumption

(***************************************************************************)
(* What a step leaves to a device.                                         *)
(***************************************************************************)
SameServer ==
    \A n : /\ Version(n)' = Version(n) /\ (HasRow(n)' <=> HasRow(n))
           /\ Text(n)' = Text(n)
           /\ \A d : (WrittenBy(n, d)' <=> WrittenBy(n, d))

(* The server goes on: a note is left alone, or its version moves and the
   device d did not write it; its text is kept or given up. *)
Forward(d) ==
    /\ dropped \subseteq dropped'
    /\ \A n \in Note :
          /\ Text(n) \subseteq Text(n)' \union dropped'
          /\ \/ /\ Version(n)' = Version(n) /\ (HasRow(n)' <=> HasRow(n))
                /\ Text(n)' = Text(n) /\ rows'[n].device = rows[n].device
                /\ (WrittenBy(n, d)' <=> WrittenBy(n, d))
             \/ /\ Version(n)' \in Nat /\ Version(n)' > Version(n)
                /\ ~WrittenBy(n, d)'

LEMMA ServerUnchanged ==
    ASSUME UNCHANGED serverVars
    PROVE  SameServer
BY DEF serverVars, SameServer, Version, HasRow, HasTombstone, Text, WrittenBy

LEMMA SameIsForward ==
    ASSUME UNCHANGED serverVars, dropped \subseteq dropped', NEW d
    PROVE  Forward(d)
BY ServerUnchanged DEF SameServer, Forward, serverVars

SameDevice(d) ==
    /\ local'[d] = local[d] /\ conflicts'[d] = conflicts[d]
    /\ cursor'[d] = cursor[d] /\ editor'[d] = editor[d]
    /\ saving'[d] = saving[d] /\ step'[d] = step[d] /\ sent'[d] = sent[d]
    /\ orphan'[d] = orphan[d] /\ leaked'[d] = leaked[d]
    /\ accepted'[d] = accepted[d] /\ refused'[d] = refused[d]
    /\ page'[d] = page[d] /\ reading'[d] = reading[d]

(* A note's record stays, grows or goes; whatever a sync or the conflicts have
   of it stays or goes. *)
RecordFades(d, n) ==
    Has(d, n)' =>
        /\ Has(d, n)
        /\ local'[d][n].base = local[d][n].base
        /\ local[d][n].content \subseteq local'[d][n].content \union dropped'
        /\ \/ local'[d][n] = local[d][n]
           \/ \A c \in conflicts'[d] : c.note # n

SameText(r, s) == r.content = s.content /\ r.base = s.base /\ r.status = s.status

NoteFades(d, n) ==
    /\ RecordFades(d, n)
    /\ n \in DOMAIN sent'[d] => n \in DOMAIN sent[d]
                               /\ SameText(sent'[d][n], sent[d][n])
    /\ n \in DOMAIN accepted'[d] =>
          /\ n \in DOMAIN accepted[d] /\ accepted'[d][n] = accepted[d][n]
          /\ n \in DOMAIN sent'[d]
    /\ \A c \in conflicts'[d] : c.note = n => c \in conflicts[d]
    /\ \A c \in refused'[d] : c.note = n => c \in refused[d]
    /\ n \in DOMAIN page'[d].notes =>
          n \in DOMAIN page[d].notes /\ page'[d].notes[n] = page[d].notes[n]

(* A record the server gave out stays known. *)
LEMMA StaysSeen ==
    ASSUME ServerTypeOK, NEW d, Forward(d), NEW n \in Note,
           NEW v \in Nat, NEW text, Seen(n, v, text)
    PROVE  Seen(n, v, text)'
<1>1. Version(n) \in Nat
  BY VersionType
<1> QED
  BY <1>1 DEF Seen, Forward

LEMMA StaysKnown ==
    ASSUME ServerTypeOK, NEW d, Forward(d), NEW n \in Note,
           NEW t \in Remote, Known(n, t)
    PROVE  Known(n, t)'
<1>1. Version(n) \in Nat
  BY VersionType
<1>2. t.version \in Nat
  BY DEF Remote
<1> QED
  BY <1>1, <1>2 DEF Known, Seen, InServer, Forward

(* A note that fades keeps its invariant, whatever the server does meanwhile. *)
LEMMA FadingNote ==
    ASSUME ServerTypeOK, NEW d, NEW n \in Note, DeviceTypes(d), Forward(d),
           NoteInv(d, n), NoteFades(d, n)
    PROVE  NoteInv(d, n)'
<1>1. Version(n) \in Nat
  BY VersionType
<1>2. Has(d, n) => local[d][n].base \in Nat
  BY DEF DeviceTypes, Has, LocalNote
<1>3. n \in DOMAIN sent[d] => sent[d][n].base \in Nat
  BY DEF DeviceTypes, NoteMap, LocalNote
<1>4. n \in DOMAIN accepted[d] => accepted[d][n] \in Nat
  BY DEF DeviceTypes, NoteMap
<1>5. \A c \in conflicts[d] \union refused[d] : c.theirs \in Remote /\ c.theirs.version \in Nat
  BY DEF DeviceTypes, Conflict, Remote
<1>6. n \in DOMAIN page[d].notes =>
         page[d].notes[n] \in Remote /\ page[d].notes[n].version \in Nat
  BY DEF DeviceTypes, NoteMap, Remote
<1>7. LocalInv(d, n)'
  <2> SUFFICES ASSUME Has(d, n)'
               PROVE  /\ Seen(n, local[d][n].base, local[d][n].content)'
                      /\ OwnSeen(d, n)'
    BY DEF LocalInv
  <2>1. /\ Has(d, n) /\ local'[d][n].base = local[d][n].base
        /\ local[d][n].content \subseteq local'[d][n].content \union dropped'
    BY DEF NoteFades, RecordFades
  <2> QED
    BY <1>1, <1>2, <2>1 DEF NoteInv, LocalInv, Seen, OwnSeen, Forward
<1>8. SentInv(d, n)'
  <2> SUFFICES ASSUME n \in DOMAIN sent'[d]
               PROVE  /\ sent'[d][n].status = "pending"
                      /\ Seen(n, sent[d][n].base, sent[d][n].content)'
                      /\ \A c \in conflicts'[d] : c.note # n
                      /\ Has(d, n)' =>
                            /\ sent'[d][n].base = local'[d][n].base
                            /\ sent'[d][n].content \subseteq
                                  local'[d][n].content \union dropped'
    BY DEF SentInv
  <2>1. /\ n \in DOMAIN sent[d] /\ SentInv(d, n)
        /\ sent'[d][n].content = sent[d][n].content
        /\ sent'[d][n].base = sent[d][n].base
        /\ sent'[d][n].status = sent[d][n].status
    BY DEF NoteFades, NoteInv, SameText
  <2>2. Seen(n, sent[d][n].base, sent[d][n].content)'
    BY <1>1, <1>3, <2>1 DEF SentInv, Seen, Forward
  <2>3. \A c \in conflicts'[d] : c.note # n
    BY <2>1 DEF SentInv, NoteFades
  <2> QED
    BY <2>1, <2>2, <2>3 DEF SentInv, NoteFades, RecordFades, Forward
<1>9. AnswerInv(d, n)'
  <2> SUFFICES ASSUME n \in DOMAIN accepted'[d]
               PROVE  /\ n \in DOMAIN sent'[d]
                      /\ sent'[d][n].base <= accepted'[d][n]
                      /\ Seen(n, accepted[d][n], sent[d][n].content)'
                      /\ InServer(n, sent[d][n].content)'
    BY DEF AnswerInv
  <2>1. /\ n \in DOMAIN accepted[d] /\ accepted'[d][n] = accepted[d][n]
        /\ n \in DOMAIN sent'[d] /\ AnswerInv(d, n)
        /\ sent'[d][n].content = sent[d][n].content
        /\ sent'[d][n].base = sent[d][n].base
    BY DEF NoteFades, NoteInv, SameText
  <2> QED
    BY <1>1, <1>4, <2>1 DEF AnswerInv, Seen, InServer, Forward
<1>10. ConflictInv(d, n)'
  <2> SUFFICES ASSUME NEW c \in conflicts'[d], c.note = n
               PROVE  /\ Known(n, c.theirs)'
                      /\ c.reason = "remote_changed" => c.theirs.device # d
                      /\ Has(d, n)' =>
                            /\ local'[d][n].status # "pending"
                            /\ local'[d][n].status = "conflict"
                                  => local'[d][n].content \subseteq
                                        c.mine.content \union dropped'
                      /\ WrittenBy(n, d)' => Version(n)' <= c.theirs.version
                      /\ n \in DOMAIN page'[d].notes
                            => c.theirs.version <= page'[d].notes[n].version
                      /\ \A b \in conflicts'[d] : b.note = n => b = c
    BY DEF ConflictInv
  <2>1. c \in conflicts[d] /\ ConflictInv(d, n)
    BY DEF NoteFades, NoteInv
  <2>2. Known(n, c.theirs)'
    BY <1>5, <2>1, StaysKnown DEF ConflictInv
  <2>3. WrittenBy(n, d)' => Version(n)' <= c.theirs.version
    BY <2>1 DEF ConflictInv, Forward
  <2>4. n \in DOMAIN page'[d].notes
            => c.theirs.version <= page'[d].notes[n].version
    BY <2>1 DEF ConflictInv, NoteFades
  <2>5. \A b \in conflicts'[d] : b.note = n => b = c
    BY <2>1 DEF ConflictInv, NoteFades
  <2>6. ASSUME Has(d, n)'
        PROVE  /\ local'[d][n].status # "pending"
               /\ local'[d][n].status = "conflict"
                     => local'[d][n].content \subseteq
                           c.mine.content \union dropped'
    <3>1. Has(d, n) /\ local'[d][n] = local[d][n]
      BY <2>6 DEF NoteFades, RecordFades
    <3> QED
      BY <2>1, <3>1 DEF ConflictInv, Forward
  <2> QED
    BY <2>1, <2>2, <2>3, <2>4, <2>5, <2>6 DEF ConflictInv
<1>11. RefusedInv(d, n)'
  <2> SUFFICES ASSUME NEW c \in refused'[d], c.note = n
               PROVE  /\ Known(n, c.theirs)'
                      /\ WrittenBy(n, d)' => Version(n)' <= c.theirs.version
                      /\ \A b \in conflicts'[d] : b.note # n
                      /\ \A b \in refused'[d] : b.note = n => b = c
    BY DEF RefusedInv
  <2>1. c \in refused[d] /\ RefusedInv(d, n)
    BY DEF NoteFades, NoteInv
  <2>2. Known(n, c.theirs)'
    BY <1>5, <2>1, StaysKnown DEF RefusedInv
  <2>3. WrittenBy(n, d)' => Version(n)' <= c.theirs.version
    BY <2>1 DEF RefusedInv, Forward
  <2> QED
    BY <2>1, <2>2, <2>3 DEF RefusedInv, NoteFades
<1>12. PageInv(d, n)'
  <2> SUFFICES ASSUME n \in DOMAIN page'[d].notes
               PROVE  /\ Known(n, page[d].notes[n])'
                      /\ Has(d, n)' => local'[d][n].base <= page'[d].notes[n].version
                      /\ WrittenBy(n, d)' => Version(n)' <= page'[d].notes[n].version
    BY DEF PageInv
  <2>1. /\ n \in DOMAIN page[d].notes /\ page'[d].notes[n] = page[d].notes[n]
        /\ PageInv(d, n)
    BY DEF NoteFades, NoteInv
  <2>2. Known(n, page[d].notes[n])'
    <3>1. \A t : t = page[d].notes[n] => Known(n, t)'
      BY <1>6, <2>1, StaysKnown DEF PageInv
    <3> QED
      BY <2>1, <3>1 DEF Known, Seen, InServer
  <2> QED
    BY <2>1, <2>2 DEF PageInv, NoteFades, RecordFades, Forward
<1> QED
  BY <1>7, <1>8, <1>9, <1>10, <1>11, <1>12 DEF NoteInv

(* A device nobody does anything at. *)
LEMMA OtherDevice ==
    ASSUME ServerTypeOK, NEW d, DeviceInv(d), Forward(d), SameDevice(d),
           lastRev' \in Nat, lastRev' >= lastRev
    PROVE  DeviceInv(d)'
<1>1. DeviceTypes(d)'
  BY DEF DeviceInv, DeviceTypes, SameDevice, Has, ServerTypeOK
<1>2. Quiet(d)' /\ Phase(d)'
  BY DEF DeviceInv, Quiet, Phase, SameDevice
<1>3. ASSUME NEW n \in Note
      PROVE  NoteInv(d, n)'
  <2>1. NoteInv(d, n) /\ DeviceTypes(d)
    BY DEF DeviceInv
  <2>2. RecordFades(d, n)
    BY DEF RecordFades, SameDevice, Has
  <2>3. NoteFades(d, n)
    BY <2>1, <2>2 DEF NoteFades, SameText, SameDevice, NoteInv, AnswerInv
  <2> QED
    BY <2>1, <2>3, FadingNote
<1> QED
  BY <1>1, <1>2, <1>3 DEF DeviceInv

(***************************************************************************)
(* What each step of a device must bring about: its own invariant, no      *)
(* change at other devices, and no edit that is held gone from everywhere. *)
(***************************************************************************)
Keeps(d) == \A e \in Edit : Holds(d, e) => \/ Holds(d, e)' \/ e \in dropped'
                                           \/ OnServer(e)'

Stays(d) ==
    \A n \in Note :
        /\ Has(d, n) /\ local[d][n].status # "synced"
        /\ conflicts[d] \subseteq conflicts'[d]
        => local[d][n].content \subseteq dropped' \union
              IF Has(d, n)' THEN local'[d][n].content ELSE {}

Others(d) == \A e \in Device \ {d} : SameDevice(e)

Good(d) == Shapes' /\ Others(d) /\ DeviceInv(d)' /\ Keeps(d) /\ Stays(d)

(***************************************************************************)
(* The user.                                                               *)
(***************************************************************************)
LEMMA MayEditFacts ==
    ASSUME Closed, NEW d, NEW n, MayEdit(d, n)
    PROVE  ~InMerge(d, n) /\ \A c \in conflicts[d] : c.note # n
BY DEF Closed, MayEdit

(* Nobody has heard of a fresh note. *)
LEMMA FreshFacts ==
    ASSUME SyncInv, NEW d \in Device, NEW n \in Note, Fresh(n)
    PROVE  /\ Version(n) = 0 /\ ~HasRow(n)
           /\ local[d][n] = None
           /\ n \notin DOMAIN sent[d] /\ n \notin DOMAIN accepted[d]
           /\ n \notin DOMAIN page[d].notes
           /\ \A c \in conflicts[d] \union refused[d] : c.note # n
           /\ ~InMerge(d, n)
<1>1. Version(n) = 0 /\ local[d][n] = None /\ n \notin DOMAIN sent[d]
  BY DEF Fresh
<1>2. DeviceTypes(d) /\ Phase(d) /\ NoteInv(d, n)
  BY DEF SyncInv, DeviceInv
<1>3. ~HasRow(n)
  <2>1. HasRow(n) => rows[n].version \in Nat \ {0}
    BY DEF SyncInv, ServerInv, ServerTypeOK, HasRow, Row
  <2> QED
    BY <1>1, <2>1 DEF Version
<1>4. \A t \in Remote : ~Known(n, t)
  <2>1. \A t \in Remote : t.version \in Nat
    BY DEF Remote
  <2> QED
    BY <1>1, <2>1 DEF Known, Seen
<1>5. n \notin DOMAIN page[d].notes
  BY <1>2, <1>4 DEF NoteInv, PageInv, DeviceTypes, NoteMap
<1>6. \A c \in conflicts[d] \union refused[d] : c.theirs \in Remote
  BY <1>2 DEF DeviceTypes, Conflict
<1>7. \A c \in conflicts[d] \union refused[d] : c.note # n
  BY <1>2, <1>4, <1>6 DEF NoteInv, ConflictInv, RefusedInv
<1>8. n \notin DOMAIN accepted[d]
  BY <1>1, <1>2 DEF NoteInv, AnswerInv
<1>9. ~InMerge(d, n)
  BY <1>1, <1>2, <1>5 DEF InMerge, Phase
<1> QED
  BY <1>1, <1>3, <1>5, <1>7, <1>8, <1>9

LEMMA PutEffect ==
    ASSUME DOMAIN local = Device, NEW d \in Device, DeviceTypes(d),
           NEW n \in Note, NEW r, Put(d, n, r)
    PROVE  /\ DOMAIN local' = Device
           /\ local'[d][n] = r
           /\ \A m \in Note \ {n} : local'[d][m] = local[d][m]
           /\ \A e \in Device \ {d} : local'[e] = local[e]
           /\ r \in LocalNote \union {None}
                 => local'[d] \in [Note -> LocalNote \union {None}]
<1>1. local[d] \in [Note -> LocalNote \union {None}]
  BY DEF DeviceTypes
<1>2. local'[d] = [local[d] EXCEPT ![n] = r]
  BY DEF Put
<1> QED
  BY <1>1, <1>2 DEF Put

(* The user changes one record, and nothing else of the device. *)
LEMMA UserPuts ==
    ASSUME SyncInv, NEW d \in Device, NEW n \in Note,
           NEW r \in LocalNote \union {None}, Put(d, n, r),
           r # None => r.status = "pending",
           r = None => Has(d, n) /\ local[d][n].content \subseteq dropped',
           Has(d, n) /\ r # None => local[d][n].content \subseteq r.content,
           ~InMerge(d, n),
           UNCHANGED <<serverVars, conflicts, cursor, orphan, syncVars>>,
           dropped \subseteq dropped',
           DOMAIN editor' = Device /\ DOMAIN saving' = Device, Quiet(d)',
           \A e \in Device \ {d} : editor'[e] = editor[e] /\ saving'[e] = saving[e],
           NoteInv(d, n)'
    PROVE  Good(d)
<1>0. DOMAIN local = Device /\ DeviceTypes(d) /\ Phase(d)
  BY DEF SyncInv, Shapes, DeviceInv
<1>1. /\ DOMAIN local' = Device
      /\ local'[d][n] = r
      /\ \A m \in Note \ {n} : local'[d][m] = local[d][m]
      /\ \A e \in Device \ {d} : local'[e] = local[e]
      /\ local'[d] \in [Note -> LocalNote \union {None}]
  BY <1>0, PutEffect
<1>2. Shapes' /\ Others(d)
  BY <1>1 DEF SyncInv, Shapes, Others, SameDevice, syncVars
<1>3. Forward(d)
  BY SameIsForward
<1>4. DeviceTypes(d)'
  BY <1>0, <1>1 DEF DeviceTypes, Has, syncVars, serverVars
<1>5. Phase(d)'
  BY <1>0, <1>1 DEF Phase, InMerge, syncVars, DeviceTypes, NoteMap
<1>6. ASSUME NEW m \in Note, m # n
      PROVE  NoteInv(d, m)'
  <2>1. NoteInv(d, m) /\ ServerTypeOK
    BY DEF SyncInv, DeviceInv, ServerInv
  <2>2. NoteFades(d, m)
    BY <1>1, <1>6, <2>1 DEF NoteFades, SameText, RecordFades, Has, syncVars, NoteInv, AnswerInv
  <2> QED
    BY <1>0, <1>3, <2>1, <2>2, FadingNote
<1>7. DeviceInv(d)'
  BY <1>4, <1>5, <1>6 DEF DeviceInv
<1>8. Keeps(d)
  <2> SUFFICES ASSUME NEW e \in Edit, Holds(d, e)
               PROVE  Holds(d, e)' \/ e \in dropped'
    BY DEF Keeps
  <2>1. CASE \E c \in conflicts[d] : e \in c.mine.content
    BY <2>1 DEF Holds
  <2>2. CASE \E m \in Note : /\ Has(d, m) /\ local[d][m].status # "synced"
                             /\ e \in local[d][m].content
    <3>1. PICK m \in Note : /\ Has(d, m) /\ local[d][m].status # "synced"
                            /\ e \in local[d][m].content
      BY <2>2
    <3>2. CASE m # n
      BY <1>1, <3>1, <3>2 DEF Holds, Has
    <3>3. CASE m = n
      BY <1>1, <3>1, <3>3 DEF Holds, Has
    <3> QED
      BY <3>2, <3>3
  <2> QED
    BY <2>1, <2>2 DEF Holds
<1>9. Stays(d)
  BY <1>1 DEF Stays, Has
<1> QED
  BY <1>2, <1>7, <1>8, <1>9 DEF Good

LEMMA EditedFacts ==
    ASSUME NEW r \in LocalNote, NEW text \in Content, NEW life \in Life
    PROVE  /\ Edited(r, text, life) \in LocalNote
           /\ Edited(r, text, life).status = "pending"
           /\ Edited(r, text, life).base = r.base
           /\ Edited(r, text, life).content = text
<1>1. r.version + 1 \in Nat /\ "pending" \in Status
  BY DEF LocalNote, Status
<1> QED
  BY <1>1 DEF Edited, LocalNote, NextVersionAfter

(* A record edited in place. *)
LEMMA UserGrows ==
    ASSUME SyncInv, Closed, NEW d \in Device, NEW n \in Note, MayEdit(d, n),
           Has(d, n), NEW text \in Content, NEW life \in Life,
           local[d][n].content \subseteq text,
           Put(d, n, Edited(local[d][n], text, life)),
           UNCHANGED <<serverVars, conflicts, cursor, orphan, syncVars>>,
           dropped \subseteq dropped',
           DOMAIN editor' = Device /\ DOMAIN saving' = Device, Quiet(d)',
           \A e \in Device \ {d} : editor'[e] = editor[e] /\ saving'[e] = saving[e]
    PROVE  Good(d)
<1> DEFINE r == Edited(local[d][n], text, life)
<1>1. DOMAIN local = Device /\ DeviceTypes(d) /\ NoteInv(d, n) /\ ServerTypeOK
  BY DEF SyncInv, Shapes, DeviceInv, ServerInv
<1>2. local[d][n] \in LocalNote
  BY <1>1 DEF DeviceTypes, Has
<1>3. /\ r \in LocalNote /\ r.status = "pending"
      /\ r.base = local[d][n].base /\ r.content = text
  BY <1>2, EditedFacts
<1>4. ~InMerge(d, n) /\ \A c \in conflicts[d] : c.note # n
  BY MayEditFacts
<1>5. local'[d][n] = r
  BY <1>1, PutEffect
<1>6. Forward(d)
  BY SameIsForward
<1>7. NoteFades(d, n)
  BY <1>1, <1>3, <1>4, <1>5 DEF NoteFades, SameText, RecordFades, Has, syncVars, NoteInv,
                                AnswerInv
<1>8. NoteInv(d, n)'
  BY <1>1, <1>6, <1>7, FadingNote
<1>9. r # None
  BY <1>3
<1> QED
  BY <1>2, <1>3, <1>4, <1>8, <1>9, UserPuts

LEMMA UpdateGood ==
    ASSUME SyncInv, Closed, NEW d \in Device, NEW n \in Note, NEW e \in Edit,
           UpdateNoteContent(d, n, e)
    PROVE  Good(d)
<1>1. Quiet(d) /\ DeviceTypes(d) /\ Shapes
  BY DEF SyncInv, DeviceInv
<1>2. Has(d, n) /\ local[d][n] \in LocalNote /\ MayEdit(d, n)
  BY <1>1 DEF UpdateNoteContent, DeviceTypes, Has
<1>3. local[d][n].content \union {e} \in Content /\ local[d][n].life \in Life
  BY <1>2 DEF LocalNote
<1>4. Put(d, n, Edited(local[d][n], local[d][n].content \union {e}, local[d][n].life))
  BY <1>1 DEF UpdateNoteContent, TakeText, Quiet
<1>5. editor' = [editor EXCEPT ![d] = editor[d]] /\ saving' = saving
  BY <1>1 DEF UpdateNoteContent, TakeText, Quiet
<1>6. /\ DOMAIN editor' = Device /\ DOMAIN saving' = Device
      /\ editor'[d] = editor[d]
      /\ \A f \in Device \ {d} : editor'[f] = editor[f] /\ saving'[f] = saving[f]
  BY <1>1, <1>5 DEF Shapes
<1>7. UNCHANGED <<serverVars, conflicts, cursor, orphan, syncVars, dropped>>
  BY DEF UpdateNoteContent, TakeText
<1>8. Quiet(d)'
  BY <1>1, <1>5, <1>6, <1>7 DEF Quiet, syncVars
<1> QED
  BY <1>2, <1>3, <1>4, <1>6, <1>7, <1>8, UserGrows

LEMMA ChangeLifeGood ==
    ASSUME SyncInv, Closed, NEW d \in Device, NEW n \in Note, NEW e \in Edit,
           NEW from, NEW to, ChangeLife(d, n, e, from, to)
    PROVE  Good(d)
<1>1. Quiet(d) /\ DeviceTypes(d) /\ Shapes
  BY DEF SyncInv, DeviceInv
<1>2. Has(d, n) /\ local[d][n] \in LocalNote /\ MayEdit(d, n) /\ to \in Life
  BY <1>1 DEF ChangeLife, DeviceTypes, Has
<1>3. local[d][n].content \union {e} \in Content
  BY <1>2 DEF LocalNote
<1>4. /\ Put(d, n, Edited(local[d][n], local[d][n].content \union {e}, to))
      /\ editor' = [editor EXCEPT ![d] = None] /\ saving' = saving
      /\ UNCHANGED <<serverVars, conflicts, cursor, orphan, syncVars, dropped>>
  BY DEF ChangeLife
<1>5. /\ DOMAIN editor' = Device /\ DOMAIN saving' = Device
      /\ editor'[d] = None
      /\ \A f \in Device \ {d} : editor'[f] = editor[f] /\ saving'[f] = saving[f]
  BY <1>1, <1>4 DEF Shapes
<1>6. Quiet(d)'
  BY <1>1, <1>4, <1>5 DEF Quiet, syncVars
<1>7. PICK text \in Content : text = local[d][n].content \union {e}
  BY <1>3
<1>8. local[d][n].content \subseteq text /\ Put(d, n, Edited(local[d][n], text, to))
  BY <1>4, <1>7
<1>9. UNCHANGED <<serverVars, conflicts, cursor, orphan, syncVars>> /\ dropped \subseteq dropped'
  BY <1>4
<1>10. DOMAIN editor' = Device /\ DOMAIN saving' = Device
       /\ \A f \in Device \ {d} : editor'[f] = editor[f] /\ saving'[f] = saving[f]
  BY <1>5
<1> QED
  BY <1>2, <1>6, <1>8, <1>9, <1>10, UserGrows

LEMMA DeleteLocalGood ==
    ASSUME SyncInv, Closed, NEW d \in Device, NEW n \in Note,
           DeleteLocalOnly(d, n)
    PROVE  Good(d)
<1>1. /\ Quiet(d) /\ DeviceTypes(d) /\ Shapes /\ NoteInv(d, n)
      /\ ServerTypeOK
  BY DEF SyncInv, DeviceInv, ServerInv
<1>2. /\ MayEdit(d, n) /\ Has(d, n) /\ Put(d, n, None)
      /\ dropped' = dropped \union local[d][n].content
      /\ UNCHANGED <<serverVars, conflicts, cursor, editorVars, orphan, syncVars>>
  BY DEF DeleteLocalOnly
<1>3. ~InMerge(d, n)
  BY <1>2, MayEditFacts
<1>4. local'[d][n] = None
  BY <1>1, <1>2, PutEffect DEF Shapes
<1>5. Forward(d)
  BY <1>2, SameIsForward
<1>6. NoteFades(d, n)
  BY <1>1, <1>2, <1>4 DEF NoteFades, SameText, RecordFades, Has, syncVars, NoteInv, AnswerInv
<1>7. NoteInv(d, n)'
  BY <1>1, <1>5, <1>6, FadingNote
<1>8. Quiet(d)' /\ DOMAIN editor' = Device /\ DOMAIN saving' = Device
  BY <1>1, <1>2 DEF Quiet, syncVars, editorVars, Shapes
<1> QED
  BY <1>2, <1>3, <1>7, <1>8, UserPuts DEF editorVars

(* A note that nobody has heard of, with a record that names no base. *)
LEMMA FreshNote ==
    ASSUME SyncInv, NEW d \in Device, NEW n \in Note, Fresh(n),
           local'[d][n].base = 0, UNCHANGED <<serverVars, syncVars>>,
           conflicts'[d] \subseteq conflicts[d]
    PROVE  NoteInv(d, n)'
<1>1. /\ Version(n) = 0 /\ ~HasRow(n)
      /\ n \notin DOMAIN sent[d] /\ n \notin DOMAIN accepted[d]
      /\ n \notin DOMAIN page[d].notes
      /\ \A c \in conflicts[d] \union refused[d] : c.note # n
  BY FreshFacts
<1>2. Version(n)' = 0 /\ ~HasRow(n)' /\ ~WrittenBy(n, d)'
  BY <1>1, ServerUnchanged DEF SameServer, WrittenBy
<1>3. LocalInv(d, n)'
  BY <1>2 DEF LocalInv, Seen, OwnSeen
<1> QED
  BY <1>1, <1>3 DEF NoteInv, SentInv, AnswerInv, ConflictInv, RefusedInv,
                    PageInv, syncVars

LEMMA CreateGood ==
    ASSUME SyncInv, NEW d \in Device, NEW n \in Note, NEW e \in Edit,
           CreateBlankNote(d, n, e)
    PROVE  Good(d)
<1> DEFINE r == [content |-> {e}, life |-> "active", version |-> 1,
                 base |-> 0, status |-> "pending"]
<1>1. Quiet(d) /\ DeviceTypes(d) /\ Shapes
  BY DEF SyncInv, DeviceInv
<1>2. /\ Fresh(n) /\ Put(d, n, r)
      /\ UNCHANGED <<serverVars, conflicts, cursor, editorVars, orphan, syncVars,
                     dropped>>
  BY DEF CreateBlankNote
<1>3. local[d][n] = None /\ ~InMerge(d, n)
  BY <1>2, FreshFacts
<1>4. r \in LocalNote
  <2>1. {e} \in Content /\ "active" \in Life
    BY LifeAssumption
  <2> QED
    BY <2>1 DEF LocalNote, Status
<1>5. local'[d][n] = r
  BY <1>1, <1>2, PutEffect DEF Shapes
<1>6. NoteInv(d, n)'
  BY <1>2, <1>5, FreshNote
<1>7. Quiet(d)' /\ DOMAIN editor' = Device /\ DOMAIN saving' = Device
  BY <1>1, <1>2 DEF Quiet, syncVars, editorVars, Shapes
<1>8. r # None
  BY <1>4
<1> QED
  BY <1>2, <1>3, <1>4, <1>6, <1>7, <1>8, UserPuts DEF editorVars, Has

(***************************************************************************)
(* The choices of a conflict.                                              *)
(***************************************************************************)
(* A choice puts a record on the remote side's version in the place of the
   note, and perhaps a fresh copy beside it.  What the local side of the
   conflict had is in one of them, on the server, or given up. *)
LEMMA ResolvedGood ==
    ASSUME SyncInv, Closed, NEW d \in Device, NEW c \in conflicts[d],
           ~InMerge(d, c.note),
           NEW r, DOMAIN r \subseteq Note, c.note \in DOMAIN r,
           \A n \in DOMAIN r :
              /\ r[n] \in LocalNote
              /\ r[n].status = "synced" => r[n].version = r[n].base
              /\ n # c.note => Fresh(n) /\ r[n].base = 0,
           NEW gone, Resolved(d, c, r, gone),
           r[c.note].base = c.theirs.version,
           c.theirs.content \subseteq r[c.note].content \union dropped',
           \A e \in c.mine.content :
              \/ e \in dropped' \/ e \in Text(c.note)
              \/ \E n \in DOMAIN r : r[n].status # "synced" /\ e \in r[n].content
    PROVE  Good(d)
<1>0. /\ Shapes /\ Quiet(d) /\ DeviceTypes(d) /\ Phase(d) /\ ServerTypeOK
      /\ \A n \in Note : NoteInv(d, n)
  BY DEF SyncInv, DeviceInv, ServerInv
<1>1. /\ local' = [local EXCEPT ![d] = [n \in Note |->
                      IF n \in DOMAIN r THEN r[n] ELSE local[d][n]]]
      /\ conflicts' = [conflicts EXCEPT ![d] = @ \ {c}]
      /\ dropped' = dropped \union gone
      /\ UNCHANGED <<serverVars, cursor, editorVars, orphan, syncVars, used>>
  BY DEF Resolved
<1>2. /\ DOMAIN local' = Device /\ DOMAIN conflicts' = Device
      /\ local'[d] = [n \in Note |-> IF n \in DOMAIN r THEN r[n] ELSE local[d][n]]
      /\ conflicts'[d] = conflicts[d] \ {c}
      /\ \A e \in Device \ {d} : local'[e] = local[e] /\ conflicts'[e] = conflicts[e]
  BY <1>0, <1>1 DEF Shapes
<1>3. \A n \in Note : local'[d][n] = IF n \in DOMAIN r THEN r[n] ELSE local[d][n]
  BY <1>2
<1>4. Shapes' /\ Others(d)
  BY <1>0, <1>1, <1>2 DEF Shapes, Others, SameDevice, syncVars, editorVars
<1>5. Forward(d) /\ SameServer
  BY <1>1, SameIsForward, ServerUnchanged
<1>6. c \in Conflict /\ c.note \in Note /\ c.theirs \in Remote /\ c.theirs.version \in Nat
  BY <1>0 DEF DeviceTypes, Conflict, Remote
<1>7. /\ ConflictInv(d, c.note) /\ SentInv(d, c.note)
      /\ AnswerInv(d, c.note) /\ RefusedInv(d, c.note) /\ PageInv(d, c.note)
  BY <1>0, <1>6 DEF NoteInv
<1>8. /\ \A b \in conflicts'[d] : b.note # c.note
      /\ \A b \in refused[d] : b.note # c.note
      /\ c.note \notin DOMAIN sent[d] /\ c.note \notin DOMAIN accepted[d]
  BY <1>2, <1>7 DEF ConflictInv, RefusedInv, SentInv, AnswerInv
<1>9. \A n \in DOMAIN r : n # c.note =>
         n \notin DOMAIN sent[d] /\ n \notin DOMAIN page[d].notes /\ local[d][n] = None
  BY FreshFacts
<1>10. DeviceTypes(d)'
  <2>1. local'[d] \in [Note -> LocalNote \union {None}]
    BY <1>0, <1>2, <1>3 DEF DeviceTypes
  <2>2. \A n \in Note : Has(d, n)' /\ local'[d][n].status = "synced"
                           => local'[d][n].version = local'[d][n].base
    BY <1>0, <1>3 DEF DeviceTypes, Has
  <2> QED
    BY <1>0, <1>1, <1>2, <2>1, <2>2 DEF DeviceTypes, syncVars, serverVars
<1>11. Quiet(d)'
  BY <1>0, <1>1 DEF Quiet, editorVars, syncVars
<1>12. Phase(d)'
  <2>1. \A n \in DOMAIN sent[d] : n \in Note => local'[d][n] = local[d][n]
    BY <1>3, <1>8, <1>9
  <2>2. DOMAIN sent[d] \subseteq Note /\ DOMAIN page[d].notes \subseteq Note
    BY <1>0 DEF DeviceTypes, NoteMap
  <2>3. step[d] = "put" => local'[d][reading[d].note] = local[d][reading[d].note]
    BY <1>0, <1>3, <1>9, <2>2 DEF Phase, InMerge
  <2> QED
    BY <1>0, <1>1, <2>1, <2>2, <2>3 DEF Phase, syncVars
<1>13. NoteInv(d, c.note)'
  <2>1. /\ local'[d][c.note].base = c.theirs.version
        /\ c.theirs.content \subseteq local'[d][c.note].content \union dropped'
    BY <1>3, <1>6
  <2>2. LocalInv(d, c.note)'
    <3>1. Known(c.note, c.theirs)' /\ (WrittenBy(c.note, d)' => Version(c.note)' <= c.theirs.version)
      BY <1>0, <1>5, <1>6, <1>7, StaysKnown DEF ConflictInv, SameServer
    <3>2. Version(c.note)' \in Nat
      BY <1>0, <1>5, <1>6, VersionType DEF SameServer
    <3>3. Seen(c.note, local[d][c.note].base, local[d][c.note].content)'
      BY <2>1, <3>1 DEF Known, Seen
    <3>4. OwnSeen(d, c.note)'
      BY <1>6, <2>1, <3>1, <3>2 DEF OwnSeen
    <3> QED
      BY <3>3, <3>4 DEF LocalInv
  <2>3. PageInv(d, c.note)'
    <3> SUFFICES ASSUME c.note \in DOMAIN page[d].notes
                 PROVE  /\ Known(c.note, page[d].notes[c.note])'
                        /\ local'[d][c.note].base <= page[d].notes[c.note].version
                        /\ WrittenBy(c.note, d)' =>
                              Version(c.note)' <= page[d].notes[c.note].version
      BY <1>1 DEF PageInv, syncVars
    <3>1. page[d].notes[c.note] \in Remote /\ page' = page
      BY <1>0, <1>1 DEF DeviceTypes, NoteMap, syncVars
    <3>2. \A t : t = page[d].notes[c.note] => Known(c.note, t)'
      BY <1>0, <1>5, <1>6, <1>7, <3>1, StaysKnown DEF PageInv
    <3>3. Known(c.note, page[d].notes[c.note])'
      BY <3>1, <3>2 DEF Known, Seen, InServer
    <3>4. c.theirs.version <= page[d].notes[c.note].version
      BY <1>7 DEF ConflictInv
    <3>5. WrittenBy(c.note, d)' => Version(c.note)' <= page[d].notes[c.note].version
      BY <1>5, <1>7 DEF PageInv, SameServer
    <3> QED
      BY <2>1, <3>3, <3>4, <3>5
  <2> QED
    BY <1>1, <1>2, <1>8, <2>2, <2>3 DEF NoteInv, SentInv, AnswerInv, ConflictInv,
                                        RefusedInv, syncVars
<1>14. ASSUME NEW n \in Note, n # c.note
       PROVE  NoteInv(d, n)'
  <2>1. CASE n \in DOMAIN r
    BY <1>1, <1>2, <1>3, <1>14, <2>1, FreshNote
  <2>2. CASE n \notin DOMAIN r
    <3>1. NoteInv(d, n) /\ local'[d][n] = local[d][n]
      BY <1>0, <1>3, <2>2
    <3>2. NoteFades(d, n)
      BY <1>1, <1>2, <3>1 DEF NoteFades, SameText, RecordFades, Has, syncVars, NoteInv, AnswerInv
    <3> QED
      BY <1>0, <1>5, <3>1, <3>2, FadingNote
  <2> QED
    BY <2>1, <2>2
<1>15. DeviceInv(d)'
  BY <1>10, <1>11, <1>12, <1>13, <1>14 DEF DeviceInv
<1>16. ASSUME NEW e \in c.mine.content
       PROVE  e \in dropped' \/ OnServer(e)' \/ Holds(d, e)'
  <2>1. CASE e \in dropped'
    BY <2>1
  <2>2. CASE e \in Text(c.note)
    BY <1>5, <1>6, <2>2 DEF OnServer, SameServer
  <2>3. CASE \E n \in DOMAIN r : r[n].status # "synced" /\ e \in r[n].content
    BY <1>3, <2>3 DEF Holds, Has
  <2> QED
    BY <2>1, <2>2, <2>3
<1>17. Keeps(d)
  <2> SUFFICES ASSUME NEW e \in Edit, Holds(d, e)
               PROVE  Holds(d, e)' \/ e \in dropped' \/ OnServer(e)'
    BY DEF Keeps
  <2>1. ASSUME NEW b \in conflicts[d], e \in b.mine.content
        PROVE  Holds(d, e)' \/ e \in dropped' \/ OnServer(e)'
    BY <1>2, <1>16, <2>1 DEF Holds
  <2>2. ASSUME NEW n \in Note, Has(d, n), local[d][n].status # "synced",
               e \in local[d][n].content
        PROVE  Holds(d, e)' \/ e \in dropped' \/ OnServer(e)'
    <3>1. CASE n \notin DOMAIN r
      BY <1>3, <2>2, <3>1 DEF Holds, Has
    <3>2. CASE n = c.note
      <4>1. local[d][n].status \in Status
        BY <1>0, <2>2 DEF DeviceTypes, Has, LocalNote
      <4>2. local[d][n].status = "conflict"
        BY <1>7, <2>2, <3>2, <4>1 DEF ConflictInv, Status
      <4>3. e \in c.mine.content \union dropped
        BY <1>7, <2>2, <3>2, <4>2 DEF ConflictInv
      <4> QED
        BY <1>1, <1>16, <4>3
    <3> QED
      BY <1>9, <2>2, <3>1, <3>2 DEF Has
  <2> QED
    BY <2>1, <2>2 DEF Holds
<1>18. Stays(d)
  BY <1>2 DEF Stays
<1> QED
  BY <1>4, <1>15, <1>17, <1>18 DEF Good

LEMMA ConflictTypes ==
    ASSUME SyncInv, NEW d \in Device, NEW c \in conflicts[d]
    PROVE  /\ c.note \in Note /\ c.mine.content \in Content /\ c.mine.life \in Life
           /\ c.theirs.content \in Content /\ c.theirs.life \in Life
           /\ c.theirs.version \in Nat
           /\ Known(c.note, c.theirs)
<1>1. DeviceTypes(d) /\ \A n \in Note : NoteInv(d, n)
  BY DEF SyncInv, DeviceInv
<1>2. c \in Conflict
  BY <1>1 DEF DeviceTypes
<1>3. c.note \in Note /\ c.mine \in [content : Content, life : Life] /\ c.theirs \in Remote
  BY <1>2 DEF Conflict
<1>4. Known(c.note, c.theirs)
  BY <1>1, <1>3 DEF NoteInv, ConflictInv
<1> QED
  BY <1>3, <1>4 DEF Remote

LEMMA SyncedFacts ==
    ASSUME NEW t, t.content \in Content, t.life \in Life, t.version \in Nat
    PROVE  /\ Synced(t) \in LocalNote
           /\ Synced(t).content = t.content /\ Synced(t).status = "synced"
           /\ Synced(t).base = t.version /\ Synced(t).version = t.version
BY DEF Synced, LocalNote, Status

LEMMA KeepLocalGood ==
    ASSUME SyncInv, Closed, NEW d \in Device, NEW c \in conflicts[d],
           ~InMerge(d, c.note), KeepLocal(d, c)
    PROVE  Good(d)
<1> DEFINE r == [n \in {c.note} |->
                    [content |-> c.mine.content, life |-> c.mine.life,
                     version |-> NextVersionAfter(c.theirs.version),
                     base |-> c.theirs.version, status |-> "pending"]]
           gone == c.theirs.content \ c.mine.content
<1>1. /\ c.note \in Note /\ c.mine.content \in Content /\ c.mine.life \in Life
      /\ c.theirs.version \in Nat
  BY ConflictTypes
<1>2. Resolved(d, c, r, gone)
  BY DEF KeepLocal
<1>3. dropped' = dropped \union gone
  BY <1>2 DEF Resolved
<1>4. DOMAIN r = {c.note} /\ r[c.note] \in LocalNote
  BY <1>1 DEF LocalNote, Status, NextVersionAfter
<1>5. /\ r[c.note].content = c.mine.content /\ r[c.note].status = "pending"
      /\ r[c.note].base = c.theirs.version
  OBVIOUS
<1>6. c.theirs.content \subseteq r[c.note].content \union dropped'
  BY <1>3, <1>5
<1> HIDE DEF r, gone
<1>7. /\ DOMAIN r \subseteq Note /\ c.note \in DOMAIN r
      /\ \A n \in DOMAIN r : n = c.note
  BY <1>1, <1>4
<1>8. \A e \in c.mine.content :
         \E n \in DOMAIN r : r[n].status # "synced" /\ e \in r[n].content
  BY <1>5, <1>7
<1> QED
  BY <1>2, <1>4, <1>5, <1>6, <1>7, <1>8, ResolvedGood

LEMMA KeepRemoteGood ==
    ASSUME SyncInv, Closed, NEW d \in Device, NEW c \in conflicts[d],
           ~InMerge(d, c.note), KeepRemote(d, c)
    PROVE  Good(d)
<1> DEFINE r == [n \in {c.note} |-> Synced(c.theirs)]
           gone == IF c.theirs.life = "deleted" THEN c.mine.content
                   ELSE c.mine.content \ c.theirs.content
<1>1. /\ c.note \in Note /\ c.theirs.content \in Content /\ c.theirs.life \in Life
      /\ c.theirs.version \in Nat /\ Known(c.note, c.theirs)
  BY ConflictTypes
<1>2. Resolved(d, c, r, gone)
  BY DEF KeepRemote
<1>3. dropped' = dropped \union gone
  BY <1>2 DEF Resolved
<1>4. DOMAIN r = {c.note} /\ r[c.note] = Synced(c.theirs)
  OBVIOUS
<1>5. /\ r[c.note] \in LocalNote /\ r[c.note].content = c.theirs.content
      /\ r[c.note].base = c.theirs.version /\ r[c.note].version = c.theirs.version
  BY <1>1, <1>4, SyncedFacts
<1>6. \A e \in c.mine.content : e \in dropped' \/ e \in Text(c.note)
  BY <1>1, <1>3 DEF Known, InServer
<1> HIDE DEF r, gone
<1>7. /\ DOMAIN r \subseteq Note /\ c.note \in DOMAIN r
      /\ \A n \in DOMAIN r : n = c.note
  BY <1>1, <1>4
<1>8. c.theirs.content \subseteq r[c.note].content \union dropped'
  BY <1>5
<1> QED
  BY <1>2, <1>5, <1>6, <1>7, <1>8, ResolvedGood

LEMMA DuplicateGood ==
    ASSUME SyncInv, Closed, NEW d \in Device, NEW c \in conflicts[d],
           ~InMerge(d, c.note), NEW copy \in Note, DuplicateBoth(d, c, copy)
    PROVE  Good(d)
<1> DEFINE r == [n \in {c.note, copy} |->
                    IF n = c.note THEN Synced(c.theirs)
                    ELSE [content |-> c.mine.content, life |-> c.mine.life,
                          version |-> 1, base |-> 0, status |-> "pending"]]
<1>1. /\ c.note \in Note /\ c.mine.content \in Content /\ c.mine.life \in Life
      /\ c.theirs.content \in Content /\ c.theirs.life \in Life
      /\ c.theirs.version \in Nat /\ Known(c.note, c.theirs)
  BY ConflictTypes
<1>2. Resolved(d, c, r, {}) /\ Fresh(copy)
  BY DEF DuplicateBoth
<1>3. copy # c.note
  BY <1>2, FreshFacts
<1>4. /\ DOMAIN r = {c.note, copy} /\ r[c.note] = Synced(c.theirs)
      /\ r[copy] = [content |-> c.mine.content, life |-> c.mine.life,
                    version |-> 1, base |-> 0, status |-> "pending"]
  BY <1>3
<1>5. /\ r[c.note] \in LocalNote /\ r[c.note].content = c.theirs.content
      /\ r[c.note].base = c.theirs.version /\ r[c.note].version = c.theirs.version
  BY <1>1, <1>4, SyncedFacts
<1>6. /\ r[copy] \in LocalNote /\ r[copy].content = c.mine.content
      /\ r[copy].base = 0 /\ r[copy].status = "pending"
  BY <1>1, <1>4 DEF LocalNote, Status
<1> HIDE DEF r
<1>7. DOMAIN r \subseteq Note /\ c.note \in DOMAIN r /\ copy \in DOMAIN r
  BY <1>1, <1>4
<1>8. \A n \in DOMAIN r :
         /\ r[n] \in LocalNote
         /\ r[n].status = "synced" => r[n].version = r[n].base
         /\ n # c.note => Fresh(n) /\ r[n].base = 0
  BY <1>2, <1>4, <1>5, <1>6
<1>9. /\ c.theirs.content \subseteq r[c.note].content \union dropped'
      /\ \A e \in c.mine.content :
            \E n \in DOMAIN r : r[n].status # "synced" /\ e \in r[n].content
  BY <1>5, <1>6, <1>7
<1> QED
  BY <1>2, <1>5, <1>7, <1>8, <1>9, ResolvedGood

LEMMA ResolveGood ==
    ASSUME SyncInv, Closed, NEW d \in Device, ResolveConflict(d)
    PROVE  Good(d)
<1>1. PICK c \in conflicts[d] :
         /\ ~InMerge(d, c.note) \/ "merge" \in Loose
         /\ \/ KeepLocal(d, c) \/ KeepRemote(d, c)
            \/ \E copy \in Note : DuplicateBoth(d, c, copy)
  BY DEF ResolveConflict
<1>2. ~InMerge(d, c.note)
  BY <1>1 DEF Closed
<1> QED
  BY <1>1, <1>2, KeepLocalGood, KeepRemoteGood, DuplicateGood

(***************************************************************************)
(* A sync.                                                                 *)
(***************************************************************************)
(* A step that touches no record, no conflict and not the server. *)
LEMMA NothingTouched ==
    ASSUME UNCHANGED <<serverVars, local, conflicts, dropped>>, NEW d
    PROVE  /\ Keeps(d) /\ Stays(d) /\ Forward(d)
           /\ \A n \in Note :
                /\ LocalInv(d, n) => LocalInv(d, n)'
                /\ (ConflictInv(d, n) /\ page'[d] = page[d]) => ConflictInv(d, n)'
                /\ (PageInv(d, n) /\ page'[d] = page[d]) => PageInv(d, n)'
                /\ (RefusedInv(d, n) /\ refused'[d] = refused[d]) => RefusedInv(d, n)'
<1>1. SameServer /\ Forward(d)
  BY ServerUnchanged, SameIsForward
<1>2. \A n, v, text : Seen(n, v, text) => Seen(n, v, text)'
  BY <1>1 DEF Seen, SameServer
<1>3. \A n, t : Known(n, t) => Known(n, t)'
  BY <1>1, <1>2 DEF Known, InServer, SameServer, serverVars
<1>4. Keeps(d) /\ Stays(d)
  BY DEF Keeps, Stays, Holds, Has
<1>5. ASSUME NEW n \in Note, LocalInv(d, n)
      PROVE  LocalInv(d, n)'
  BY <1>1, <1>5 DEF LocalInv, Seen, OwnSeen, SameServer, Has
<1>6. ASSUME NEW n \in Note, ConflictInv(d, n), page'[d] = page[d]
      PROVE  ConflictInv(d, n)'
  BY <1>1, <1>3, <1>6 DEF ConflictInv, SameServer, Has
<1>7. ASSUME NEW n \in Note, PageInv(d, n), page'[d] = page[d]
      PROVE  PageInv(d, n)'
  <2>1. Known(n, page[d].notes[n]) => Known(n, page[d].notes[n])'
    BY <1>1, <1>7 DEF Known, Seen, InServer, SameServer, serverVars
  <2> QED
    BY <1>1, <1>7, <2>1 DEF PageInv, SameServer, Has
<1>8. ASSUME NEW n \in Note, RefusedInv(d, n), refused'[d] = refused[d]
      PROVE  RefusedInv(d, n)'
  BY <1>1, <1>3, <1>8 DEF RefusedInv, SameServer
<1> QED
  BY <1>1, <1>4, <1>5, <1>6, <1>7, <1>8

LEMMA ReadPendingGood ==
    ASSUME SyncInv, NEW d \in Device, ReadPending(d)
    PROVE  Good(d)
<1>0. /\ Shapes /\ Quiet(d) /\ DeviceTypes(d) /\ Phase(d)
      /\ \A n \in Note : NoteInv(d, n)
  BY DEF SyncInv, DeviceInv
<1>1. /\ step[d] = "idle"
      /\ sent' = [sent EXCEPT ![d] = [n \in Pending(d) |-> local[d][n]]]
      /\ UNCHANGED <<serverVars, local, conflicts, cursor, editorVars, orphan,
                     answerVars, refused, page, reading, historyVars>>
  BY DEF ReadPending
<1>2. /\ DOMAIN sent' = Device /\ sent'[d] = [n \in Pending(d) |-> local[d][n]]
      /\ \A e \in Device \ {d} : sent'[e] = sent[e]
  BY <1>0, <1>1 DEF Shapes
<1>3. /\ DOMAIN step' = Device /\ step'[d] \in {"repair", "push", "pull"}
      /\ step'[d] = "pull" => Pending(d) = {}
      /\ \A e \in Device \ {d} : step'[e] = step[e]
  <2> DEFINE s == [n \in Pending(d) |-> local[d][n]]
             next == IF Unprepared(s) # {} THEN "repair"
                     ELSE IF Pending(d) # {} THEN "push" ELSE "pull"
  <2>1. step' = [step EXCEPT ![d] = next]
    BY DEF ReadPending, Goto
  <2>2. Unprepared(s) \subseteq Pending(d)
    BY DEF Unprepared
  <2>3. next \in {"repair", "push", "pull"} /\ (next = "pull" => Pending(d) = {})
    BY <2>2
  <2> HIDE DEF next
  <2> QED
    BY <1>0, <2>1, <2>3 DEF Shapes
<1>4. Shapes' /\ Others(d)
  BY <1>0, <1>1, <1>2, <1>3 DEF Shapes, Others, SameDevice, editorVars, answerVars
<1>5. /\ Keeps(d) /\ Stays(d)
      /\ \A n \in Note : LocalInv(d, n)' /\ ConflictInv(d, n)' /\ PageInv(d, n)'
                         /\ RefusedInv(d, n)'
  BY <1>0, <1>1, NothingTouched DEF historyVars, NoteInv
<1>6. \A n \in DOMAIN sent'[d] : /\ n \in Note /\ Has(d, n)
                                 /\ local[d][n].status = "pending"
                                 /\ sent'[d][n] = local[d][n]
                                 /\ local[d][n] \in LocalNote
  BY <1>0, <1>2 DEF Pending, DeviceTypes, Has
<1>7. DeviceTypes(d)'
  BY <1>0, <1>1, <1>3, <1>6 DEF DeviceTypes, NoteMap, Has, Step, serverVars, answerVars
<1>8. Quiet(d)' /\ Phase(d)'
  BY <1>0, <1>1, <1>2, <1>3, <1>6 DEF Quiet, Phase, editorVars, answerVars
<1>9. ASSUME NEW n \in Note
      PROVE  SentInv(d, n)' /\ AnswerInv(d, n)'
  <2>1. LocalInv(d, n)' /\ ConflictInv(d, n)'
    BY <1>5
  <2>2. AnswerInv(d, n)'
    BY <1>0, <1>1 DEF AnswerInv, Phase, answerVars
  <2>3. SentInv(d, n)'
    <3> SUFFICES ASSUME n \in DOMAIN sent'[d]
                 PROVE  /\ sent'[d][n].status = "pending"
                        /\ Seen(n, sent[d][n].base, sent[d][n].content)'
                        /\ \A c \in conflicts'[d] : c.note # n
                        /\ sent'[d][n].base = local'[d][n].base
                        /\ sent'[d][n].content = local'[d][n].content
      BY DEF SentInv
    <3>1. /\ Has(d, n)' /\ local'[d][n] = sent'[d][n]
          /\ local'[d][n].status = "pending"
      BY <1>1, <1>6 DEF Has
    <3>2. Seen(n, sent[d][n].base, sent[d][n].content)'
      BY <2>1, <3>1 DEF LocalInv, Seen
    <3>3. \A c \in conflicts'[d] : c.note # n
      BY <2>1, <3>1 DEF ConflictInv
    <3> QED
      BY <3>1, <3>2, <3>3
  <2> QED
    BY <2>2, <2>3
<1>10. DeviceInv(d)'
  BY <1>5, <1>7, <1>8, <1>9 DEF DeviceInv, NoteInv
<1> QED
  BY <1>4, <1>5, <1>10 DEF Good

LEMMA PreparedFacts ==
    ASSUME NEW r \in LocalNote
    PROVE  PreparePending(r) \in LocalNote /\ SameText(PreparePending(r), r)
<1>1. SafePendingVersion(r) \in Nat
  BY DEF SafePendingVersion, NextVersionAfter, LocalNote
<1> QED
  BY <1>1 DEF PreparePending, LocalNote, SameText

LEMMA RepairGood ==
    ASSUME SyncInv, NEW d \in Device, RepairPending(d)
    PROVE  Good(d)
<1> DEFINE fix == Unprepared(sent[d])
           gone == {n \in fix : LocalOnlyDeleted(sent[d][n])}
           keep == [n \in DOMAIN sent[d] \ gone |-> PreparePending(sent[d][n])]
           next == IF DOMAIN keep # {} THEN "push" ELSE "pull"
           lost == UNION {sent[d][n].content : n \in gone}
<1>0. /\ Shapes /\ Quiet(d) /\ DeviceTypes(d) /\ Phase(d) /\ ServerTypeOK
      /\ \A n \in Note : NoteInv(d, n)
  BY DEF SyncInv, DeviceInv, ServerInv
<1>1. /\ step[d] = "repair"
      /\ local' = [local EXCEPT ![d] = [n \in Note |->
                      IF n \in gone THEN None
                      ELSE IF n \in fix THEN keep[n] ELSE local[d][n]]]
      /\ dropped' = dropped \union lost
      /\ sent' = [sent EXCEPT ![d] = keep]
      /\ step' = [step EXCEPT ![d] = next]
      /\ UNCHANGED <<serverVars, conflicts, cursor, editorVars, orphan, answerVars,
                     refused, page, reading, used>>
  BY DEF RepairPending, Goto
<1>2. /\ DOMAIN sent[d] \subseteq Note
      /\ \A n \in DOMAIN sent[d] : /\ sent[d][n] \in LocalNote
                                   /\ local[d][n] = sent[d][n]
                                   /\ Has(d, n) /\ sent[d][n].status = "pending"
                                   /\ \A c \in conflicts[d] : c.note # n
  BY <1>0, <1>1 DEF DeviceTypes, NoteMap, Phase, Has, NoteInv, SentInv
<1>3. /\ fix \subseteq DOMAIN sent[d] /\ gone \subseteq fix
      /\ DOMAIN keep = DOMAIN sent[d] \ gone
      /\ \A n \in DOMAIN keep : keep[n] \in LocalNote /\ SameText(keep[n], sent[d][n])
  BY <1>2, PreparedFacts DEF Unprepared
<1>4. \A n \in gone : sent[d][n].content \subseteq lost
  OBVIOUS
<1>5. next \in {"push", "pull"} /\ (next = "pull" => DOMAIN keep = {})
  OBVIOUS
<1> HIDE DEF fix, gone, keep, next, lost
<1>6. /\ DOMAIN local' = Device /\ DOMAIN sent' = Device /\ DOMAIN step' = Device
      /\ sent'[d] = keep /\ step'[d] = next
      /\ \A e \in Device \ {d} : /\ local'[e] = local[e] /\ sent'[e] = sent[e]
                                 /\ step'[e] = step[e]
  BY <1>0, <1>1 DEF Shapes
<1>7. local'[d] = [n \in Note |-> IF n \in gone THEN None
                                  ELSE IF n \in fix THEN keep[n] ELSE local[d][n]]
  BY <1>0, <1>1 DEF Shapes
<1>8. \A n \in Note : /\ n \in gone => local'[d][n] = None
                      /\ n \in fix \ gone => local'[d][n] = keep[n]
                      /\ n \notin fix => local'[d][n] = local[d][n]
  BY <1>3, <1>7
<1>9. Shapes' /\ Others(d)
  BY <1>0, <1>1, <1>6 DEF Shapes, Others, SameDevice, editorVars, answerVars
<1>10. Forward(d)
  BY <1>1, SameIsForward
<1>11. DeviceTypes(d)'
  <2>1. local'[d] \in [Note -> LocalNote \union {None}]
    BY <1>0, <1>3, <1>7 DEF DeviceTypes
  <2>2. \A n \in Note : Has(d, n)' /\ local'[d][n].status = "synced"
                           => local'[d][n].version = local'[d][n].base
    BY <1>0, <1>2, <1>3, <1>8 DEF DeviceTypes, Has, SameText
  <2>3. NoteMap(sent[d], LocalNote)'
    BY <1>2, <1>3, <1>6 DEF NoteMap
  <2> QED
    BY <1>0, <1>1, <1>5, <1>6, <2>1, <2>2, <2>3
       DEF DeviceTypes, serverVars, answerVars, Step
<1>12. Quiet(d)' /\ Phase(d)'
  BY <1>0, <1>1, <1>5, <1>6 DEF Quiet, Phase, editorVars, answerVars
<1>13. ASSUME NEW n \in Note
       PROVE  NoteInv(d, n)'
  <2>1. NoteInv(d, n) /\ n \notin DOMAIN accepted[d]
    BY <1>0, <1>1 DEF Phase
  <2>2. RecordFades(d, n)
    BY <1>1, <1>2, <1>3, <1>8 DEF RecordFades, Has, SameText
  <2>3. NoteFades(d, n)
    BY <1>1, <1>3, <1>6, <2>1, <2>2 DEF NoteFades, answerVars
  <2> QED
    BY <1>0, <1>10, <2>1, <2>3, FadingNote
<1>14. DeviceInv(d)'
  BY <1>11, <1>12, <1>13 DEF DeviceInv
<1>15. Keeps(d) /\ Stays(d)
  <2>1. ASSUME NEW n \in Note, Has(d, n), local[d][n].status # "synced"
        PROVE  \/ /\ Has(d, n)' /\ local'[d][n].status # "synced"
                  /\ local'[d][n].content = local[d][n].content
               \/ local[d][n].content \subseteq dropped'
    <3>1. CASE n \in gone
      BY <1>1, <1>2, <1>3, <1>4, <3>1
    <3>2. CASE n \in fix \ gone
      BY <1>2, <1>3, <1>8, <3>2 DEF Has, SameText
    <3>3. CASE n \notin fix
      BY <1>8, <2>1, <3>3 DEF Has
    <3> QED
      BY <3>1, <3>2, <3>3
  <2>2. Keeps(d)
    BY <1>1, <2>1 DEF Keeps, Holds
  <2>3. Stays(d)
    BY <2>1 DEF Stays
  <2> QED
    BY <2>2, <2>3
<1> QED
  BY <1>9, <1>14, <1>15 DEF Good

(* The request is what was sent. *)
LEMMA BatchedFacts ==
    ASSUME SyncInv, NEW d \in Device
    PROVE  /\ Request(Batched(sent[d])) /\ DOMAIN Batched(sent[d]) = DOMAIN sent[d]
           /\ \A n \in DOMAIN sent[d] :
                /\ n \in Note
                /\ Batched(sent[d])[n].content = sent[d][n].content
                /\ Batched(sent[d])[n].life = sent[d][n].life
                /\ Batched(sent[d])[n].base = sent[d][n].base
                /\ Batched(sent[d])[n].stripped = FALSE
                /\ sent[d][n] \in LocalNote
<1>1. NoteMap(sent[d], LocalNote)
  BY DEF SyncInv, DeviceInv, DeviceTypes
<1> QED
  BY <1>1 DEF NoteMap, Batched, Request, LocalNote

(* What a push does to the server: it leaves a note alone, or writes what was
   sent, by someone who had seen what it replaces. *)
PushWrites(d, n) ==
    /\ n \in DOMAIN sent[d]
    /\ HasRow(n)' /\ Version(n)' = Version(n) + 1
    /\ rows'[n].device = d
    /\ Text(n)' = sent[d][n].content
    /\ Text(n) \subseteq Text(n)' \union dropped

PushLeaves(n) == rows'[n] = rows[n] /\ tombs'[n] = tombs[n]

LEMMA PushOutcome ==
    ASSUME SyncInv, NEW d \in Device, Push(d, Batched(sent[d]))
    PROVE  /\ ServerInv' /\ lastRev' \in Nat /\ lastRev' >= lastRev
           /\ Written(Batched(sent[d])) \subseteq DOMAIN sent[d]
           /\ \A n \in Written(Batched(sent[d])) : n \in Note /\ PushWrites(d, n)
           /\ \A n \in Note \ Written(Batched(sent[d])) : PushLeaves(n)
<1> DEFINE batch == Batched(sent[d])
<1>1. /\ Request(batch) /\ DOMAIN batch = DOMAIN sent[d]
      /\ \A n \in DOMAIN sent[d] :
           /\ n \in Note
           /\ batch[n].content = sent[d][n].content
           /\ batch[n].life = sent[d][n].life
           /\ batch[n].base = sent[d][n].base
           /\ batch[n].stripped = FALSE
           /\ sent[d][n] \in LocalNote
  BY BatchedFacts
<1> HIDE DEF batch
<1>2. ServerInv /\ Push(d, batch)
  BY DEF SyncInv, batch
<1>3. /\ Written(batch) \in SUBSET Note
      /\ \A n \in Written(batch) :
           /\ rows'[n] = NewRow(d, n, batch[n])
           /\ rows'[n] \in Row /\ rows'[n] # None
           /\ tombs'[n] = None
           /\ Version(n)' = Version(n) + 1
      /\ \A n \in Note \ Written(batch) : PushLeaves(n)
  BY <1>1, <1>2, PushEffect DEF PushLeaves
<1>4. ServerInv'
  BY <1>1, <1>2, PushInv
<1>5. lastRev' \in Nat /\ lastRev' >= lastRev
  <2>1. Cardinality(Written(batch)) \in Nat
    BY <1>3, NoteAssumption, FS_Subset, FS_CardinalityType
  <2> QED
    BY <1>2, <2>1 DEF Push, ServerInv, ServerTypeOK
<1>6. Written(batch) \subseteq DOMAIN sent[d]
  BY <1>1 DEF Written
<1>7. ASSUME NEW n \in Written(batch)
      PROVE  PushWrites(d, n)
  <2>1. n \in Note /\ n \in DOMAIN sent[d] /\ Writes(n, batch[n])
    BY <1>1, <1>6 DEF Written
  <2>2. rows'[n].device = d /\ rows'[n].content = sent[d][n].content /\ HasRow(n)'
    <3>1. rows'[n] = NewRow(d, n, batch[n]) /\ rows'[n] # None
      BY <1>3
    <3>2. /\ NewRow(d, n, batch[n]).device = d
          /\ NewRow(d, n, batch[n]).content = batch[n].content
      BY DEF NewRow
    <3> QED
      BY <1>1, <2>1, <3>1, <3>2 DEF HasRow
  <2>3. Text(n)' = sent[d][n].content
    BY <2>2 DEF Text
  <2>4. HasRow(n) => batch[n].base = rows[n].version
    BY <1>1, <2>1 DEF Writes, Refused, RemoteChanged, AlreadyThere, ShouldConflict
  <2>5. Seen(n, sent[d][n].base, sent[d][n].content)
    BY <2>1 DEF SyncInv, DeviceInv, NoteInv, SentInv
  <2>6. Text(n) \subseteq sent[d][n].content \union dropped
    BY <1>1, <2>1, <2>4, <2>5 DEF Seen, Version, Text
  <2> QED
    BY <1>3, <2>1, <2>2, <2>3, <2>6 DEF PushWrites
<1> QED
  BY <1>3, <1>4, <1>5, <1>6, <1>7 DEF batch

(* For the other devices the server only went on. *)
LEMMA PushForward ==
    ASSUME SyncInv, NEW d \in Device, Push(d, Batched(sent[d])), dropped' = dropped,
           NEW e \in Device \ {d}
    PROVE  Forward(e)
<1>1. \A n \in Note : PushWrites(d, n) \/ PushLeaves(n)
  BY PushOutcome
<1>2. ASSUME NEW n \in Note, PushLeaves(n)
      PROVE  /\ Version(n)' = Version(n) /\ (HasRow(n)' <=> HasRow(n))
             /\ Text(n)' = Text(n) /\ rows'[n].device = rows[n].device
             /\ (WrittenBy(n, e)' <=> WrittenBy(n, e))
  BY <1>2 DEF PushLeaves, Version, HasRow, HasTombstone, Text, WrittenBy
<1>3. ASSUME NEW n \in Note, PushWrites(d, n)
      PROVE  /\ Version(n)' \in Nat /\ Version(n)' > Version(n)
             /\ ~WrittenBy(n, e)' /\ Text(n) \subseteq Text(n)' \union dropped'
  <2>1. Version(n) \in Nat
    BY VersionType DEF SyncInv, ServerInv
  <2> QED
    BY <1>3, <2>1 DEF PushWrites, WrittenBy
<1> QED
  BY <1>1, <1>2, <1>3 DEF Forward

(* A refusal shows what the server has instead. *)
LEMMA ConflictOfFacts ==
    ASSUME ServerInv, NEW n \in Note, NEW ch, ch.content \in Content,
           ch.life \in Life, Refused(n, ch)
    PROVE  /\ ConflictOf(n, ch) \in Conflict
           /\ ConflictOf(n, ch).note = n
           /\ Known(n, ConflictOf(n, ch).theirs)
           /\ Version(n) <= ConflictOf(n, ch).theirs.version
<1>1. rows[n] \in Row \union {None} /\ tombs[n] \in Tombstone \union {None}
  BY DEF ServerInv, ServerTypeOK
<1>2. Side(ch) \in [content : Content, life : Life]
  BY DEF Side
<1>3. CASE DeletedRemotely(n, ch)
  <2> DEFINE t == [content |-> ch.content, life |-> "deleted",
                   device |-> tombs[n].device, version |-> tombs[n].version]
  <2>1. ~HasRow(n) /\ tombs[n] \in Tombstone /\ Version(n) = tombs[n].version
    BY <1>1, <1>3 DEF DeletedRemotely, HasRow, HasTombstone, Version
  <2>2. tombs[n].device \in Device /\ tombs[n].version \in Nat \ {0}
    BY <2>1 DEF Tombstone
  <2>3. t \in Remote /\ t.version = Version(n) /\ t.life = "deleted"
    BY <2>1, <2>2 DEF Remote
  <2> HIDE DEF t
  <2>4. ConflictOf(n, ch) = [note |-> n, reason |-> "deleted_remotely",
                             mine |-> Side(ch), theirs |-> t]
    BY <1>3 DEF ConflictOf, t
  <2>5. Known(n, t)
    BY <2>1, <2>2, <2>3 DEF Known, Seen
  <2>6. t.version <= t.version
    BY <2>1, <2>2, <2>3
  <2> QED
    BY <1>2, <2>3, <2>4, <2>5, <2>6 DEF Conflict
<1>4. CASE ~DeletedRemotely(n, ch)
  <2> DEFINE t == RemoteOf(rows[n])
             why == IF rows[n].life = "deleted" THEN "deleted_remotely"
                    ELSE "remote_changed"
  <2>1. HasRow(n) /\ rows[n] \in Row /\ Version(n) = rows[n].version
    BY <1>1, <1>4 DEF Refused, RemoteChanged, HasRow, Version
  <2>2. /\ rows[n].content \in Content /\ rows[n].life \in Life
        /\ rows[n].device \in Device /\ rows[n].version \in Nat \ {0}
    BY <2>1 DEF Row
  <2>3. /\ t \in Remote /\ t.version = Version(n) /\ t.content = rows[n].content
        /\ t.device = rows[n].device
    BY <2>1, <2>2 DEF Remote, RemoteOf
  <2> HIDE DEF t, why
  <2>4. ConflictOf(n, ch) = [note |-> n, reason |-> why,
                             mine |-> Side(ch), theirs |-> t]
    BY <1>4 DEF ConflictOf, t, why
  <2>5. Known(n, t) /\ t.version <= t.version
    BY <2>1, <2>2, <2>3 DEF Known, Seen, InServer, Text
  <2>6. why \in {"remote_changed", "deleted_remotely"}
    BY DEF why
  <2> QED
    BY <1>2, <2>3, <2>4, <2>5, <2>6 DEF Conflict
<1> QED
  BY <1>3, <1>4

LEMMA RefusalFacts ==
    ASSUME SyncInv, NEW d \in Device, NEW c \in ConflictsOf(Batched(sent[d]))
    PROVE  /\ c \in Conflict /\ c.note \in DOMAIN sent[d] /\ c.note \in Note
           /\ c.note \notin Written(Batched(sent[d]))
           /\ c = ConflictOf(c.note, Batched(sent[d])[c.note])
           /\ Known(c.note, c.theirs) /\ Version(c.note) <= c.theirs.version
<1>1. PICK n \in RefusedIn(Batched(sent[d])) : c = ConflictOf(n, Batched(sent[d])[n])
  BY DEF ConflictsOf
<1>2. /\ n \in DOMAIN sent[d] /\ n \in Note
      /\ Batched(sent[d])[n].content \in Content
      /\ Batched(sent[d])[n].life \in Life
      /\ Refused(n, Batched(sent[d])[n])
  BY <1>1, BatchedFacts DEF RefusedIn, LocalNote
<1>3. n \notin Written(Batched(sent[d]))
  BY <1>2 DEF Written, Writes
<1> QED
  BY <1>1, <1>2, <1>3, ConflictOfFacts DEF SyncInv

LEMMA AcceptanceFacts ==
    ASSUME SyncInv, NEW d \in Device, NEW n \in DOMAIN AcceptancesOf(Batched(sent[d]))
    PROVE  /\ n \in DOMAIN sent[d] /\ n \in Note
           /\ AcceptancesOf(Batched(sent[d]))[n] \in Nat
           /\ \/ /\ n \in Written(Batched(sent[d]))
                 /\ AcceptancesOf(Batched(sent[d]))[n] = Version(n) + 1
              \/ /\ n \notin Written(Batched(sent[d]))
                 /\ AcceptancesOf(Batched(sent[d]))[n] = Version(n)
                 /\ Text(n) = sent[d][n].content
<1> DEFINE batch == Batched(sent[d])
<1>1. /\ n \in DOMAIN batch /\ n \notin RefusedIn(batch)
      /\ AcceptancesOf(batch)[n] = IF AlreadyThere(n, batch[n]) THEN Version(n)
                                   ELSE AcceptedVersion(n)
  BY DEF AcceptancesOf
<1>2. /\ DOMAIN batch = DOMAIN sent[d] /\ n \in Note
      /\ batch[n].content = sent[d][n].content
  BY <1>1, BatchedFacts
<1>3. Version(n) \in Nat
  BY <1>2, VersionType DEF SyncInv, ServerInv
<1>4. CASE AlreadyThere(n, batch[n])
  BY <1>1, <1>2, <1>3, <1>4 DEF Written, Writes, AlreadyThere, RecordsDiffer, Text
<1>5. CASE ~AlreadyThere(n, batch[n])
  BY <1>1, <1>2, <1>3, <1>5 DEF Written, Writes, RefusedIn, AcceptedVersion,
                                NextVersionAfter
<1> QED
  BY <1>4, <1>5

LEMMA HandlePushGood ==
    ASSUME SyncInv, NEW d \in Device, HandlePush(d)
    PROVE  Good(d)
<1> DEFINE batch == Batched(sent[d])
           W == Written(batch)
           no == ConflictsOf(batch)
           yes == AcceptancesOf(batch)
<1>0. /\ Shapes /\ Quiet(d) /\ DeviceTypes(d) /\ Phase(d) /\ ServerTypeOK
      /\ \A n \in Note : NoteInv(d, n)
  BY DEF SyncInv, DeviceInv, ServerInv
<1>1. /\ step[d] = "push" /\ Push(d, batch)
      /\ refused' = [refused EXCEPT ![d] = @ \union no]
      /\ accepted' = [accepted EXCEPT ![d] = yes]
      /\ step' = [step EXCEPT ![d] = "answered"]
      /\ UNCHANGED <<local, conflicts, cursor, editorVars, orphan, sent, leaked,
                     page, reading, historyVars>>
  BY DEF HandlePush, Goto
<1>2. /\ ServerInv' /\ lastRev' \in Nat /\ lastRev' >= lastRev
      /\ W \subseteq DOMAIN sent[d]
      /\ \A n \in W : n \in Note /\ PushWrites(d, n)
      /\ \A n \in Note \ W : PushLeaves(n)
  BY <1>1, PushOutcome
<1>3. \A c \in no : /\ c \in Conflict /\ c.note \in DOMAIN sent[d] /\ c.note \in Note
                    /\ c.note \notin W /\ c = ConflictOf(c.note, batch[c.note])
                    /\ Known(c.note, c.theirs) /\ Version(c.note) <= c.theirs.version
  BY RefusalFacts
<1>4. \A n \in DOMAIN yes :
         /\ n \in DOMAIN sent[d] /\ n \in Note /\ yes[n] \in Nat
         /\ \/ n \in W /\ yes[n] = Version(n) + 1
            \/ n \notin W /\ yes[n] = Version(n) /\ Text(n) = sent[d][n].content
  BY AcceptanceFacts
<1> HIDE DEF batch, W, no, yes
<1>5. /\ DOMAIN refused' = Device /\ DOMAIN accepted' = Device /\ DOMAIN step' = Device
      /\ refused'[d] = no /\ accepted'[d] = yes /\ step'[d] = "answered"
      /\ \A e \in Device \ {d} : /\ refused'[e] = refused[e]
                                 /\ accepted'[e] = accepted[e] /\ step'[e] = step[e]
  BY <1>0, <1>1 DEF Shapes, Phase
<1>6. Shapes' /\ Others(d)
  BY <1>0, <1>1, <1>5 DEF Shapes, Others, SameDevice, editorVars
<1>7. \A n \in Note : Version(n) \in Nat
  BY <1>0, VersionType
<1>8. ASSUME NEW n \in Note, n \notin W
      PROVE  /\ Version(n)' = Version(n) /\ (HasRow(n)' <=> HasRow(n))
             /\ Text(n)' = Text(n) /\ rows'[n].device = rows[n].device
             /\ (WrittenBy(n, d)' <=> WrittenBy(n, d))
  BY <1>2, <1>8 DEF PushLeaves, Version, HasRow, HasTombstone, Text, WrittenBy
<1>9. DeviceTypes(d)'
  <2>1. refused'[d] \subseteq Conflict
    BY <1>3, <1>5
  <2>2. NoteMap(accepted[d], Nat)'
    BY <1>4, <1>5 DEF NoteMap
  <2>3. cursor'[d] \in 0..lastRev' /\ page'[d].revision \in 0..lastRev'
    BY <1>0, <1>1, <1>2 DEF DeviceTypes, ServerTypeOK
  <2> QED
    BY <1>0, <1>1, <1>5, <2>1, <2>2, <2>3 DEF DeviceTypes, NoteMap, Has, Step
<1>10. Quiet(d)' /\ Phase(d)'
  BY <1>0, <1>1, <1>5 DEF Quiet, Phase, editorVars
<1>11. ASSUME NEW n \in Note
       PROVE  NoteInv(d, n)'
  <2>0. NoteInv(d, n) /\ n \notin DOMAIN page[d].notes
    BY <1>0, <1>1 DEF Phase
  <2>1. /\ Has(d, n) => local[d][n].base \in Nat
        /\ n \in DOMAIN sent[d] => sent[d][n].base \in Nat
    BY <1>0 DEF DeviceTypes, Has, LocalNote, NoteMap
  <2>2. ASSUME NEW v \in Nat, NEW text, Seen(n, v, text)
        PROVE  Seen(n, v, text)'
    BY <1>1, <1>2, <1>7, <1>8, <2>2 DEF Seen, PushWrites, historyVars
  <2>3. LocalInv(d, n)'
    <3> SUFFICES ASSUME Has(d, n)'
                 PROVE  /\ Seen(n, local[d][n].base, local[d][n].content)'
                        /\ OwnSeen(d, n)'
      BY DEF LocalInv
    <3>1. Has(d, n) /\ local' = local /\ dropped' = dropped
      BY <1>1 DEF Has, historyVars
    <3>2. Seen(n, local[d][n].base, local[d][n].content)'
      <4>1. \A v, text : v = local[d][n].base /\ text = local[d][n].content
                            => Seen(n, v, text)'
        BY <2>0, <2>1, <2>2, <3>1 DEF NoteInv, LocalInv
      <4> QED
        BY <3>1, <4>1 DEF Seen
    <3>3. CASE n \in W
      <4>1. Text(n)' = sent[d][n].content /\ n \in DOMAIN sent[d]
        BY <1>2, <3>3 DEF PushWrites
      <4> QED
        BY <2>0, <3>1, <3>2, <4>1 DEF NoteInv, SentInv, OwnSeen
    <3>4. CASE n \notin W
      BY <1>8, <2>0, <3>1, <3>2, <3>4 DEF NoteInv, LocalInv, OwnSeen
    <3> QED
      BY <3>3, <3>4
  <2>4. SentInv(d, n)'
    <3> SUFFICES ASSUME n \in DOMAIN sent[d]
                 PROVE  Seen(n, sent[d][n].base, sent[d][n].content)'
      BY <1>1, <2>0 DEF SentInv, NoteInv, Has, historyVars
    <3>1. \A v, text : v = sent[d][n].base /\ text = sent[d][n].content
                          => Seen(n, v, text)'
      BY <2>0, <2>1, <2>2 DEF NoteInv, SentInv
    <3> QED
      BY <1>1, <3>1 DEF Seen
  <2>5. AnswerInv(d, n)'
    <3> SUFFICES ASSUME n \in DOMAIN yes
                 PROVE  /\ n \in DOMAIN sent[d] /\ sent[d][n].base <= yes[n]
                        /\ Version(n)' = yes[n] /\ Text(n)' = sent[d][n].content
      BY <1>1, <1>4, <1>5 DEF AnswerInv, Seen, InServer
    <3>1. sent[d][n].base <= Version(n)
      BY <1>4, <2>0 DEF NoteInv, SentInv, Seen
    <3> QED
      BY <1>2, <1>4, <1>7, <1>8, <2>1, <3>1 DEF PushWrites
  <2>6. ConflictInv(d, n)'
    <3> SUFFICES ASSUME NEW c \in conflicts[d], c.note = n
                 PROVE  /\ Known(n, c.theirs)'
                        /\ WrittenBy(n, d)' => Version(n)' <= c.theirs.version
      BY <1>1, <2>0 DEF ConflictInv, NoteInv, Has, historyVars
    <3>1. n \notin W
      BY <1>2, <2>0 DEF NoteInv, SentInv
    <3> QED
      BY <1>1, <1>8, <2>0, <3>1 DEF NoteInv, ConflictInv, Known, Seen, InServer, historyVars
  <2>7. RefusedInv(d, n)'
    <3> SUFFICES ASSUME NEW c \in no, c.note = n
                 PROVE  /\ Known(n, c.theirs)'
                        /\ Version(n)' <= c.theirs.version
                        /\ \A b \in conflicts[d] : b.note # n
                        /\ \A b \in no : b.note = n => b = c
      BY <1>1, <1>5 DEF RefusedInv
    <3>1. n \notin W /\ n \in DOMAIN sent[d] /\ Known(n, c.theirs)
      BY <1>3
    <3>2. Known(n, c.theirs)'
      BY <1>1, <1>8, <3>1 DEF Known, Seen, InServer, historyVars
    <3> QED
      BY <1>3, <1>8, <2>0, <3>1, <3>2 DEF NoteInv, SentInv
  <2>8. PageInv(d, n)'
    BY <1>1, <2>0 DEF PageInv
  <2> QED
    BY <2>3, <2>4, <2>5, <2>6, <2>7, <2>8 DEF NoteInv
<1>12. DeviceInv(d)'
  BY <1>9, <1>10, <1>11 DEF DeviceInv
<1>13. Keeps(d) /\ Stays(d)
  BY <1>1 DEF Keeps, Stays, Holds, Has, historyVars
<1> QED
  BY <1>6, <1>12, <1>13 DEF Good

LEMMA MarkedFacts ==
    ASSUME NEW d, NEW n, NEW r \in LocalNote, NEW acceptances,
           n \in DOMAIN acceptances, acceptances[n] \in Nat, sent[d][n] \in LocalNote
    PROVE  /\ Marked(d, n, r, acceptances) \in LocalNote
           /\ Marked(d, n, r, acceptances).content = r.content
           /\ Marked(d, n, r, acceptances).base = acceptances[n]
           /\ Marked(d, n, r, acceptances).status = "synced" =>
                 /\ Marked(d, n, r, acceptances).version = acceptances[n]
                 /\ r.content = sent[d][n].content
           /\ Marked(d, n, r, acceptances).status \in {"synced", "pending"}
<1>1. r # None
  OBVIOUS
<1>2. CASE StillMatchesPush(d, n, r)
  <2>1. Marked(d, n, r, acceptances) =
           [r EXCEPT !.version = acceptances[n], !.status = "synced",
                     !.base = acceptances[n]]
    BY <1>1, <1>2 DEF Marked
  <2>2. r.content = sent[d][n].content
    BY <1>2 DEF StillMatchesPush, Side
  <2>3. "synced" \in Status
    BY DEF Status
  <2> QED
    BY <2>1, <2>2, <2>3 DEF LocalNote
<1>3. CASE ~StillMatchesPush(d, n, r)
  <2>1. Marked(d, n, r, acceptances) =
           [r EXCEPT !.version = r.version, !.status = "pending",
                     !.base = acceptances[n]]
    BY <1>1, <1>3 DEF Marked
  <2>2. "pending" \in Status
    BY DEF Status
  <2> QED
    BY <2>1, <2>2 DEF LocalNote
<1> QED
  BY <1>2, <1>3

LEMMA MarkGood ==
    ASSUME SyncInv, NEW d \in Device, MarkAccepted(d)
    PROVE  Good(d)
<1> DEFINE next == IF refused[d] # {} THEN "refused" ELSE "pull"
           mark(n) == Marked(d, n, Marked(d, n, local[d][n], leaked[d]), accepted[d])
<1>0. /\ Shapes /\ Quiet(d) /\ DeviceTypes(d) /\ Phase(d) /\ ServerTypeOK
      /\ \A n \in Note : NoteInv(d, n)
  BY DEF SyncInv, DeviceInv, ServerInv
<1>1. /\ step[d] = "answered"
      /\ local' = [local EXCEPT ![d] = [n \in Note |-> mark(n)]]
      /\ sent' = [sent EXCEPT ![d] = Nothing]
      /\ leaked' = [leaked EXCEPT ![d] = Nothing]
      /\ accepted' = [accepted EXCEPT ![d] = Nothing]
      /\ step' = [step EXCEPT ![d] = next]
      /\ UNCHANGED <<serverVars, conflicts, cursor, editorVars, orphan, refused,
                     page, reading, historyVars>>
  BY DEF MarkAccepted, Goto
<1>2. next \in {"refused", "pull"} /\ (next = "pull" => refused[d] = {})
  OBVIOUS
<1>3. \A n \in Note : mark(n) = Marked(d, n, local[d][n], accepted[d])
  BY <1>0 DEF Marked, Quiet
<1> HIDE DEF next, mark
<1>4. /\ DOMAIN local' = Device /\ DOMAIN sent' = Device /\ DOMAIN leaked' = Device
      /\ DOMAIN accepted' = Device /\ DOMAIN step' = Device
      /\ local'[d] = [n \in Note |-> mark(n)]
      /\ sent'[d] = Nothing /\ leaked'[d] = Nothing
      /\ accepted'[d] = Nothing /\ step'[d] = next
      /\ \A e \in Device \ {d} : /\ local'[e] = local[e] /\ sent'[e] = sent[e]
                                 /\ leaked'[e] = leaked[e] /\ step'[e] = step[e]
                                 /\ accepted'[e] = accepted[e]
  BY <1>0, <1>1 DEF Shapes
<1>5. DOMAIN Nothing = {}
  BY DEF Nothing
<1>6. Shapes' /\ Others(d)
  BY <1>0, <1>1, <1>4 DEF Shapes, Others, SameDevice, editorVars
<1>7. Forward(d)
  BY <1>1, SameIsForward DEF historyVars
<1>8. ASSUME NEW n \in Note, n \notin DOMAIN accepted[d] \/ ~Has(d, n)
      PROVE  local'[d][n] = local[d][n]
  BY <1>3, <1>4, <1>8 DEF Marked, Has
<1>9. ASSUME NEW n \in Note, n \in DOMAIN accepted[d], Has(d, n)
      PROVE  /\ local'[d][n] \in LocalNote /\ local'[d][n] # None
             /\ local'[d][n].content = local[d][n].content
             /\ local'[d][n].base = accepted[d][n]
             /\ local'[d][n].status = "synced" =>
                   /\ local'[d][n].version = local'[d][n].base
                   /\ local[d][n].content = sent[d][n].content
             /\ local'[d][n].status \in {"synced", "pending"}
             /\ n \in DOMAIN sent[d] /\ sent[d][n] \in LocalNote
             /\ accepted[d][n] \in Nat
  <2>1. /\ local[d][n] \in LocalNote /\ n \in DOMAIN sent[d]
        /\ sent[d][n] \in LocalNote /\ accepted[d][n] \in Nat
    BY <1>0, <1>9 DEF NoteInv, AnswerInv, DeviceTypes, NoteMap, Has
  <2>2. local'[d][n] = Marked(d, n, local[d][n], accepted[d])
    BY <1>3, <1>4
  <2> QED
    BY <1>9, <2>1, <2>2, MarkedFacts
<1>10. DeviceTypes(d)'
  <2>1. \A n \in Note : local'[d][n] \in LocalNote \union {None}
    BY <1>0, <1>8, <1>9 DEF DeviceTypes
  <2>2. local'[d] \in [Note -> LocalNote \union {None}]
    BY <1>4, <2>1
  <2>3. \A n \in Note : Has(d, n)' /\ local'[d][n].status = "synced"
                           => local'[d][n].version = local'[d][n].base
    BY <1>0, <1>8, <1>9 DEF DeviceTypes, Has
  <2>4. NoteMap(sent[d], LocalNote)' /\ NoteMap(accepted[d], Nat)'
    BY <1>4, <1>5 DEF NoteMap
  <2> QED
    BY <1>0, <1>1, <1>2, <1>4, <2>2, <2>3, <2>4 DEF DeviceTypes, serverVars, Step
<1>11. Quiet(d)' /\ Phase(d)'
  BY <1>0, <1>1, <1>2, <1>4, <1>5 DEF Quiet, Phase, editorVars
<1>12. ASSUME NEW n \in Note
       PROVE  NoteInv(d, n)'
  <2>0. NoteInv(d, n)
    BY <1>0
  <2>1. CASE n \notin DOMAIN accepted[d] \/ ~Has(d, n)
    <3>1. RecordFades(d, n)
      BY <1>8, <2>1 DEF RecordFades, Has
    <3>2. NoteFades(d, n)
      BY <1>1, <1>4, <1>5, <3>1 DEF NoteFades
    <3> QED
      BY <1>0, <1>7, <2>0, <3>2, FadingNote
  <2>2. CASE n \in DOMAIN accepted[d] /\ Has(d, n)
    <3>1. /\ local'[d][n].content = local[d][n].content
          /\ local'[d][n].base = accepted[d][n]
          /\ n \in DOMAIN sent[d] /\ sent[d][n] \in LocalNote
          /\ accepted[d][n] \in Nat
      BY <1>9, <2>2
    <3>2. /\ AnswerInv(d, n) /\ SentInv(d, n) /\ OwnSeen(d, n)
          /\ sent[d][n].base = local[d][n].base /\ local[d][n].base \in Nat
          /\ sent[d][n].content \subseteq local[d][n].content \union dropped
          /\ \A c \in conflicts[d] : c.note # n
      BY <2>0, <2>2, <3>1 DEF NoteInv, SentInv, LocalInv, LocalNote
    <3>3. Version(n) \in Nat /\ SameServer
      BY <1>0, <1>1, VersionType, ServerUnchanged
    <3>4. Seen(n, accepted[d][n], local[d][n].content)
      BY <2>2, <3>2 DEF AnswerInv, Seen
    <3>5. Seen(n, local[d][n].base, local[d][n].content)'
      BY <1>1, <3>1, <3>3, <3>4 DEF Seen, SameServer, historyVars
    <3>6. OwnSeen(d, n)'
      <4>1. local[d][n].base <= accepted[d][n]
        BY <2>2, <3>2 DEF AnswerInv
      <4>2. accepted[d][n] < Version(n) => local[d][n].base < Version(n)
        BY <3>1, <3>2, <3>3, <4>1
      <4> QED
        BY <1>1, <3>1, <3>2, <3>3, <4>2 DEF OwnSeen, SameServer, historyVars
    <3>7. LocalInv(d, n)'
      BY <3>5, <3>6 DEF LocalInv
    <3>8. SentInv(d, n)' /\ AnswerInv(d, n)'
      BY <1>4, <1>5 DEF SentInv, AnswerInv
    <3>9. ConflictInv(d, n)'
      BY <1>1, <3>2 DEF ConflictInv
    <3>10. n \notin DOMAIN page[d].notes
      BY <1>0, <1>1 DEF Phase
    <3>11. PageInv(d, n)'
      BY <1>1, <3>10 DEF PageInv
    <3>12. RefusedInv(d, n)'
      <4> SUFFICES ASSUME NEW c \in refused[d], c.note = n
                   PROVE  /\ Known(n, c.theirs)'
                          /\ WrittenBy(n, d)' => Version(n)' <= c.theirs.version
                          /\ \A b \in conflicts[d] : b.note # n
                          /\ \A b \in refused[d] : b.note = n => b = c
        BY <1>1 DEF RefusedInv
      <4>1. RefusedInv(d, n) /\ c.theirs \in Remote
        BY <1>0, <2>0 DEF NoteInv, DeviceTypes, Conflict
      <4>2. Known(n, c.theirs)'
        BY <1>0, <1>7, <4>1, StaysKnown DEF RefusedInv
      <4> QED
        BY <3>3, <4>1, <4>2 DEF RefusedInv, SameServer
    <3> QED
      BY <3>7, <3>8, <3>9, <3>11, <3>12 DEF NoteInv
  <2> QED
    BY <2>1, <2>2
<1>13. DeviceInv(d)'
  BY <1>10, <1>11, <1>12 DEF DeviceInv
<1>14. Keeps(d)
  <2> SUFFICES ASSUME NEW e \in Edit, Holds(d, e)
               PROVE  Holds(d, e)' \/ e \in dropped' \/ OnServer(e)'
    BY DEF Keeps
  <2>1. ASSUME NEW c \in conflicts[d], e \in c.mine.content
        PROVE  Holds(d, e)'
    BY <1>1, <2>1 DEF Holds
  <2>2. ASSUME NEW n \in Note, Has(d, n), local[d][n].status # "synced",
               e \in local[d][n].content
        PROVE  Holds(d, e)' \/ e \in dropped' \/ OnServer(e)'
    <3>1. CASE n \notin DOMAIN accepted[d]
      BY <1>8, <2>2, <3>1 DEF Holds, Has
    <3>2. CASE n \in DOMAIN accepted[d] /\ local'[d][n].status = "synced"
      <4>1. e \in Text(n) \union dropped
        BY <1>0, <1>9, <2>2, <3>2 DEF NoteInv, AnswerInv, InServer
      <4> QED
        BY <1>1, <4>1, ServerUnchanged DEF OnServer, SameServer, historyVars
    <3>3. CASE n \in DOMAIN accepted[d] /\ local'[d][n].status # "synced"
      BY <1>9, <2>2, <3>3 DEF Holds, Has
    <3> QED
      BY <3>1, <3>2, <3>3
  <2> QED
    BY <2>1, <2>2 DEF Holds
<1>15. Stays(d)
  BY <1>8, <1>9 DEF Stays, Has
<1> QED
  BY <1>6, <1>13, <1>14, <1>15 DEF Good

(* A record that keeps its text keeps the edits it holds. *)
LEMMA TextKept ==
    ASSUME NEW d \in Device, conflicts[d] \subseteq conflicts'[d],
           \A n \in Note : Has(d, n) /\ local[d][n].status # "synced" =>
              /\ Has(d, n)' /\ local'[d][n].status # "synced"
              /\ local'[d][n].content = local[d][n].content
    PROVE  Keeps(d) /\ Stays(d)
<1>1. \A e : Holds(d, e) => Holds(d, e)'
  BY DEF Holds
<1> QED
  BY <1>1 DEF Keeps, Stays

(* The conflict as it is stored: its local side is the record's. *)
Stored(d, c, x) ==
    /\ x \in Conflict /\ x.note = c.note /\ x.reason = c.reason
    /\ x.theirs = c.theirs
    /\ Has(d, c.note) => x.mine.content = local[d][c.note].content

LEMMA SaveConflictEffect ==
    ASSUME Shapes, NEW d \in Device, DeviceTypes(d), NEW c \in Conflict,
           SaveConflict(d, c)
    PROVE  /\ DOMAIN local' = Device /\ DOMAIN conflicts' = Device
           /\ \A e \in Device \ {d} : /\ local'[e] = local[e]
                                      /\ conflicts'[e] = conflicts[e]
           /\ local'[d] \in [Note -> LocalNote \union {None}]
           /\ \A n \in Note : n # c.note => local'[d][n] = local[d][n]
           /\ IF Has(d, c.note)
              THEN /\ Has(d, c.note)' /\ local'[d][c.note].status = "conflict"
                   /\ local'[d][c.note].content = local[d][c.note].content
                   /\ local'[d][c.note].base = local[d][c.note].base
              ELSE local'[d][c.note] = local[d][c.note]
           /\ \E x : Stored(d, c, x) /\ conflicts'[d] = conflicts[d] \union {x}
<1>0. c.note \in Note /\ local[d] \in [Note -> LocalNote \union {None}]
  BY DEF Conflict, DeviceTypes
<1>1. CASE Has(d, c.note)
  <2> DEFINE r == local[d][c.note]
             x == [c EXCEPT !.mine = Side(r)]
             s == [r EXCEPT !.status = "conflict"]
  <2>1. r \in LocalNote
    BY <1>0, <1>1 DEF Has
  <2>2. /\ conflicts' = [conflicts EXCEPT ![d] = @ \union {x}]
        /\ local' = [local EXCEPT ![d][c.note].status = "conflict"]
    BY <1>1 DEF SaveConflict
  <2>3. Side(r) \in [content : Content, life : Life] /\ Side(r).content = r.content
    BY <2>1 DEF Side, LocalNote
  <2>4. Stored(d, c, x)
    BY <2>3 DEF Stored, Conflict
  <2>5. s \in LocalNote /\ s.status = "conflict" /\ s.content = r.content /\ s.base = r.base
    BY <2>1 DEF LocalNote, Status
  <2>6. local'[d] = [local[d] EXCEPT ![c.note] = s]
    BY <2>2 DEF Shapes
  <2> HIDE DEF x, s, r
  <2>7. /\ DOMAIN local' = Device /\ DOMAIN conflicts' = Device
        /\ conflicts'[d] = conflicts[d] \union {x}
        /\ \A e \in Device \ {d} : /\ local'[e] = local[e]
                                   /\ conflicts'[e] = conflicts[e]
    BY <2>2 DEF Shapes
  <2>8. /\ local'[d] \in [Note -> LocalNote \union {None}] /\ local'[d][c.note] = s
        /\ \A n \in Note : n # c.note => local'[d][n] = local[d][n]
    BY <1>0, <2>5, <2>6
  <2> QED
    BY <1>1, <2>4, <2>5, <2>7, <2>8 DEF Has, r
<1>2. CASE ~Has(d, c.note)
  <2>1. conflicts' = [conflicts EXCEPT ![d] = @ \union {c}] /\ local' = local
    BY <1>2 DEF SaveConflict
  <2>2. Stored(d, c, c)
    BY <1>2 DEF Stored
  <2>3. /\ DOMAIN conflicts' = Device /\ conflicts'[d] = conflicts[d] \union {c}
        /\ \A e \in Device \ {d} : conflicts'[e] = conflicts[e]
    BY <2>1 DEF Shapes
  <2> QED
    BY <1>0, <1>2, <2>1, <2>2, <2>3 DEF Shapes
<1> QED
  BY <1>1, <1>2

(* The record of the conflict c, after c was stored or absorbed. *)
LEMMA AbsorbedEffect ==
    ASSUME Shapes, NEW d \in Device, DeviceTypes(d), NEW c \in Conflict,
           Has(d, c.note), local' = Absorbed(d, c)
    PROVE  /\ DOMAIN local' = Device
           /\ \A e \in Device \ {d} : local'[e] = local[e]
           /\ local'[d] \in [Note -> LocalNote \union {None}]
           /\ \A n \in Note : n # c.note => local'[d][n] = local[d][n]
           /\ Has(d, c.note)' /\ local'[d][c.note].status = "pending"
           /\ local'[d][c.note].content = local[d][c.note].content
           /\ local'[d][c.note].base = Later(local[d][c.note].base, c.theirs.version)
<1> DEFINE r == local[d][c.note]
           s == [r EXCEPT !.status = "pending", !.base = Later(r.base, c.theirs.version)]
<1>1. /\ c.note \in Note /\ local[d] \in [Note -> LocalNote \union {None}]
      /\ c.theirs.version \in Nat
  BY DEF Conflict, Remote, DeviceTypes
<1>2. r \in LocalNote
  BY <1>1 DEF Has
<1>3. Later(r.base, c.theirs.version) \in Nat
  BY <1>1, <1>2 DEF Later, LocalNote
<1>4. /\ s \in LocalNote /\ s.status = "pending" /\ s.content = r.content
      /\ s.base = Later(r.base, c.theirs.version)
  BY <1>2, <1>3 DEF LocalNote, Status
<1>5. DOMAIN local = Device
  BY DEF Shapes
<1>6. local' = [local EXCEPT ![d] = [local[d] EXCEPT ![c.note] = s]]
  BY <1>1, <1>2, <1>5 DEF Absorbed, LocalNote
<1> HIDE DEF r, s
<1>7. /\ DOMAIN local' = Device /\ local'[d] = [local[d] EXCEPT ![c.note] = s]
      /\ \A e \in Device \ {d} : local'[e] = local[e]
  BY <1>5, <1>6
<1>8. /\ local'[d] \in [Note -> LocalNote \union {None}] /\ local'[d][c.note] = s
      /\ \A n \in Note : n # c.note => local'[d][n] = local[d][n]
  BY <1>1, <1>4, <1>7
<1> QED
  BY <1>4, <1>7, <1>8 DEF Has, r

(* Whatever became of the refused note, its record names nothing unseen. *)
LEMMA AbsorbedSeen ==
    ASSUME ServerTypeOK, SameServer, dropped' = dropped,
           NEW d \in Device, NEW n \in Note, NEW t \in Remote, Known(n, t),
           t.device = d, LocalInv(d, n), DeviceTypes(d), Has(d, n),
           local'[d][n].content = local[d][n].content,
           local'[d][n].base = Later(local[d][n].base, t.version)
    PROVE  LocalInv(d, n)'
<1>1. /\ Version(n) \in Nat /\ t.version \in Nat /\ local[d][n].base \in Nat
  BY VersionType DEF Remote, DeviceTypes, Has, LocalNote
<1>2. Seen(n, local[d][n].base, local[d][n].content) /\ OwnSeen(d, n)
  BY DEF LocalInv
<1>3. local'[d][n].base >= local[d][n].base
  BY <1>1 DEF Later
<1>4. Seen(n, Later(local[d][n].base, t.version), local[d][n].content)
  <2>1. CASE t.version > local[d][n].base
    <3>1. HasRow(n) /\ Version(n) = t.version => WrittenBy(n, d)
      BY DEF Known, WrittenBy
    <3> QED
      BY <1>1, <1>2, <2>1, <3>1 DEF Later, Known, Seen, OwnSeen
  <2>2. CASE ~(t.version > local[d][n].base)
    <3>1. Later(local[d][n].base, t.version) = local[d][n].base
      BY <1>1, <2>2 DEF Later
    <3> QED
      BY <1>2, <3>1 DEF Seen
  <2> QED
    BY <2>1, <2>2
<1>5. Seen(n, local[d][n].base, local[d][n].content)'
  BY <1>4 DEF Seen, SameServer
<1>6. OwnSeen(d, n)'
  <2>1. Later(local[d][n].base, t.version) < Version(n) => local[d][n].base < Version(n)
    BY <1>1 DEF Later
  <2> QED
    BY <1>2, <2>1 DEF OwnSeen, SameServer
<1> QED
  BY <1>5, <1>6 DEF LocalInv

(* A conflict that is stored has all that is asked of one. *)
LEMMA StoredConflict ==
    ASSUME ServerTypeOK, SameServer, dropped' = dropped,
           NEW d \in Device, Forward(d), NEW n \in Note, NEW c \in Conflict, NEW x,
           c.note = n, Known(n, c.theirs), Stored(d, c, x),
           conflicts'[d] = conflicts[d] \union {x},
           c.reason = "remote_changed" => c.theirs.device # d,
           WrittenBy(n, d) => Version(n) <= c.theirs.version,
           \A b \in conflicts[d] : b.note # n,
           Has(d, n)' => /\ Has(d, n) /\ local'[d][n].status = "conflict"
                         /\ local'[d][n].content = local[d][n].content,
           n \notin DOMAIN page'[d].notes
    PROVE  ConflictInv(d, n)'
<1>1. \A b \in conflicts'[d] : b.note = n => b = x
  OBVIOUS
<1>2. /\ x.note = n /\ x.reason = c.reason /\ x.theirs = c.theirs
      /\ Has(d, n) => x.mine.content = local[d][n].content
  BY DEF Stored
<1>3. Known(n, c.theirs)'
  BY StaysKnown DEF Conflict
<1>4. /\ Known(n, x.theirs)'
      /\ x.reason = "remote_changed" => x.theirs.device # d
      /\ WrittenBy(n, d)' => Version(n)' <= x.theirs.version
  BY <1>2, <1>3 DEF SameServer
<1>5. Has(d, n)' => /\ local'[d][n].status # "pending"
                    /\ local'[d][n].content \subseteq x.mine.content
  BY <1>2
<1> QED
  BY <1>1, <1>4, <1>5 DEF ConflictInv

LEMMA RefusedGood ==
    ASSUME SyncInv, NEW d \in Device, HandleRefused(d)
    PROVE  Good(d)
<1>0. /\ Shapes /\ Quiet(d) /\ DeviceTypes(d) /\ Phase(d) /\ ServerTypeOK
      /\ \A n \in Note : NoteInv(d, n)
  BY DEF SyncInv, DeviceInv, ServerInv
<1>1. PICK c \in refused[d] :
         /\ refused' = [refused EXCEPT ![d] = @ \ {c}]
         /\ Goto(d, IF refused[d] = {c} THEN "pull" ELSE "refused")
         /\ \/ /\ OwnEcho(d, c)
               /\ local' = IF Has(d, c.note) THEN Absorbed(d, c) ELSE local
               /\ UNCHANGED conflicts
            \/ ~OwnEcho(d, c) /\ SaveConflict(d, c)
  BY DEF HandleRefused
<1>2. /\ step[d] = "refused"
      /\ UNCHANGED <<serverVars, cursor, editorVars, orphan, sent, answerVars, page,
                     reading, historyVars>>
  BY DEF HandleRefused
<1> DEFINE m == c.note
           next == IF refused[d] = {c} THEN "pull" ELSE "refused"
<1>3. c \in Conflict /\ m \in Note /\ c.theirs \in Remote
  BY <1>0 DEF DeviceTypes, Conflict
<1>4. step' = [step EXCEPT ![d] = next]
  BY <1>1 DEF Goto
<1>5. next \in {"pull", "refused"} /\ (next = "pull" => refused[d] = {c})
  OBVIOUS
<1> HIDE DEF m, next
<1>6. /\ DOMAIN refused' = Device /\ DOMAIN step' = Device
      /\ refused'[d] = refused[d] \ {c} /\ step'[d] = next
      /\ \A e \in Device \ {d} : refused'[e] = refused[e] /\ step'[e] = step[e]
  BY <1>0, <1>1, <1>4 DEF Shapes
<1>7. /\ Known(m, c.theirs)
      /\ WrittenBy(m, d) => Version(m) <= c.theirs.version
      /\ \A b \in conflicts[d] : b.note # m
      /\ \A b \in refused[d] : b.note = m => b = c
  BY <1>0, <1>3 DEF NoteInv, RefusedInv, m
<1>8. /\ SameServer /\ Forward(d) /\ dropped' = dropped
  BY <1>2, ServerUnchanged, SameIsForward DEF historyVars
<1>9. /\ DOMAIN sent[d] = {} /\ DOMAIN accepted[d] = {} /\ DOMAIN page[d].notes = {}
      /\ sent' = sent /\ accepted' = accepted /\ page' = page
  BY <1>0, <1>2 DEF Phase, answerVars
<1>10. (* What happens to the note of c and to the conflicts. *)
       /\ DOMAIN local' = Device /\ DOMAIN conflicts' = Device
       /\ \A e \in Device \ {d} : local'[e] = local[e] /\ conflicts'[e] = conflicts[e]
       /\ local'[d] \in [Note -> LocalNote \union {None}]
       /\ \A n \in Note : n # m => local'[d][n] = local[d][n]
       /\ IF Has(d, m)
          THEN /\ Has(d, m)' /\ local'[d][m].status \in {"pending", "conflict"}
               /\ local'[d][m].content = local[d][m].content
          ELSE local'[d][m] = local[d][m]
       /\ LocalInv(d, m)' /\ ConflictInv(d, m)'
       /\ conflicts'[d] \subseteq Conflict /\ conflicts[d] \subseteq conflicts'[d]
       /\ \A b \in conflicts'[d] : b.note # m => b \in conflicts[d]
  <2>0. LocalInv(d, m)
    BY <1>0, <1>3 DEF NoteInv, m
  <2>1. CASE OwnEcho(d, c) /\ UNCHANGED conflicts /\ Has(d, m) /\ local' = Absorbed(d, c)
    <3>1. /\ DOMAIN local' = Device
          /\ \A e \in Device \ {d} : local'[e] = local[e]
          /\ local'[d] \in [Note -> LocalNote \union {None}]
          /\ \A n \in Note : n # m => local'[d][n] = local[d][n]
          /\ Has(d, m)' /\ local'[d][m].status = "pending"
          /\ local'[d][m].content = local[d][m].content
          /\ local'[d][m].base = Later(local[d][m].base, c.theirs.version)
      BY <1>0, <1>3, <2>1, AbsorbedEffect DEF m
    <3>2. c.theirs.device = d
      BY <2>1 DEF OwnEcho
    <3>3. LocalInv(d, m)'
      BY <1>0, <1>3, <1>7, <1>8, <2>0, <2>1, <3>1, <3>2, AbsorbedSeen
    <3>4. ConflictInv(d, m)'
      BY <1>7, <2>1 DEF ConflictInv
    <3> QED
      BY <1>0, <2>1, <3>1, <3>3, <3>4 DEF Shapes, DeviceTypes
  <2>2. CASE UNCHANGED <<conflicts, local>> /\ ~Has(d, m)
    <3>1. LocalInv(d, m)'
      BY <2>2 DEF LocalInv, Has
    <3>2. ConflictInv(d, m)'
      BY <1>7, <2>2 DEF ConflictInv
    <3> QED
      BY <1>0, <2>2, <3>1, <3>2 DEF Shapes, DeviceTypes
  <2>3. CASE ~OwnEcho(d, c) /\ SaveConflict(d, c)
    <3>1. /\ DOMAIN local' = Device /\ DOMAIN conflicts' = Device
          /\ \A e \in Device \ {d} : /\ local'[e] = local[e]
                                     /\ conflicts'[e] = conflicts[e]
          /\ local'[d] \in [Note -> LocalNote \union {None}]
          /\ \A n \in Note : n # m => local'[d][n] = local[d][n]
          /\ IF Has(d, m)
             THEN /\ Has(d, m)' /\ local'[d][m].status = "conflict"
                  /\ local'[d][m].content = local[d][m].content
                  /\ local'[d][m].base = local[d][m].base
             ELSE local'[d][m] = local[d][m]
          /\ \E x : Stored(d, c, x) /\ conflicts'[d] = conflicts[d] \union {x}
      BY <1>0, <1>3, <2>3, SaveConflictEffect DEF m
    <3>2. PICK x : Stored(d, c, x) /\ conflicts'[d] = conflicts[d] \union {x}
      BY <3>1
    <3>3. c.reason = "remote_changed" => c.theirs.device # d
      BY <2>3 DEF OwnEcho
    <3>4. Has(d, m)' => /\ Has(d, m) /\ local'[d][m].status = "conflict"
                        /\ local'[d][m].content = local[d][m].content
                        /\ local'[d][m].base = local[d][m].base
      BY <3>1 DEF Has
    <3>5. ConflictInv(d, m)'
      BY <1>0, <1>3, <1>7, <1>8, <1>9, <3>2, <3>3, <3>4, StoredConflict DEF m
    <3>6. LocalInv(d, m)'
      BY <1>8, <2>0, <3>4 DEF LocalInv, Seen, OwnSeen, SameServer
    <3>7. x \in Conflict /\ x.note = m
      BY <3>2 DEF Stored, m
    <3> QED
      BY <1>0, <3>1, <3>2, <3>5, <3>6, <3>7 DEF DeviceTypes
  <2> QED
    BY <1>1, <2>1, <2>2, <2>3 DEF m
<1>11. Shapes' /\ Others(d)
  BY <1>0, <1>2, <1>6, <1>10 DEF Shapes, Others, SameDevice, editorVars, answerVars
<1>12. DeviceTypes(d)'
  <2>1. \A n \in Note : Has(d, n)' /\ local'[d][n].status = "synced"
                           => local'[d][n].version = local'[d][n].base
    BY <1>0, <1>10 DEF DeviceTypes, Has
  <2> QED
    BY <1>0, <1>2, <1>5, <1>6, <1>10, <2>1 DEF DeviceTypes, serverVars, answerVars, Step
<1>13. Quiet(d)' /\ Phase(d)'
  BY <1>0, <1>2, <1>5, <1>6 DEF Quiet, Phase, editorVars, answerVars
<1>14. NoteInv(d, m)'
  <2>1. SentInv(d, m)' /\ AnswerInv(d, m)' /\ PageInv(d, m)'
    BY <1>9 DEF SentInv, AnswerInv, PageInv
  <2>2. RefusedInv(d, m)'
    BY <1>6, <1>7 DEF RefusedInv
  <2> QED
    BY <1>10, <2>1, <2>2 DEF NoteInv
<1>15. ASSUME NEW n \in Note, n # m
       PROVE  NoteInv(d, n)'
  <2>1. NoteInv(d, n) /\ local'[d][n] = local[d][n]
    BY <1>0, <1>10, <1>15
  <2>2. RecordFades(d, n)
    BY <2>1 DEF RecordFades, Has
  <2>3. \A b \in conflicts'[d] : b.note = n => b \in conflicts[d]
    BY <1>10, <1>15
  <2>4. NoteFades(d, n)
    BY <1>6, <1>9, <2>2, <2>3 DEF NoteFades
  <2> QED
    BY <1>0, <1>8, <2>1, <2>4, FadingNote
<1>16. DeviceInv(d)'
  BY <1>12, <1>13, <1>14, <1>15 DEF DeviceInv
<1>17. Keeps(d) /\ Stays(d)
  <2>1. \A n \in Note : Has(d, n) /\ local[d][n].status # "synced" =>
           /\ Has(d, n)' /\ local'[d][n].status # "synced"
           /\ local'[d][n].content = local[d][n].content
    BY <1>10 DEF Has
  <2> QED
    BY <1>10, <2>1, TextKept
<1> QED
  BY <1>11, <1>16, <1>17 DEF Good

LEMMA PullGood ==
    ASSUME SyncInv, NEW d \in Device, HandlePull(d)
    PROVE  Good(d)
<1>0. /\ Shapes /\ Quiet(d) /\ DeviceTypes(d) /\ Phase(d) /\ ServerTypeOK
      /\ \A n \in Note : NoteInv(d, n)
  BY DEF SyncInv, DeviceInv, ServerInv
<1>1. PICK r \in 0..lastRev :
         page' = [page EXCEPT ![d] =
            [notes |-> [n \in {m \in LoggedPast(d) : HasRow(m)} |-> RemoteOf(rows[n])],
             deletes |-> {n \in LoggedPast(d) : ~HasRow(n)},
             revision |-> r]]
  BY DEF HandlePull
<1>2. /\ step[d] = "pull" /\ step' = [step EXCEPT ![d] = "pulled"]
      /\ UNCHANGED <<serverVars, local, conflicts, cursor, editorVars, orphan, sent,
                     answerVars, refused, reading, historyVars>>
  BY DEF HandlePull, Goto
<1>3. /\ DOMAIN page' = Device /\ DOMAIN step' = Device /\ step'[d] = "pulled"
      /\ page'[d] =
            [notes |-> [n \in {m \in LoggedPast(d) : HasRow(m)} |-> RemoteOf(rows[n])],
             deletes |-> {n \in LoggedPast(d) : ~HasRow(n)},
             revision |-> r]
      /\ \A e \in Device \ {d} : page'[e] = page[e] /\ step'[e] = step[e]
  BY <1>0, <1>1, <1>2 DEF Shapes
<1>4. /\ page'[d].deletes \subseteq Note /\ page'[d].revision \in 0..lastRev
      /\ DOMAIN page'[d].notes \subseteq Note
      /\ \A n \in DOMAIN page'[d].notes :
            HasRow(n) /\ page'[d].notes[n] = RemoteOf(rows[n])
  BY <1>3 DEF LoggedPast
<1>5. ASSUME NEW n \in DOMAIN page'[d].notes
      PROVE  /\ page'[d].notes[n] \in Remote /\ Known(n, page'[d].notes[n])
             /\ page'[d].notes[n].version = Version(n)
  <2> DEFINE t == page'[d].notes[n]
  <2>1. n \in Note /\ HasRow(n) /\ t = RemoteOf(rows[n]) /\ rows[n] \in Row
    BY <1>0, <1>4 DEF ServerTypeOK, HasRow
  <2>2. /\ rows[n].content \in Content /\ rows[n].life \in Life
        /\ rows[n].device \in Device /\ rows[n].version \in Nat \ {0}
        /\ Version(n) = rows[n].version
    BY <2>1 DEF Row, Version
  <2>3. /\ t \in Remote /\ t.version = Version(n) /\ t.content = rows[n].content
        /\ t.device = rows[n].device
    BY <2>1, <2>2 DEF Remote, RemoteOf
  <2> HIDE DEF t
  <2>4. Known(n, t)
    BY <2>1, <2>2, <2>3 DEF Known, Seen, InServer, Text
  <2> QED
    BY <2>3, <2>4 DEF t
<1>6. Shapes' /\ Others(d)
  BY <1>0, <1>2, <1>3 DEF Shapes, Others, SameDevice, editorVars, answerVars
<1>7. DeviceTypes(d)'
  BY <1>0, <1>2, <1>3, <1>4, <1>5 DEF DeviceTypes, NoteMap, Has, serverVars, answerVars,
                                      Step
<1>8. Quiet(d)' /\ Phase(d)'
  BY <1>0, <1>2, <1>3 DEF Quiet, Phase, editorVars, answerVars
<1>9. Keeps(d) /\ Stays(d) /\ SameServer /\ Forward(d)
  BY <1>2, NothingTouched, ServerUnchanged DEF historyVars
<1>10. ASSUME NEW n \in Note
       PROVE  NoteInv(d, n)'
  <2>1. NoteInv(d, n) /\ Version(n) \in Nat
    BY <1>0, VersionType
  <2>2. LocalInv(d, n)' /\ RefusedInv(d, n)'
    BY <1>0, <1>2, NothingTouched DEF historyVars, NoteInv
  <2>3. SentInv(d, n)' /\ AnswerInv(d, n)'
    BY <1>0, <1>2 DEF SentInv, AnswerInv, Phase, answerVars
  <2>4. ConflictInv(d, n)'
    <3> SUFFICES ASSUME NEW c \in conflicts[d], c.note = n
                 PROVE  /\ Known(n, c.theirs)'
                        /\ WrittenBy(n, d)' => Version(n)' <= c.theirs.version
                        /\ n \in DOMAIN page'[d].notes
                              => c.theirs.version <= page'[d].notes[n].version
      BY <1>2, <2>1 DEF NoteInv, ConflictInv, Has, historyVars
    <3>1. Known(n, c.theirs) /\ c.theirs \in Remote
      BY <1>0, <2>1 DEF NoteInv, ConflictInv, DeviceTypes, Conflict
    <3>2. Known(n, c.theirs)'
      BY <1>0, <1>9, <3>1, StaysKnown
    <3>3. c.theirs.version <= Version(n)
      BY <3>1 DEF Known, Seen
    <3> QED
      BY <1>5, <1>9, <2>1, <3>2, <3>3 DEF NoteInv, ConflictInv, SameServer
  <2>5. PageInv(d, n)'
    <3> SUFFICES ASSUME n \in DOMAIN page'[d].notes
                 PROVE  /\ Known(n, page[d].notes[n])'
                        /\ Has(d, n) => local[d][n].base <= page'[d].notes[n].version
                        /\ Version(n)' <= page'[d].notes[n].version
      BY <1>2 DEF PageInv, Has
    <3>1. /\ Known(n, page'[d].notes[n]) /\ page'[d].notes[n].version = Version(n)
      BY <1>5
    <3>2. Known(n, page[d].notes[n])'
      BY <1>2, <1>9, <3>1 DEF Known, Seen, InServer, SameServer, serverVars, historyVars
    <3> QED
      BY <1>9, <2>1, <3>1, <3>2 DEF NoteInv, LocalInv, Seen, SameServer
  <2> QED
    BY <2>2, <2>3, <2>4, <2>5 DEF NoteInv
<1>11. DeviceInv(d)'
  BY <1>7, <1>8, <1>10 DEF DeviceInv
<1> QED
  BY <1>6, <1>9, <1>11 DEF Good

LEMMA DeletesGood ==
    ASSUME SyncInv, NEW d \in Device, ApplyRemoteDeletes(d)
    PROVE  Good(d)
<1>0. /\ Shapes /\ Quiet(d) /\ DeviceTypes(d) /\ Phase(d) /\ ServerTypeOK
      /\ \A n \in Note : NoteInv(d, n)
  BY DEF SyncInv, DeviceInv, ServerInv
<1>1. /\ step[d] = "pulled" /\ step' = [step EXCEPT ![d] = "merge"]
      /\ local' = [local EXCEPT ![d] = [n \in Note |->
            IF n \in page[d].deletes /\ Has(d, n) /\ local[d][n].status = "synced"
            THEN None ELSE local[d][n]]]
      /\ UNCHANGED <<serverVars, conflicts, cursor, editorVars, orphan, sent, answerVars,
                     refused, page, reading, historyVars>>
  BY DEF ApplyRemoteDeletes, Goto
<1>2. /\ DOMAIN local' = Device /\ DOMAIN step' = Device /\ step'[d] = "merge"
      /\ local'[d] = [n \in Note |->
            IF n \in page[d].deletes /\ Has(d, n) /\ local[d][n].status = "synced"
            THEN None ELSE local[d][n]]
      /\ \A e \in Device \ {d} : local'[e] = local[e] /\ step'[e] = step[e]
  BY <1>0, <1>1 DEF Shapes
<1>3. /\ local'[d] \in [Note -> LocalNote \union {None}]
      /\ \A n \in Note : \/ local'[d][n] = local[d][n]
                         \/ ~Has(d, n)' /\ local[d][n].status = "synced"
  BY <1>0, <1>2 DEF DeviceTypes, Has
<1>4. Shapes' /\ Others(d)
  BY <1>0, <1>1, <1>2 DEF Shapes, Others, SameDevice, editorVars, answerVars
<1>5. Forward(d)
  BY <1>1, SameIsForward DEF historyVars
<1>6. DeviceTypes(d)'
  BY <1>0, <1>1, <1>2, <1>3 DEF DeviceTypes, Has, serverVars, answerVars, Step
<1>7. Quiet(d)' /\ Phase(d)'
  BY <1>0, <1>1, <1>2 DEF Quiet, Phase, editorVars, answerVars
<1>8. ASSUME NEW n \in Note
      PROVE  NoteInv(d, n)'
  <2>1. RecordFades(d, n)
    BY <1>3 DEF RecordFades, Has
  <2>2. NoteFades(d, n)
    BY <1>0, <1>1, <2>1 DEF NoteFades, SameText, NoteInv, AnswerInv, answerVars
  <2> QED
    BY <1>0, <1>5, <2>2, FadingNote
<1>9. DeviceInv(d)'
  BY <1>6, <1>7, <1>8 DEF DeviceInv
<1>10. Keeps(d) /\ Stays(d)
  BY <1>1, <1>3, TextKept DEF Has
<1> QED
  BY <1>4, <1>9, <1>10 DEF Good

LEMMA ReadLocalGood ==
    ASSUME SyncInv, NEW d \in Device, ReadLocal(d)
    PROVE  Good(d)
<1>0. /\ Shapes /\ Quiet(d) /\ DeviceTypes(d) /\ Phase(d)
      /\ \A n \in Note : NoteInv(d, n)
  BY DEF SyncInv, DeviceInv
<1>1. PICK m \in DOMAIN page[d].notes :
         reading' = [reading EXCEPT ![d] = [note |-> m, seen |-> local[d][m]]]
  BY DEF ReadLocal
<1>2. /\ step[d] = "merge" /\ step' = [step EXCEPT ![d] = "put"]
      /\ UNCHANGED <<serverVars, local, conflicts, cursor, editorVars, orphan, sent,
                     answerVars, refused, page, historyVars>>
  BY DEF ReadLocal, Goto
<1>3. /\ DOMAIN reading' = Device /\ DOMAIN step' = Device /\ step'[d] = "put"
      /\ reading'[d] = [note |-> m, seen |-> local[d][m]]
      /\ \A e \in Device \ {d} : reading'[e] = reading[e] /\ step'[e] = step[e]
  BY <1>0, <1>1, <1>2 DEF Shapes
<1>4. Shapes' /\ Others(d)
  BY <1>0, <1>2, <1>3 DEF Shapes, Others, SameDevice, editorVars, answerVars
<1>5. DeviceTypes(d)'
  BY <1>0, <1>2, <1>3 DEF DeviceTypes, Has, serverVars, answerVars, Step
<1>6. Quiet(d)' /\ Phase(d)'
  BY <1>0, <1>2, <1>3 DEF Quiet, Phase, editorVars, answerVars
<1>7. Keeps(d) /\ Stays(d) /\ Forward(d)
  BY <1>2, NothingTouched DEF historyVars
<1>8. ASSUME NEW n \in Note
      PROVE  NoteInv(d, n)'
  <2>1. LocalInv(d, n)' /\ ConflictInv(d, n)' /\ PageInv(d, n)' /\ RefusedInv(d, n)'
    BY <1>0, <1>2, NothingTouched DEF historyVars, NoteInv
  <2>2. SentInv(d, n)' /\ AnswerInv(d, n)'
    BY <1>0, <1>2 DEF SentInv, AnswerInv, Phase, answerVars
  <2> QED
    BY <2>1, <2>2 DEF NoteInv
<1>9. DeviceInv(d)'
  BY <1>5, <1>6, <1>8 DEF DeviceInv
<1> QED
  BY <1>4, <1>7, <1>9 DEF Good

(* What the merge of one pulled note leaves behind. *)
Merged(d, n) ==
    /\ DOMAIN local' = Device /\ DOMAIN conflicts' = Device
    /\ \A e \in Device \ {d} : local'[e] = local[e] /\ conflicts'[e] = conflicts[e]
    /\ local'[d] \in [Note -> LocalNote \union {None}]
    /\ \A m \in Note : m # n => local'[d][m] = local[d][m]
    /\ Has(d, n) /\ local[d][n].status # "synced" =>
          /\ Has(d, n)' /\ local'[d][n].status # "synced"
          /\ local'[d][n].content = local[d][n].content
    /\ Has(d, n)' /\ local'[d][n].status = "synced" =>
          local'[d][n].version = local'[d][n].base
    /\ LocalInv(d, n)' /\ ConflictInv(d, n)'
    /\ conflicts'[d] \subseteq Conflict /\ conflicts[d] \subseteq conflicts'[d]
    /\ \A b \in conflicts'[d] : b.note # n => b \in conflicts[d]

(* The facts a merge starts from. *)
LEMMA MergeFacts ==
    ASSUME SyncInv, NEW d \in Device, step[d] = "put",
           UNCHANGED serverVars, dropped' = dropped
    PROVE  /\ reading[d].note \in DOMAIN page[d].notes /\ reading[d].note \in Note
           /\ reading[d].seen = local[d][reading[d].note]
           /\ page[d].notes[reading[d].note] \in Remote
           /\ Known(reading[d].note, page[d].notes[reading[d].note])
           /\ NoteInv(d, reading[d].note)
           /\ Shapes /\ DeviceTypes(d) /\ ServerTypeOK /\ SameServer /\ Forward(d)
<1>1. DeviceTypes(d) /\ Phase(d) /\ \A n \in Note : NoteInv(d, n)
  BY DEF SyncInv, DeviceInv
<1>2. reading[d].note \in DOMAIN page[d].notes /\ reading[d].note \in Note
  BY <1>1 DEF Phase, DeviceTypes, NoteMap
<1>3. page[d].notes[reading[d].note] \in Remote
  BY <1>1, <1>2 DEF DeviceTypes, NoteMap
<1> QED
  BY <1>1, <1>2, <1>3, ServerUnchanged, SameIsForward
     DEF SyncInv, ServerInv, Phase, NoteInv, PageInv

(* A conflict keeps what is asked of it while nothing it speaks of changes. *)
LEMMA ConflictStays ==
    ASSUME ServerTypeOK, NEW d \in Device, DeviceTypes(d), SameServer, Forward(d),
           dropped' = dropped, NEW n \in Note, ConflictInv(d, n),
           conflicts'[d] = conflicts[d], n \notin DOMAIN page'[d].notes,
           Has(d, n)' => \/ Has(d, n) /\ local'[d][n] = local[d][n]
                         \/ local'[d][n].status = "synced"
    PROVE  ConflictInv(d, n)'
<1> SUFFICES ASSUME NEW c \in conflicts[d], c.note = n
             PROVE  /\ Known(n, c.theirs)'
                    /\ WrittenBy(n, d)' => Version(n)' <= c.theirs.version
  BY DEF ConflictInv
<1>1. c.theirs \in Remote /\ Known(n, c.theirs)
  BY DEF DeviceTypes, Conflict, ConflictInv
<1>2. Known(n, c.theirs)'
  BY <1>1, StaysKnown
<1> QED
  BY <1>2 DEF ConflictInv, SameServer

LEMMA MergeCleanEffect ==
    ASSUME SyncInv, NEW d \in Device, step[d] = "put",
           UNCHANGED serverVars, dropped' = dropped,
           NEW n, n = reading[d].note, n \notin DOMAIN page'[d].notes,
           MergeClean(d, n, local[d][n], page[d].notes[n])
    PROVE  Merged(d, n)
<1> DEFINE t == page[d].notes[n]
<1>1. /\ n \in DOMAIN page[d].notes /\ n \in Note /\ t \in Remote /\ Known(n, t)
      /\ NoteInv(d, n) /\ Shapes /\ DeviceTypes(d) /\ ServerTypeOK /\ SameServer
      /\ Forward(d)
  BY MergeFacts
<1> HIDE DEF t
<1>2. /\ local[d][n] # None => local[d][n].status = "synced"
      /\ Put(d, n, Synced(t)) /\ conflicts' = conflicts
  BY DEF MergeClean, t
<1>3. t.content \in Content /\ t.life \in Life /\ t.version \in Nat
  BY <1>1 DEF Remote
<1>4. /\ Synced(t) \in LocalNote
      /\ Synced(t).content = t.content /\ Synced(t).status = "synced"
      /\ Synced(t).base = t.version /\ Synced(t).version = t.version
  BY <1>3, SyncedFacts
<1>5. /\ DOMAIN local' = Device /\ local'[d][n] = Synced(t)
      /\ \A m \in Note \ {n} : local'[d][m] = local[d][m]
      /\ \A e \in Device \ {d} : local'[e] = local[e]
      /\ local'[d] \in [Note -> LocalNote \union {None}]
  BY <1>1, <1>2, <1>4, PutEffect DEF Shapes
<1>6. LocalInv(d, n)'
  <2>1. Version(n) \in Nat
    BY <1>1, VersionType
  <2>2. Seen(n, local[d][n].base, local[d][n].content)'
    BY <1>1, <1>4, <1>5 DEF Known, Seen, SameServer
  <2>3. WrittenBy(n, d)' => Version(n)' <= t.version
    BY <1>1 DEF NoteInv, PageInv, SameServer, t
  <2>4. OwnSeen(d, n)'
    BY <1>1, <1>3, <1>4, <1>5, <2>1, <2>3 DEF OwnSeen, SameServer
  <2> QED
    BY <2>2, <2>4 DEF LocalInv
<1>7. ConflictInv(d, n)'
  BY <1>1, <1>2, <1>4, <1>5, ConflictStays DEF NoteInv
<1> QED
  BY <1>1, <1>2, <1>4, <1>5, <1>6, <1>7 DEF Merged, Has, Shapes, DeviceTypes

LEMMA MergeLaterEffect ==
    ASSUME SyncInv, NEW d \in Device, step[d] = "put",
           UNCHANGED serverVars, dropped' = dropped,
           NEW n, n = reading[d].note, n \notin DOMAIN page'[d].notes,
           UNCHANGED <<local, conflicts>>
    PROVE  Merged(d, n)
<1>1. /\ n \in Note /\ NoteInv(d, n) /\ Shapes /\ DeviceTypes(d) /\ ServerTypeOK
      /\ SameServer /\ Forward(d)
  BY MergeFacts
<1>2. LocalInv(d, n)'
  BY <1>1, NothingTouched DEF NoteInv
<1>3. ConflictInv(d, n)'
  BY <1>1, ConflictStays DEF NoteInv, Has
<1> QED
  BY <1>1, <1>2, <1>3 DEF Merged, Has, Shapes, DeviceTypes

LEMMA MergeOwnEffect ==
    ASSUME SyncInv, NEW d \in Device, step[d] = "put",
           UNCHANGED serverVars, dropped' = dropped,
           NEW n, n = reading[d].note, n \notin DOMAIN page'[d].notes,
           MergeOwn(d, n, local[d][n], page[d].notes[n])
    PROVE  Merged(d, n)
<1> DEFINE t == page[d].notes[n]
           r == [local[d][n] EXCEPT !.base = t.version]
<1>1. /\ n \in DOMAIN page[d].notes /\ n \in Note /\ t \in Remote /\ Known(n, t)
      /\ NoteInv(d, n) /\ Shapes /\ DeviceTypes(d) /\ ServerTypeOK /\ SameServer
      /\ Forward(d)
  BY MergeFacts
<1> HIDE DEF t
<1>2. /\ Has(d, n) /\ local[d][n].status = "pending" /\ t.device = d
      /\ conflicts' = conflicts
      /\ IF t.version > local[d][n].base THEN Put(d, n, r) ELSE local' = local
  BY DEF MergeOwn, Diverged, Has, t
<1>3. CASE ~(t.version > local[d][n].base)
  BY <1>2, <1>3, MergeLaterEffect
<1>4. CASE t.version > local[d][n].base
  <2>1. local[d][n] \in LocalNote /\ t.version \in Nat
    BY <1>1, <1>2 DEF DeviceTypes, Has, Remote
  <2>2. /\ r \in LocalNote /\ r.content = local[d][n].content
        /\ r.status = "pending" /\ r.base = t.version
    BY <1>2, <2>1 DEF LocalNote
  <2> HIDE DEF r
  <2>3. /\ DOMAIN local' = Device /\ local'[d][n] = r
        /\ \A m \in Note \ {n} : local'[d][m] = local[d][m]
        /\ \A e \in Device \ {d} : local'[e] = local[e]
        /\ local'[d] \in [Note -> LocalNote \union {None}]
    BY <1>1, <1>2, <1>4, <2>2, PutEffect DEF Shapes
  <2>4. LocalInv(d, n)'
    <3>1. local'[d][n].base = Later(local[d][n].base, t.version)
      BY <1>4, <2>1, <2>2, <2>3 DEF Later, LocalNote
    <3> QED
      BY <1>1, <1>2, <2>2, <2>3, <3>1, AbsorbedSeen DEF NoteInv
  <2>5. ConflictInv(d, n)'
    BY <1>1, <1>2 DEF NoteInv, ConflictInv
  <2>6. r # None
    BY <2>2
  <2> QED
    BY <1>1, <1>2, <2>2, <2>3, <2>4, <2>5, <2>6 DEF Merged, Has, Shapes, DeviceTypes
<1> QED
  BY <1>3, <1>4

LEMMA MergeDivergedEffect ==
    ASSUME SyncInv, NEW d \in Device, step[d] = "put",
           UNCHANGED serverVars, dropped' = dropped,
           NEW n, n = reading[d].note, n \notin DOMAIN page'[d].notes,
           MergeDiverged(d, n, local[d][n], page[d].notes[n])
    PROVE  Merged(d, n)
<1> DEFINE t == page[d].notes[n]
           c == [note |-> n, reason |-> "remote_changed",
                 mine |-> Side(local[d][n]), theirs |-> t]
<1>1. /\ n \in DOMAIN page[d].notes /\ n \in Note /\ t \in Remote /\ Known(n, t)
      /\ NoteInv(d, n) /\ Shapes /\ DeviceTypes(d) /\ ServerTypeOK /\ SameServer
      /\ Forward(d)
  BY MergeFacts
<1> HIDE DEF t
<1>2. /\ Has(d, n) /\ local[d][n].status = "pending" /\ t.device # d
      /\ SaveConflict(d, c)
  BY DEF MergeDiverged, Diverged, Has, t
<1>3. local[d][n] \in LocalNote
  BY <1>1, <1>2 DEF DeviceTypes, Has
<1>4. c \in Conflict /\ c.note = n /\ c.theirs = t
  <2>1. Side(local[d][n]) \in [content : Content, life : Life]
    BY <1>3 DEF Side, LocalNote
  <2> QED
    BY <1>1, <2>1 DEF Conflict
<1> HIDE DEF c
<1>5. /\ DOMAIN local' = Device /\ DOMAIN conflicts' = Device
      /\ \A e \in Device \ {d} : /\ local'[e] = local[e]
                                 /\ conflicts'[e] = conflicts[e]
      /\ local'[d] \in [Note -> LocalNote \union {None}]
      /\ \A m \in Note : m # n => local'[d][m] = local[d][m]
      /\ Has(d, n)' /\ local'[d][n].status = "conflict"
      /\ local'[d][n].content = local[d][n].content
      /\ local'[d][n].base = local[d][n].base
      /\ \E x : Stored(d, c, x) /\ conflicts'[d] = conflicts[d] \union {x}
  BY <1>1, <1>2, <1>4, SaveConflictEffect
<1>6. PICK x : Stored(d, c, x) /\ conflicts'[d] = conflicts[d] \union {x}
  BY <1>5
<1>7. /\ WrittenBy(n, d) => Version(n) <= t.version
      /\ \A b \in conflicts[d] : b.note # n
  BY <1>1, <1>2 DEF NoteInv, PageInv, ConflictInv, t
<1>8. ConflictInv(d, n)'
  BY <1>1, <1>2, <1>4, <1>5, <1>6, <1>7, StoredConflict
<1>9. LocalInv(d, n)'
  BY <1>1, <1>2, <1>5 DEF NoteInv, LocalInv, Seen, OwnSeen, SameServer
<1>10. x \in Conflict /\ x.note = n
  BY <1>4, <1>6 DEF Stored
<1> QED
  BY <1>1, <1>5, <1>6, <1>8, <1>9, <1>10 DEF Merged, DeviceTypes

LEMMA MergeGood ==
    ASSUME SyncInv, NEW d \in Device, MergeRemoteNote(d)
    PROVE  Good(d)
<1>n. PICK n : n = reading[d].note
  OBVIOUS
<1> DEFINE rest == [m \in DOMAIN page[d].notes \ {n} |-> page[d].notes[m]]
<1>0. /\ Shapes /\ Quiet(d) /\ DeviceTypes(d) /\ Phase(d) /\ ServerTypeOK
      /\ \A m \in Note : NoteInv(d, m)
  BY DEF SyncInv, DeviceInv, ServerInv
<1>1. /\ step[d] = "put"
      /\ page' = [page EXCEPT ![d].notes = rest]
      /\ reading' = [reading EXCEPT ![d] = None]
      /\ step' = [step EXCEPT ![d] = "merge"]
      /\ UNCHANGED <<serverVars, cursor, editorVars, orphan, sent, answerVars, refused,
                     historyVars>>
  BY <1>n DEF MergeRemoteNote, Goto
<1>2. \/ MergeClean(d, n, reading[d].seen, page[d].notes[n])
      \/ MergeOwn(d, n, reading[d].seen, page[d].notes[n])
      \/ MergeDiverged(d, n, reading[d].seen, page[d].notes[n])
      \/ MergeLater(d, n, reading[d].seen, page[d].notes[n])
  BY <1>n DEF MergeRemoteNote
<1>3. dropped' = dropped /\ UNCHANGED serverVars
  BY <1>1 DEF historyVars
<1>4. n \in Note /\ reading[d].seen = local[d][n] /\ Forward(d)
  BY <1>n, <1>1, <1>3, MergeFacts
<1> HIDE DEF rest
<1>5. DOMAIN rest = DOMAIN page[d].notes \ {n}
      /\ \A m \in DOMAIN rest : rest[m] = page[d].notes[m]
  BY DEF rest
<1>6. /\ DOMAIN page' = Device /\ DOMAIN reading' = Device /\ DOMAIN step' = Device
      /\ page'[d] = [page[d] EXCEPT !.notes = rest]
      /\ reading'[d] = None /\ step'[d] = "merge"
      /\ \A e \in Device \ {d} : /\ page'[e] = page[e] /\ reading'[e] = reading[e]
                                 /\ step'[e] = step[e]
  BY <1>0, <1>1 DEF Shapes
<1>7. DOMAIN page'[d].notes \subseteq DOMAIN rest /\ page'[d].deletes = page[d].deletes
      /\ page'[d].revision = page[d].revision
      /\ \A m \in DOMAIN page'[d].notes : page'[d].notes[m] = rest[m]
  BY <1>6
<1>8. Merged(d, n)
  <2>1. n \notin DOMAIN page'[d].notes
    BY <1>5, <1>7
  <2>2. MergeLater(d, n, reading[d].seen, page[d].notes[n]) => UNCHANGED <<local, conflicts>>
    BY DEF MergeLater
  <2> QED
    BY <1>n, <1>1, <1>2, <1>3, <1>4, <2>1, <2>2, MergeCleanEffect, MergeOwnEffect,
       MergeDivergedEffect, MergeLaterEffect
<1>9. Shapes' /\ Others(d)
  BY <1>0, <1>1, <1>6, <1>8 DEF Shapes, Others, SameDevice, editorVars, answerVars, Merged
<1>10. DeviceTypes(d)'
  <2>1. \A m \in Note : Has(d, m)' /\ local'[d][m].status = "synced"
                           => local'[d][m].version = local'[d][m].base
    BY <1>0, <1>8 DEF DeviceTypes, Has, Merged
  <2>2. /\ local'[d] \in [Note -> LocalNote \union {None}]
        /\ conflicts'[d] \subseteq Conflict
    BY <1>8 DEF Merged
  <2>3. /\ NoteMap(page[d].notes, Remote)' /\ page'[d].deletes \subseteq Note
        /\ page'[d].revision \in 0..lastRev
    BY <1>0, <1>5, <1>7 DEF DeviceTypes, NoteMap
  <2> QED
    BY <1>0, <1>1, <1>6, <2>1, <2>2, <2>3 DEF DeviceTypes, serverVars, answerVars, Step
<1>11. Quiet(d)' /\ Phase(d)'
  BY <1>0, <1>1, <1>6 DEF Quiet, Phase, editorVars, answerVars
<1>12. /\ DOMAIN sent'[d] = {} /\ DOMAIN accepted'[d] = {} /\ refused'[d] = {}
  BY <1>0, <1>1 DEF Phase, answerVars
<1>13. NoteInv(d, n)'
  <2>1. SentInv(d, n)' /\ AnswerInv(d, n)' /\ RefusedInv(d, n)'
    BY <1>12 DEF SentInv, AnswerInv, RefusedInv
  <2>2. PageInv(d, n)'
    BY <1>5, <1>7 DEF PageInv
  <2> QED
    BY <1>8, <2>1, <2>2 DEF NoteInv, Merged
<1>14. ASSUME NEW m \in Note, m # n
       PROVE  NoteInv(d, m)'
  <2>1. NoteInv(d, m) /\ local'[d][m] = local[d][m]
    BY <1>0, <1>8, <1>14 DEF Merged
  <2>2. RecordFades(d, m)
    BY <2>1 DEF RecordFades, Has
  <2>3. \A b \in conflicts'[d] : b.note = m => b \in conflicts[d]
    BY <1>8, <1>14 DEF Merged
  <2>4. NoteFades(d, m)
    BY <1>5, <1>7, <1>12, <2>2, <2>3 DEF NoteFades
  <2> QED
    BY <1>0, <1>4, <2>1, <2>4, FadingNote
<1>15. DeviceInv(d)'
  BY <1>10, <1>11, <1>13, <1>14 DEF DeviceInv
<1>16. Keeps(d) /\ Stays(d)
  <2>1. \A m \in Note : Has(d, m) /\ local[d][m].status # "synced" =>
           /\ Has(d, m)' /\ local'[d][m].status # "synced"
           /\ local'[d][m].content = local[d][m].content
    BY <1>8 DEF Has, Merged
  <2> QED
    BY <1>8, <2>1, TextKept DEF Merged
<1> QED
  BY <1>9, <1>15, <1>16 DEF Good

LEMMA CursorGood ==
    ASSUME SyncInv, NEW d \in Device, SaveCursor(d)
    PROVE  Good(d)
<1>0. /\ Shapes /\ Quiet(d) /\ DeviceTypes(d) /\ Phase(d) /\ ServerTypeOK
      /\ \A n \in Note : NoteInv(d, n)
  BY DEF SyncInv, DeviceInv, ServerInv
<1>1. /\ step[d] = "merge"
      /\ cursor' = [cursor EXCEPT ![d] = page[d].revision]
      /\ page' = [page EXCEPT ![d] = NoPage]
      /\ step' = [step EXCEPT ![d] = "idle"]
      /\ UNCHANGED <<serverVars, local, conflicts, editorVars, orphan, sent, answerVars,
                     refused, reading, historyVars>>
  BY DEF SaveCursor, Goto
<1>2. /\ DOMAIN cursor' = Device /\ DOMAIN page' = Device /\ DOMAIN step' = Device
      /\ cursor'[d] = page[d].revision /\ page'[d] = NoPage /\ step'[d] = "idle"
      /\ \A e \in Device \ {d} : /\ cursor'[e] = cursor[e] /\ page'[e] = page[e]
                                 /\ step'[e] = step[e]
  BY <1>0, <1>1 DEF Shapes
<1>3. /\ DOMAIN NoPage.notes = {} /\ NoPage.deletes = {} /\ NoPage.revision = 0
  BY DEF NoPage, Nothing
<1>4. Shapes' /\ Others(d)
  BY <1>0, <1>1, <1>2 DEF Shapes, Others, SameDevice, editorVars, answerVars
<1>5. DeviceTypes(d)'
  BY <1>0, <1>1, <1>2, <1>3 DEF DeviceTypes, NoteMap, Has, serverVars, answerVars, Step,
                                ServerTypeOK
<1>6. Quiet(d)' /\ Phase(d)'
  BY <1>0, <1>1, <1>2, <1>3 DEF Quiet, Phase, editorVars, answerVars
<1>7. Keeps(d) /\ Stays(d) /\ Forward(d)
  BY <1>1, NothingTouched DEF historyVars
<1>8. ASSUME NEW n \in Note
      PROVE  NoteInv(d, n)'
  <2>1. RecordFades(d, n)
    BY <1>1 DEF RecordFades, Has
  <2>2. NoteFades(d, n)
    BY <1>0, <1>1, <1>2, <1>3, <2>1
       DEF NoteFades, SameText, NoteInv, AnswerInv, answerVars
  <2> QED
    BY <1>0, <1>7, <2>2, FadingNote
<1>9. DeviceInv(d)'
  BY <1>5, <1>6, <1>8 DEF DeviceInv
<1> QED
  BY <1>4, <1>7, <1>9 DEF Good

LEMMA AbortGood ==
    ASSUME SyncInv, Closed, NEW d \in Device, Abort(d)
    PROVE  Good(d)
<1>0. /\ Shapes /\ Quiet(d) /\ DeviceTypes(d) /\ Phase(d) /\ ServerTypeOK
      /\ \A n \in Note : NoteInv(d, n)
  BY DEF SyncInv, DeviceInv, ServerInv
<1>1. /\ sent' = [sent EXCEPT ![d] = Nothing]
      /\ leaked' = [leaked EXCEPT ![d] = Nothing]
      /\ accepted' = [accepted EXCEPT ![d] = Nothing]
      /\ refused' = [refused EXCEPT ![d] = {}]
      /\ page' = [page EXCEPT ![d] = NoPage]
      /\ reading' = [reading EXCEPT ![d] = None]
      /\ step' = [step EXCEPT ![d] = "idle"]
      /\ UNCHANGED <<serverVars, local, conflicts, cursor, editorVars, historyVars>>
      /\ UNCHANGED orphan
  BY DEF Abort, Goto, Closed
<1>2. /\ DOMAIN sent' = Device /\ DOMAIN leaked' = Device /\ DOMAIN accepted' = Device
      /\ DOMAIN refused' = Device /\ DOMAIN page' = Device /\ DOMAIN reading' = Device
      /\ DOMAIN step' = Device
      /\ sent'[d] = Nothing /\ leaked'[d] = Nothing /\ accepted'[d] = Nothing
      /\ refused'[d] = {} /\ page'[d] = NoPage /\ reading'[d] = None
      /\ step'[d] = "idle"
      /\ \A e \in Device \ {d} :
            /\ sent'[e] = sent[e] /\ leaked'[e] = leaked[e]
            /\ accepted'[e] = accepted[e] /\ refused'[e] = refused[e]
            /\ page'[e] = page[e] /\ reading'[e] = reading[e] /\ step'[e] = step[e]
  BY <1>0, <1>1 DEF Shapes
<1>3. /\ DOMAIN Nothing = {} /\ DOMAIN NoPage.notes = {} /\ NoPage.deletes = {}
      /\ NoPage.revision = 0
  BY DEF NoPage, Nothing
<1>4. Shapes' /\ Others(d)
  BY <1>0, <1>1, <1>2 DEF Shapes, Others, SameDevice, editorVars
<1>5. DeviceTypes(d)'
  BY <1>0, <1>1, <1>2, <1>3 DEF DeviceTypes, NoteMap, Has, serverVars, Step, ServerTypeOK
<1>6. Quiet(d)' /\ Phase(d)'
  BY <1>0, <1>1, <1>2, <1>3 DEF Quiet, Phase, editorVars
<1>7. Keeps(d) /\ Stays(d) /\ Forward(d)
  BY <1>1, NothingTouched DEF historyVars
<1>8. ASSUME NEW n \in Note
      PROVE  NoteInv(d, n)'
  <2>1. RecordFades(d, n)
    BY <1>1 DEF RecordFades, Has
  <2>2. NoteFades(d, n)
    BY <1>1, <1>2, <1>3, <2>1 DEF NoteFades
  <2> QED
    BY <1>0, <1>7, <2>2, FadingNote
<1>9. DeviceInv(d)'
  BY <1>5, <1>6, <1>8 DEF DeviceInv
<1> QED
  BY <1>4, <1>7, <1>9 DEF Good

(***************************************************************************)
(* The invariant as a whole.                                               *)
(***************************************************************************)
(* What a step of the device d does to the server and to the history. *)
ServerGoes ==
    /\ ServerInv' /\ lastRev' \in Nat /\ lastRev' >= lastRev
    /\ dropped \subseteq dropped' /\ dropped' \subseteq Edit
    /\ \A n \in Note : /\ Text(n) \subseteq Text(n)' \union dropped'
                       /\ HasRow(n)' => Text(n) \subseteq Text(n)' \union dropped

EditsHeld(d) ==
    used' \subseteq Edit /\ \A e \in used' : e \in used \/ Holds(d, e)'

LEMMA Assembled ==
    ASSUME SyncInv, NEW d \in Device, Good(d), ServerGoes, EditsHeld(d),
           \A e \in Device \ {d} : Forward(e)
    PROVE  SyncInv'
<1>1. ServerTypeOK /\ Kept /\ \A e \in Device : DeviceInv(e)
  BY DEF SyncInv, ServerInv
<1>2. \A e \in Device : DeviceInv(e)'
  <2>1. ASSUME NEW e \in Device, e # d
        PROVE  DeviceInv(e)'
    <3>1. DeviceInv(e) /\ Forward(e) /\ SameDevice(e)
      BY <1>1, <2>1 DEF Good, Others
    <3> QED
      BY <1>1, <3>1, OtherDevice DEF ServerGoes
  <2> QED
    BY <2>1 DEF Good
<1>3. Kept'
  <2> SUFFICES ASSUME NEW e \in used'
               PROVE  \/ e \in dropped' \/ OnServer(e)'
                      \/ \E f \in Device : Holds(f, e)'
    BY DEF Kept
  <2>1. CASE e \notin used
    BY <2>1 DEF EditsHeld
  <2>2. CASE e \in dropped
    BY <2>2 DEF ServerGoes
  <2>3. CASE OnServer(e)
    BY <2>3 DEF ServerGoes, OnServer
  <2>4. ASSUME NEW f \in Device, Holds(f, e)
        PROVE  \/ e \in dropped' \/ OnServer(e)'
               \/ \E g \in Device : Holds(g, e)'
    <3>1. CASE f = d
      BY <2>4, <3>1 DEF Good, Keeps, EditsHeld
    <3>2. CASE f # d
      BY <2>4, <3>2 DEF Good, Others, SameDevice, Holds, Has
    <3> QED
      BY <3>1, <3>2
  <2> QED
    BY <1>1, <2>1, <2>2, <2>3, <2>4 DEF Kept
<1> QED
  BY <1>2, <1>3 DEF SyncInv, Good, ServerGoes, EditsHeld

(* A step of a device that leaves the server alone. *)
LEMMA AloneGoes ==
    ASSUME SyncInv, UNCHANGED serverVars, dropped \subseteq dropped',
           dropped' \subseteq Edit
    PROVE  ServerGoes /\ \A e \in Device : Forward(e)
<1>1. ServerInv'
  BY DEF SyncInv, serverVars, ServerInv, ServerTypeOK, LogOrdered, NewestKept,
         RowOrTombstone, LogMatchesStore, IssuedSoFar,
         VersionNamesOneRecord, HasRow, HasTombstone, Version, IsLatest
<1>2. lastRev' \in Nat /\ lastRev' >= lastRev
  BY DEF SyncInv, ServerInv, ServerTypeOK, serverVars
<1>3. \A n : Text(n)' = Text(n)
  BY ServerUnchanged DEF SameServer
<1>4. \A e \in Device : Forward(e)
  BY SameIsForward
<1> QED
  BY <1>1, <1>2, <1>3, <1>4 DEF ServerGoes

LEMMA PushGoes ==
    ASSUME SyncInv, NEW d \in Device, Push(d, Batched(sent[d])), dropped' = dropped
    PROVE  ServerGoes /\ \A e \in Device \ {d} : Forward(e)
<1>1. /\ ServerInv' /\ lastRev' \in Nat /\ lastRev' >= lastRev
      /\ \A n \in Note : PushWrites(d, n) \/ PushLeaves(n)
  BY PushOutcome
<1>2. \A n \in Note : Text(n) \subseteq Text(n)' \union dropped'
  BY <1>1 DEF PushWrites, PushLeaves, Text, HasRow
<1>3. \A e \in Device \ {d} : Forward(e)
  BY PushForward
<1> QED
  BY <1>1, <1>2, <1>3 DEF ServerGoes, SyncInv

(* Retention runs out, or the cleanup purges what a user trashed or deleted. *)
LEMMA RetentionGoes ==
    ASSUME SyncInv, Retention
    PROVE  ServerGoes /\ \A e \in Device : Forward(e) /\ SameDevice(e)
<1>0. /\ ServerInv /\ ServerTypeOK /\ dropped \subseteq Edit
      /\ \A n \in Note : Version(n) \in Nat
  BY VersionType DEF SyncInv, ServerInv
<1>1. \A e \in Device : SameDevice(e)
  BY DEF Retention, SameDevice, editorVars, syncVars
<1>2. CASE (\E n \in Note : Age(n)) /\ UNCHANGED dropped
  <2>1. PICK n \in Note : Age(n)
    BY <1>2
  <2>2. /\ ServerInv'
        /\ \A m \in Note : /\ HasRow(m)' <=> HasRow(m)
                           /\ Version(m)' = Version(m)
    BY <1>0, <2>1, AgeInv
  <2>3. /\ rows' = [rows EXCEPT ![n].aged = TRUE] /\ lastRev' = lastRev
    BY <2>1 DEF Age
  <2>4. ASSUME NEW m \in Note
        PROVE  HasRow(m) => /\ rows'[m].content = rows[m].content
                            /\ rows'[m].device = rows[m].device
    <3>1. HasRow(m) => rows[m] \in Row
      BY <1>0 DEF ServerTypeOK, HasRow
    <3> QED
      BY <1>0, <2>3, <3>1 DEF ServerTypeOK, Row
  <2>5. \A m \in Note : ~HasRow(m) => rows'[m] = rows[m]
    BY <1>0, <2>1, <2>3 DEF ServerTypeOK, Age
  <2>6. \A m \in Note : Text(m)' = Text(m) /\ rows'[m].device = rows[m].device
    BY <2>2, <2>4, <2>5 DEF Text
  <2>7. \A m \in Note, e \in Device : WrittenBy(m, e)' <=> WrittenBy(m, e)
    BY <2>2, <2>6 DEF WrittenBy
  <2>8. lastRev' \in Nat /\ lastRev' >= lastRev
    BY <1>0, <2>3 DEF ServerTypeOK
  <2> QED
    BY <1>0, <1>1, <1>2, <2>2, <2>6, <2>7, <2>8 DEF ServerGoes, Forward
<1>3. CASE /\ CleanupTrash
           /\ dropped' = dropped \union UNION {rows[n].content : n \in Expired}
  <2>1. /\ Expired \in SUBSET Note
        /\ \A n \in Expired : /\ HasRow(n) /\ rows'[n] = None
                              /\ Version(n)' = Version(n) + 1
        /\ \A n \in Note \ Expired : rows'[n] = rows[n] /\ tombs'[n] = tombs[n]
    BY <1>0, <1>3, CleanupEffect
  <2>2. ServerInv'
    BY <1>0, <1>3, CleanupInv
  <2>3. lastRev' \in Nat /\ lastRev' >= lastRev
    <3>1. Cardinality(Expired) \in Nat
      BY <2>1, NoteAssumption, FS_Subset, FS_CardinalityType
    <3> QED
      BY <1>0, <1>3, <3>1 DEF CleanupTrash, ServerTypeOK
  <2>4. dropped \subseteq dropped' /\ dropped' \subseteq Edit
    <3>1. \A n \in Expired : rows[n].content \subseteq Edit
      BY <1>0, <2>1 DEF ServerTypeOK, HasRow, Row
    <3> QED
      BY <1>0, <1>3, <3>1
  <2>5. ASSUME NEW n \in Expired
        PROVE  /\ Text(n) \subseteq dropped' /\ ~HasRow(n)' /\ Version(n)' \in Nat
               /\ Version(n)' > Version(n) /\ \A e : ~WrittenBy(n, e)'
    BY <1>0, <1>3, <2>1 DEF Text, WrittenBy, HasRow
  <2>6. ASSUME NEW n \in Note \ Expired
        PROVE  /\ Version(n)' = Version(n) /\ (HasRow(n)' <=> HasRow(n))
               /\ Text(n)' = Text(n) /\ rows'[n].device = rows[n].device
               /\ \A e : WrittenBy(n, e)' <=> WrittenBy(n, e)
    BY <2>1 DEF Version, HasRow, HasTombstone, Text, WrittenBy
  <2> QED
    BY <1>1, <2>2, <2>3, <2>4, <2>5, <2>6 DEF ServerGoes, Forward
<1> QED
  BY <1>2, <1>3 DEF Retention

(***************************************************************************)
(* Every step keeps the invariant.                                         *)
(***************************************************************************)
(* The content of a record a user or a sync gives up is made of edits. *)
LEMMA GivenUp ==
    ASSUME SyncInv, NEW d \in Device
    PROVE  /\ \A n \in Note : Has(d, n) => local[d][n].content \subseteq Edit
           /\ \A n \in DOMAIN sent[d] : sent[d][n].content \subseteq Edit
           /\ \A c \in conflicts[d] : /\ c.mine.content \subseteq Edit
                                      /\ c.theirs.content \subseteq Edit
<1>1. DeviceTypes(d)
  BY DEF SyncInv, DeviceInv
<1>2. ASSUME NEW n \in Note, Has(d, n)
      PROVE  local[d][n].content \subseteq Edit
  BY <1>1, <1>2 DEF DeviceTypes, Has, LocalNote
<1>3. \A n \in DOMAIN sent[d] : sent[d][n].content \subseteq Edit
  BY <1>1 DEF DeviceTypes, NoteMap, LocalNote
<1>4. \A c \in conflicts[d] : /\ c.mine.content \subseteq Edit
                              /\ c.theirs.content \subseteq Edit
  BY ConflictTypes
<1> QED
  BY <1>2, <1>3, <1>4

(* A step of a user: the server is left alone, and a new edit is in a note
   that waits to be pushed. *)
UserLeaves(d) ==
    /\ UNCHANGED serverVars
    /\ dropped \subseteq dropped' /\ dropped' \subseteq Edit
    /\ EditsHeld(d)

LEMMA PutHolds ==
    ASSUME SyncInv, NEW d \in Device, NEW n \in Note, NEW r \in LocalNote,
           Put(d, n, r), r.status = "pending", NEW e \in Edit, e \in r.content,
           used' = used \union {e}
    PROVE  EditsHeld(d)
<1>1. DOMAIN local = Device /\ DeviceTypes(d) /\ used \subseteq Edit
  BY DEF SyncInv, Shapes, DeviceInv
<1>2. local'[d][n] = r
  BY <1>1, PutEffect
<1>3. r # None
  OBVIOUS
<1>4. Holds(d, e)'
  BY <1>2, <1>3 DEF Holds, Has
<1> QED
  BY <1>1, <1>4 DEF EditsHeld

LEMMA UserStepLeaves ==
    ASSUME SyncInv, Closed, NEW d \in Device, UserStep(d)
    PROVE  UserLeaves(d)
<1>1. /\ DeviceTypes(d) /\ Quiet(d) /\ used \subseteq Edit /\ dropped \subseteq Edit
  BY DEF SyncInv, DeviceInv
<1>2. ASSUME NEW n \in Note, NEW e \in Edit, CreateBlankNote(d, n, e)
      PROVE  UserLeaves(d)
  <2> DEFINE r == [content |-> {e}, life |-> "active", version |-> 1,
                   base |-> 0, status |-> "pending"]
  <2>1. r \in LocalNote /\ e \in r.content /\ r.status = "pending"
    <3>1. {e} \in Content /\ "active" \in Life
      BY LifeAssumption
    <3> QED
      BY <3>1 DEF LocalNote, Status
  <2>2. Put(d, n, r) /\ used' = used \union {e} /\ dropped' = dropped /\ UNCHANGED serverVars
    BY <1>2 DEF CreateBlankNote
  <2> HIDE DEF r
  <2>3. EditsHeld(d)
    BY <2>1, <2>2, PutHolds
  <2> QED
    BY <1>1, <2>2, <2>3 DEF UserLeaves
<1>3. ASSUME NEW n \in Note, NEW e \in Edit, Has(d, n), NEW life \in Life,
             Put(d, n, Edited(local[d][n], local[d][n].content \union {e}, life)),
             used' = used \union {e}
      PROVE  EditsHeld(d)
  <2>1. local[d][n] \in LocalNote
    BY <1>1, <1>3 DEF DeviceTypes, Has
  <2>2. local[d][n].content \union {e} \in Content
    BY <2>1 DEF LocalNote
  <2>3. /\ Edited(local[d][n], local[d][n].content \union {e}, life) \in LocalNote
        /\ Edited(local[d][n], local[d][n].content \union {e}, life).status = "pending"
        /\ Edited(local[d][n], local[d][n].content \union {e}, life).content
              = local[d][n].content \union {e}
    <3>1. PICK r \in LocalNote : r = local[d][n]
      BY <2>1
    <3>2. PICK text \in Content : text = local[d][n].content \union {e}
      BY <2>2
    <3>3. /\ Edited(r, text, life) \in LocalNote /\ Edited(r, text, life).status = "pending"
          /\ Edited(r, text, life).content = text
      BY EditedFacts
    <3> QED
      BY <3>1, <3>2, <3>3
  <2> QED
    BY <1>3, <2>3, PutHolds
<1>4. ASSUME NEW n \in Note, NEW e \in Edit, UpdateNoteContent(d, n, e)
      PROVE  UserLeaves(d)
  <2>1. /\ Has(d, n) /\ used' = used \union {e} /\ dropped' = dropped
        /\ UNCHANGED serverVars
        /\ Put(d, n, Edited(local[d][n], local[d][n].content \union {e},
                            local[d][n].life))
    BY <1>1, <1>4 DEF UpdateNoteContent, TakeText, Quiet
  <2>2. local[d][n].life \in Life
    BY <1>1, <2>1 DEF DeviceTypes, Has, LocalNote
  <2>3. EditsHeld(d)
    BY <1>3, <2>1, <2>2
  <2> QED
    BY <1>1, <2>1, <2>3 DEF UserLeaves
<1>5. ASSUME NEW n \in Note, NEW e \in Edit, NEW from, NEW to,
             ChangeLife(d, n, e, from, to)
      PROVE  UserLeaves(d)
  <2>1. /\ Has(d, n) /\ used' = used \union {e} /\ dropped' = dropped
        /\ UNCHANGED serverVars /\ to \in Life
        /\ Put(d, n, Edited(local[d][n], local[d][n].content \union {e}, to))
    BY <1>5 DEF ChangeLife
  <2>2. EditsHeld(d)
    BY <1>3, <2>1
  <2> QED
    BY <1>1, <2>1, <2>2 DEF UserLeaves
<1>6. ASSUME NEW n \in Note, DeleteLocalOnly(d, n)
      PROVE  UserLeaves(d)
  BY <1>1, <1>6, GivenUp DEF DeleteLocalOnly, UserLeaves, EditsHeld
<1>7. ASSUME NEW c \in conflicts[d], NEW r, NEW gone,
             gone \subseteq c.mine.content \union c.theirs.content,
             Resolved(d, c, r, gone)
      PROVE  UserLeaves(d)
  BY <1>1, <1>7, GivenUp DEF Resolved, UserLeaves, EditsHeld
<1>8. ASSUME ResolveConflict(d)
      PROVE  UserLeaves(d)
  <2>1. PICK c \in conflicts[d] : \/ KeepLocal(d, c) \/ KeepRemote(d, c)
                                  \/ \E copy \in Note : DuplicateBoth(d, c, copy)
    BY <1>8 DEF ResolveConflict
  <2> DEFINE Drops(gone) == gone \subseteq c.mine.content \union c.theirs.content
  <2>2. \E r, gone : Drops(gone) /\ Resolved(d, c, r, gone)
    <3>1. CASE KeepLocal(d, c)
      <4>1. Drops(c.theirs.content \ c.mine.content)
        OBVIOUS
      <4> HIDE DEF Drops
      <4> QED
        BY <3>1, <4>1 DEF KeepLocal
    <3>2. CASE KeepRemote(d, c)
      <4>1. Drops(IF c.theirs.life = "deleted" THEN c.mine.content
                  ELSE c.mine.content \ c.theirs.content)
        OBVIOUS
      <4> HIDE DEF Drops
      <4> QED
        BY <3>2, <4>1 DEF KeepRemote
    <3>3. CASE \E copy \in Note : DuplicateBoth(d, c, copy)
      <4>1. Drops({})
        OBVIOUS
      <4> HIDE DEF Drops
      <4> QED
        BY <3>3, <4>1 DEF DuplicateBoth
    <3> QED
      BY <2>1, <3>1, <3>2, <3>3
  <2> QED
    BY <1>7, <2>2
<1> QED
  BY <1>2, <1>4, <1>5, <1>6, <1>8
     DEF UserStep, MoveNoteToTrash, RestoreNote, DeleteNote

LEMMA UserStepGood ==
    ASSUME SyncInv, Closed, NEW d \in Device, UserStep(d)
    PROVE  Good(d)
BY CreateGood, UpdateGood, ChangeLifeGood, DeleteLocalGood, ResolveGood
   DEF UserStep, MoveNoteToTrash, RestoreNote, DeleteNote

LEMMA SyncStepGood ==
    ASSUME SyncInv, NEW d \in Device, SyncStep(d)
    PROVE  Good(d)
BY ReadPendingGood, RepairGood, HandlePushGood, MarkGood, RefusedGood, PullGood,
   DeletesGood, ReadLocalGood, MergeGood, CursorGood DEF SyncStep

(* A step of a sync makes no edit; all but the push leave the server alone. *)
LEMMA SyncStepServer ==
    ASSUME SyncInv, NEW d \in Device, SyncStep(d) \/ Abort(d)
    PROVE  /\ ServerGoes /\ EditsHeld(d)
           /\ \A e \in Device \ {d} : Forward(e)
<1>1. used \subseteq Edit /\ dropped \subseteq Edit
  BY DEF SyncInv
<1>2. EditsHeld(d)
  BY <1>1 DEF EditsHeld, SyncStep, ReadPending, RepairPending, HandlePush, MarkAccepted,
              HandleRefused, HandlePull, ApplyRemoteDeletes, ReadLocal,
              MergeRemoteNote, SaveCursor, Abort, historyVars
<1>3. CASE HandlePush(d)
  <2>1. Push(d, Batched(sent[d])) /\ dropped' = dropped
    BY <1>3 DEF HandlePush, historyVars
  <2> QED
    BY <1>2, <2>1, PushGoes
<1>4. CASE RepairPending(d)
  <2>1. /\ UNCHANGED serverVars
        /\ dropped' = dropped \union UNION {sent[d][n].content :
              n \in {m \in Unprepared(sent[d]) : LocalOnlyDeleted(sent[d][m])}}
    BY <1>4 DEF RepairPending
  <2>2. dropped \subseteq dropped' /\ dropped' \subseteq Edit
    BY <1>1, <2>1, GivenUp DEF Unprepared
  <2> QED
    BY <1>2, <2>1, <2>2, AloneGoes
<1>5. CASE \/ ReadPending(d) \/ MarkAccepted(d) \/ HandleRefused(d) \/ HandlePull(d)
           \/ ApplyRemoteDeletes(d) \/ ReadLocal(d) \/ MergeRemoteNote(d)
           \/ SaveCursor(d) \/ Abort(d)
  <2>1. UNCHANGED serverVars /\ dropped' = dropped
    BY <1>5 DEF ReadPending, MarkAccepted, HandleRefused, HandlePull,
                ApplyRemoteDeletes, ReadLocal, MergeRemoteNote, SaveCursor, Abort,
                historyVars
  <2> QED
    BY <1>1, <1>2, <2>1, AloneGoes
<1> QED
  BY <1>3, <1>4, <1>5 DEF SyncStep

(* A step of a device, as the theorems need it. *)
LEMMA DeviceStep ==
    ASSUME SyncInv, Closed, NEW d \in Device, UserStep(d) \/ SyncStep(d) \/ Abort(d)
    PROVE  Good(d) /\ ServerGoes /\ SyncInv'
<1>1. Good(d)
  BY UserStepGood, SyncStepGood, AbortGood
<1>2. /\ ServerGoes /\ EditsHeld(d)
      /\ \A e \in Device \ {d} : Forward(e)
  <2>1. CASE UserStep(d)
    BY <2>1, UserStepLeaves, AloneGoes DEF UserLeaves
  <2>2. CASE SyncStep(d) \/ Abort(d)
    BY <2>2, SyncStepServer
  <2> QED
    BY <2>1, <2>2
<1> QED
  BY <1>1, <1>2, Assembled

LEMMA RetentionStep ==
    ASSUME SyncInv, Retention
    PROVE  /\ ServerGoes /\ SyncInv'
           /\ \A d \in Device : SameDevice(d)
<1>1. ServerGoes /\ \A e \in Device : Forward(e) /\ SameDevice(e)
  BY RetentionGoes
<1>2. Shapes' /\ used' = used
  BY DEF SyncInv, Shapes, Retention, editorVars, syncVars
<1>3. \A d \in Device : DeviceInv(d)'
  BY <1>1, OtherDevice DEF SyncInv, ServerInv, ServerGoes
<1>4. \A d \in Device : \A e : Holds(d, e) => Holds(d, e)'
  BY <1>1 DEF SameDevice, Holds, Has
<1>5. Kept'
  BY <1>1, <1>2, <1>4 DEF SyncInv, Kept, ServerGoes, OnServer
<1> QED
  BY <1>1, <1>2, <1>3, <1>5 DEF SyncInv, ServerGoes

LEMMA StutterStep ==
    ASSUME SyncInv, UNCHANGED allVars
    PROVE  /\ ServerGoes /\ SyncInv'
           /\ \A d \in Device : SameDevice(d)
<1>1. ServerGoes /\ \A e \in Device : Forward(e)
  BY AloneGoes DEF allVars, historyVars, SyncInv
<1>2. \A e \in Device : SameDevice(e)
  BY DEF SameDevice, allVars, editorVars, syncVars
<1>3. Shapes' /\ used' = used
  BY DEF SyncInv, Shapes, allVars, editorVars, syncVars, historyVars
<1>4. \A d \in Device : DeviceInv(d)'
  BY <1>1, <1>2, OtherDevice DEF SyncInv, ServerInv, ServerGoes
<1>5. \A d \in Device : \A e : Holds(d, e) => Holds(d, e)'
  BY <1>2 DEF SameDevice, Holds, Has
<1>6. Kept'
  BY <1>1, <1>3, <1>5 DEF SyncInv, Kept, ServerGoes, OnServer
<1> QED
  BY <1>1, <1>2, <1>3, <1>4, <1>6 DEF SyncInv, ServerGoes

LEMMA SyncInvNext == Closed /\ SyncInv /\ [SyncNext]_allVars => SyncInv'
BY DeviceStep, RetentionStep, StutterStep DEF SyncNext

LEMMA SyncInvInit == SyncInit => SyncInv
<1> SUFFICES ASSUME SyncInit PROVE SyncInv
  OBVIOUS
<1>1. ServerInv
  BY ServerInvInit DEF SyncInit
<1>2. /\ DOMAIN Nothing = {} /\ DOMAIN NoPage.notes = {} /\ NoPage.deletes = {}
      /\ NoPage.revision = 0
  BY DEF NoPage, Nothing
<1>3. Shapes
  BY DEF SyncInit, Shapes
<1>4. ASSUME NEW d \in Device
      PROVE  DeviceInv(d)
  <2>1. /\ local[d] = [n \in Note |-> None] /\ conflicts[d] = {} /\ cursor[d] = 0
        /\ editor[d] = None /\ saving[d] = None /\ step[d] = "idle"
        /\ sent[d] = Nothing /\ orphan[d] = Nothing /\ leaked[d] = Nothing
        /\ accepted[d] = Nothing /\ refused[d] = {} /\ page[d] = NoPage
        /\ reading[d] = None /\ lastRev = 0
    BY DEF SyncInit, ServerInit
  <2>2. \A n \in Note : ~Has(d, n)
    BY <2>1 DEF Has
  <2>3. DeviceTypes(d)
    BY <1>2, <2>1, <2>2 DEF DeviceTypes, NoteMap, Step
  <2>4. Quiet(d) /\ Phase(d)
    BY <1>2, <2>1 DEF Quiet, Phase
  <2>5. \A n \in Note : NoteInv(d, n)
    BY <1>2, <2>1, <2>2 DEF NoteInv, LocalInv, SentInv, AnswerInv, ConflictInv,
                            RefusedInv, PageInv
  <2> QED
    BY <2>3, <2>4, <2>5 DEF DeviceInv
<1>5. used = {} /\ dropped = {} /\ Kept
  BY DEF SyncInit, Kept
<1> QED
  BY <1>1, <1>3, <1>4, <1>5 DEF SyncInv

(* The invariant holds in every state of the system. *)
THEOREM SyncInvariant ==
    ASSUME Closed
    PROVE  SyncSpec => []SyncInv
<1>1. SyncInv /\ [SyncNext]_allVars => SyncInv'
  BY SyncInvNext
<1> QED
  BY <1>1, SyncInvInit, PTL DEF SyncSpec

(***************************************************************************)
(* The theorems a reader should know of.                                   *)
(***************************************************************************)
(* A base is a version the server has given out, and whoever names the
   server's current version has seen what it holds: lastSyncedVersion never
   claims more than the device knows, whatever answers were lost, the windows
   of Closed excepted. *)
THEOREM BasesSeen ==
    ASSUME Closed
    PROVE  SyncSpec => []BaseMeansSeen
<1>1. ASSUME SyncInv, NEW d \in Device, NEW n \in Note, Has(d, n)
      PROVE  /\ local[d][n].base <= Version(n)
             /\ (HasRow(n) /\ local[d][n].base = rows[n].version) =>
                   rows[n].content \subseteq local[d][n].content \union dropped
  BY <1>1 DEF SyncInv, DeviceInv, NoteInv, LocalInv, Seen, Text, Version
<1>2. SyncInv => BaseMeansSeen
  BY <1>1 DEF BaseMeansSeen
<1> QED
  BY <1>2, SyncInvariant, PTL

(* Every note of a device, every row and every local side of a conflict is
   among the texts the program keeps. *)
LEMMA TextsHave ==
    /\ \A d \in Device, n \in Note : Has(d, n) => local[d][n].content \in Texts
    /\ \A n \in Note : HasRow(n) => rows[n].content \in Texts
    /\ \A d \in Device : \A c \in conflicts[d] : c.mine.content \in Texts
<1> DEFINE OfDevice(d) == {local[d][n].content : n \in {m \in Note : Has(d, m)}}
           OfDevices == {OfDevice(d) : d \in Device}
           OfServer == {rows[n].content : n \in {m \in Note : HasRow(m)}}
           Sides(c) == {c.mine.content, c.theirs.content}
           Open == UNION {conflicts[d] : d \in Device}
           OfConflicts == {Sides(c) : c \in Open}
<1>1. Texts = (UNION OfDevices) \union OfServer \union (UNION OfConflicts)
  BY DEF Texts
<1>2. \A d, n : n \in Note /\ Has(d, n) => local[d][n].content \in OfDevice(d)
  OBVIOUS
<1>3. \A n \in Note : HasRow(n) => rows[n].content \in OfServer
  OBVIOUS
<1>4. \A c : c.mine.content \in Sides(c)
  OBVIOUS
<1>5. \A d \in Device : \A c \in conflicts[d] : c \in Open
  OBVIOUS
<1> HIDE DEF OfDevice, Sides, Open
<1>6. \A d \in Device : OfDevice(d) \in OfDevices
  OBVIOUS
<1>7. \A c \in Open : Sides(c) \in OfConflicts
  OBVIOUS
<1> HIDE DEF OfDevices, OfServer, OfConflicts
<1>8. /\ \A s \in OfDevices : s \subseteq Texts
      /\ OfServer \subseteq Texts
      /\ \A s \in OfConflicts : s \subseteq Texts
  BY <1>1
<1>9. ASSUME NEW d \in Device, NEW n \in Note, Has(d, n)
      PROVE  local[d][n].content \in Texts
  BY <1>2, <1>6, <1>8, <1>9
<1>10. ASSUME NEW n \in Note, HasRow(n)
       PROVE  rows[n].content \in Texts
  BY <1>3, <1>8, <1>10
<1>11. ASSUME NEW d \in Device, NEW c \in conflicts[d]
       PROVE  c.mine.content \in Texts
  <2>1. c \in Open
    BY <1>5
  <2>2. Sides(c) \subseteq Texts
    BY <1>7, <1>8, <2>1
  <2> QED
    BY <1>4, <2>2
<1> QED
  BY <1>9, <1>10, <1>11

(* No edit a user saved is lost, whatever is synced, refused, answered in
   vain, purged or resolved in between, as long as no edit lands between the
   read and the write of a merge or in a conflict just stored (Closed). *)
THEOREM EditsKept ==
    ASSUME Closed
    PROVE  SyncSpec => []NoEditLost
<1>1. ASSUME SyncInv, NEW e \in used, e \notin dropped
      PROVE  e \in UNION Texts
  <2>1. CASE OnServer(e)
    BY <2>1, TextsHave DEF OnServer, Text
  <2>2. ASSUME NEW d \in Device, Holds(d, e)
        PROVE  e \in UNION Texts
    <3>1. CASE \E n \in Note : Has(d, n) /\ e \in local[d][n].content
      BY <3>1, TextsHave
    <3>2. CASE \E c \in conflicts[d] : e \in c.mine.content
      BY <3>2, TextsHave
    <3> QED
      BY <2>2, <3>1, <3>2 DEF Holds
  <2> QED
    BY <1>1, <2>1, <2>2 DEF SyncInv, Kept
<1>2. SyncInv => NoEditLost
  BY <1>1 DEF NoEditLost
<1> QED
  BY <1>2, SyncInvariant, PTL

(* A user is never asked to choose between two versions of one device: a push
   whose answer was lost is recognised when it is refused or pulled back. *)
THEOREM NoConflictWithOneself ==
    ASSUME Closed
    PROVE  SyncSpec => []NoOwnConflict
<1>1. ASSUME SyncInv, NEW d \in Device, NEW c \in conflicts[d],
             c.reason = "remote_changed"
      PROVE  c.theirs.device # d
  BY <1>1, ConflictTypes DEF SyncInv, DeviceInv, NoteInv, ConflictInv
<1>2. SyncInv => NoOwnConflict
  BY <1>1 DEF NoOwnConflict
<1> QED
  BY <1>2, SyncInvariant, PTL

(* Versions name records, and the log tells what the tables hold, also under
   the pushes the devices really make. *)
THEOREM StoreUnderSync ==
    ASSUME Closed
    PROVE  SyncSpec => [](VersionNamesOneRecord /\ LogMatchesStore)
<1>1. SyncInv => VersionNamesOneRecord /\ LogMatchesStore
  BY DEF SyncInv, ServerInv
<1> QED
  BY <1>1, SyncInvariant, PTL

(* Every step, for the two action properties. *)
LEMMA StepFacts ==
    ASSUME Closed, SyncInv, [SyncNext]_allVars
    PROVE  /\ \A n \in Note : HasRow(n) /\ HasRow(n)' =>
                 rows[n].content \subseteq rows'[n].content \union dropped
           /\ \A d \in Device : Stays(d)
<1>1. ServerGoes
  BY DeviceStep, RetentionStep, StutterStep DEF SyncNext
<1>2. ASSUME NEW n \in Note, HasRow(n), HasRow(n)'
      PROVE  rows[n].content \subseteq rows'[n].content \union dropped
  <2>1. Text(n) \subseteq Text(n)' \union dropped
    BY <1>1, <1>2 DEF ServerGoes
  <2>2. Text(n) = rows[n].content /\ Text(n)' = rows'[n].content
    BY <1>2 DEF Text
  <2> QED
    BY <2>1, <2>2
<1>3. ASSUME NEW d \in Device
      PROVE  Stays(d)
  <2>1. CASE SameDevice(d)
    BY <2>1 DEF SameDevice, Stays, Has
  <2>2. CASE ~SameDevice(d)
    <3>1. PICK e \in Device : UserStep(e) \/ SyncStep(e) \/ Abort(e)
      BY <2>2, RetentionStep, StutterStep DEF SyncNext
    <3>2. Good(e)
      BY <3>1, DeviceStep
    <3> QED
      BY <2>2, <3>2 DEF Good, Others
  <2> QED
    BY <2>1, <2>2
<1> QED
  BY <1>2, <1>3

(* A push that is handled while its client waits for it never overwrites text
   its author had not seen, unless a user gave that text up, with the windows
   of Closed shut.  Requests handled after their client gave up are steps of
   LooseSpec, which only TLC checks (MCNoteSyncLive.cfg). *)
THEOREM ServerTextKept ==
    ASSUME Closed
    PROVE  SyncSpec => NeverSilentlyOverwritten
<1>1. SyncInv /\ [SyncNext]_allVars =>
         [\A n \in Note : HasRow(n) /\ HasRow(n)' =>
             rows[n].content \subseteq rows'[n].content \union dropped]_allVars
  BY StepFacts
<1> QED
  BY <1>1, SyncInvariant, PTL DEF SyncSpec, NeverSilentlyOverwritten

(* Apart from the user's own choice in a conflict, no step takes an edit out
   of a note that waits to be pushed or is in conflict, as long as no edit
   lands between the read and the write of a merge: in the window "merge" one
   does (MergeRace.cfg).  OnlyOvertakenNotesChange below says what holds with
   that window open. *)
THEOREM PendingKept ==
    ASSUME Closed
    PROVE  SyncSpec => PendingEditsStay
<1> DEFINE Step1 == \A d \in Device, n \in Note :
              /\ Has(d, n) /\ local[d][n].status # "synced"
              /\ conflicts[d] \subseteq conflicts'[d]
              => local[d][n].content \subseteq dropped' \union
                    IF Has(d, n)' THEN local'[d][n].content ELSE {}
<1>1. SyncInv /\ [SyncNext]_allVars => [Step1]_allVars
  BY StepFacts DEF Stays
<1> QED
  BY <1>1, SyncInvariant, PTL DEF SyncSpec, PendingEditsStay


(***************************************************************************)
(* What "synced" means.  A clean note is what the server has of it, or     *)
(* the pull that will bring it up to date is still to come or under way:   *)
(* an entry of the log is past the cursor (past the page, once the server  *)
(* has answered), or the note is among those the page has yet to settle.   *)
(***************************************************************************)
SameSide(a, b) == a.content = b.content /\ a.life = b.life

Copy(n, r) == IF HasRow(n) THEN Live(r) = Live(rows[n])
              ELSE r = None \/ r.life = "deleted"

Is(n, t) == HasRow(n) /\ SameSide(t, rows[n])

Pulling == {"pulled", "merge", "put"}
UpTo(d) == IF step[d] \in Pulling THEN page[d].revision ELSE cursor[d]

LoggedAfter(n, up) == \E c \in changes : c.note = n /\ c.rev > up
Ahead(d, n) == LoggedAfter(n, UpTo(d))

Deleting(d, n) == step[d] = "pulled" /\ n \in page[d].deletes

Coming(d, n) == Ahead(d, n) \/ n \in DOMAIN page[d].notes \/ Deleting(d, n)

Free(d, n) == \A c \in conflicts[d] : c.note # n

CleanInv(d, n) == Clean(d, n) => Coming(d, n) \/ Copy(n, local[d][n])

(* What a page and an acceptance say of the server was so when they were
   made, and a change since then is logged beyond them. *)
PulledInv(d, n) ==
    /\ n \in DOMAIN page[d].notes =>
          /\ Ahead(d, n) \/ Is(n, page[d].notes[n])
          /\ page[d].notes[n].version = Version(n) => Copy(n, page[d].notes[n])
    /\ Deleting(d, n) => Ahead(d, n) \/ ~HasRow(n)
    /\ n \in DOMAIN page[d].notes \/ Deleting(d, n) => LoggedAfter(n, cursor[d])

TakenInv(d, n) ==
    n \in DOMAIN accepted[d] =>
        /\ accepted[d][n] >= 1
        /\ Ahead(d, n) \/ Is(n, sent[d][n])

(* The remote side of a conflict is the server's record, while that has the
   version the conflict names. *)
TheirsInv(d, n) ==
    \A c \in conflicts[d] \union refused[d] :
        c.note = n /\ c.theirs.version = Version(n) => Copy(n, c.theirs)

StatusInv(d, n) ==
    Has(d, n) => /\ local[d][n].status = "synced" => local[d][n].base >= 1
                 /\ local[d][n].status = "conflict" => ~Free(d, n)

(* A note without a base is unknown to the server, or the server took it from
   this device and the answer was lost; then it is pushed before it is pulled. *)
InRefused(d, n) == \E c \in refused[d] : c.note = n

Unanswered(d, n) ==
    \/ step[d] = "idle"
    \/ step[d] \in {"repair", "push"} /\ n \in DOMAIN sent[d]
    \/ step[d] = "answered" /\ (n \in DOMAIN accepted[d] \/ InRefused(d, n))
    \/ step[d] = "refused" /\ InRefused(d, n)

BaselessInv(d, n) ==
    Has(d, n) /\ local[d][n].base = 0 /\ Free(d, n) =>
        Version(n) = 0 \/ (Ahead(d, n) /\ Unanswered(d, n))

CopyInv(d, n) ==
    /\ CleanInv(d, n) /\ PulledInv(d, n) /\ TakenInv(d, n) /\ TheirsInv(d, n)
    /\ StatusInv(d, n) /\ BaselessInv(d, n)

(* A cursor is the revision of a logged change, and a pull does not go back. *)
Logged(r) == r = 0 \/ \E c \in changes : c.rev = r

CursorInv(d) ==
    /\ Logged(cursor[d])
    /\ step[d] \in Pulling => /\ Logged(page[d].revision)
                              /\ cursor[d] <= page[d].revision

(* A note the server never saw is on one device only. *)
Claims(d, n) == Has(d, n) \/ n \in DOMAIN sent[d]

OneAuthor ==
    \A n \in Note : Version(n) = 0 =>
        \A d, e \in Device : Claims(d, n) /\ Claims(e, n) => d = e

CopiesInv ==
    /\ \A d \in Device : CursorInv(d) /\ \A n \in Note : CopyInv(d, n)
    /\ OneAuthor

(***************************************************************************)
(* The server goes on, and logs what it does.                              *)
(***************************************************************************)
NoteSame(n) ==
    /\ Version(n)' = Version(n) /\ (HasRow(n)' <=> HasRow(n))
    /\ HasRow(n) => SameSide(rows'[n], rows[n])

NoteMoved(n) ==
    /\ Version(n)' > Version(n)
    /\ \E c \in changes' : c.note = n /\ c.rev > lastRev

ServerMoves ==
    /\ changes \subseteq changes'
    /\ \A n \in Note : NoteSame(n) \/ NoteMoved(n)

LEMMA SameMoves ==
    ASSUME UNCHANGED serverVars
    PROVE  ServerMoves /\ \A n \in Note : NoteSame(n)
BY DEF serverVars, ServerMoves, NoteSame, Version, HasRow, HasTombstone, SameSide

LEMMA PushMoves ==
    ASSUME SyncInv, NEW d \in Device, Push(d, Batched(sent[d]))
    PROVE  /\ ServerMoves
           /\ \A n \in Note \ Written(Batched(sent[d])) : NoteSame(n)
           /\ \A n \in Written(Batched(sent[d])) :
                 NoteMoved(n) /\ HasRow(n)' /\ SameSide(rows'[n], sent[d][n])
<1> DEFINE batch == Batched(sent[d])
<1>1. /\ Request(batch) /\ DOMAIN batch = DOMAIN sent[d]
      /\ \A n \in DOMAIN sent[d] :
           /\ n \in Note
           /\ batch[n].content = sent[d][n].content
           /\ batch[n].life = sent[d][n].life
  BY BatchedFacts
<1> HIDE DEF batch
<1>2. ServerInv /\ Push(d, batch) /\ lastRev \in Nat
  BY DEF SyncInv, ServerInv, ServerTypeOK, batch
<1> DEFINE W == Written(batch)
<1>3. /\ W \in SUBSET Note
      /\ \A n \in W : /\ rows'[n] = NewRow(d, n, batch[n])
                      /\ rows'[n] \in Row /\ rows'[n] # None
                      /\ tombs'[n] = None
                      /\ Version(n)' = Version(n) + 1
      /\ \A n \in Note \ W : rows'[n] = rows[n] /\ tombs'[n] = tombs[n]
  BY <1>1, <1>2, PushEffect
<1>4. W \subseteq DOMAIN batch
  BY DEF Written
<1>5. PICK f \in Numberings(W) : changes' = changes \union Log(f, W, "upsert")
  BY <1>2 DEF Push
<1> HIDE DEF W
<1>6. \A n \in W : f[n] > lastRev
  BY <1>2, <1>3, <1>5, NumberingFacts
<1>7. ASSUME NEW n \in W
      PROVE  NoteMoved(n) /\ HasRow(n)' /\ SameSide(rows'[n], sent[d][n])
  <2>1. [rev |-> f[n], note |-> n, op |-> "upsert"] \in changes'
    BY <1>5 DEF Log
  <2>2. \E c \in changes' : c.note = n /\ c.rev > lastRev
    BY <1>6, <2>1
  <2>3. n \in Note /\ n \in DOMAIN sent[d]
    BY <1>1, <1>3, <1>4
  <2>4. Version(n)' > Version(n)
    <3>1. Version(n) \in Nat
      BY <2>3, VersionType DEF SyncInv, ServerInv
    <3> QED
      BY <1>3, <3>1
  <2>5. SameSide(rows'[n], sent[d][n])
    <3>1. /\ NewRow(d, n, batch[n]).content = batch[n].content
          /\ NewRow(d, n, batch[n]).life = batch[n].life
      BY DEF NewRow
    <3> QED
      BY <1>1, <1>3, <2>3, <3>1 DEF SameSide
  <2> QED
    BY <1>3, <2>2, <2>4, <2>5 DEF NoteMoved, HasRow
<1>8. ASSUME NEW n \in Note \ W
      PROVE  NoteSame(n)
  BY <1>3 DEF NoteSame, Version, HasRow, HasTombstone, SameSide
<1>9. changes \subseteq changes'
  BY <1>5
<1> QED
  BY <1>3, <1>7, <1>8, <1>9 DEF ServerMoves, W, batch

LEMMA RetentionMoves ==
    ASSUME SyncInv, Retention
    PROVE  ServerMoves /\ \A n \in Note : Version(n) = 0 => Version(n)' = 0
<1>0. /\ ServerInv /\ ServerTypeOK /\ lastRev \in Nat
      /\ \A n \in Note : Version(n) \in Nat
  BY VersionType DEF SyncInv, ServerInv, ServerTypeOK
<1>1. CASE \E n \in Note : Age(n)
  <2>1. PICK n \in Note : Age(n)
    BY <1>1
  <2>2. \A m \in Note : /\ HasRow(m)' <=> HasRow(m)
                        /\ Version(m)' = Version(m)
    BY <1>0, <2>1, AgeInv
  <2>3. rows' = [rows EXCEPT ![n].aged = TRUE] /\ changes' = changes
    BY <2>1 DEF Age
  <2>4. ASSUME NEW m \in Note, HasRow(m)
        PROVE  SameSide(rows'[m], rows[m])
    <3>1. rows[m] \in Row
      BY <1>0, <2>4 DEF ServerTypeOK, HasRow
    <3> QED
      BY <1>0, <2>3, <3>1 DEF Row, ServerTypeOK, SameSide
  <2> QED
    BY <2>2, <2>3, <2>4 DEF ServerMoves, NoteSame
<1>2. CASE CleanupTrash
  <2>1. /\ Expired \in SUBSET Note
        /\ \A n \in Expired : HasRow(n) /\ Version(n)' = Version(n) + 1
        /\ \A n \in Note \ Expired : rows'[n] = rows[n] /\ tombs'[n] = tombs[n]
    BY <1>0, <1>2, CleanupEffect
  <2>2. PICK f \in Numberings(Expired) : changes' = changes \union Log(f, Expired, "delete")
    BY <1>2 DEF CleanupTrash
  <2>3. \A n \in Expired : f[n] > lastRev
    BY <1>0, <2>1, <2>2, NumberingFacts
  <2>4. ASSUME NEW n \in Expired
        PROVE  NoteMoved(n)
    <3>1. [rev |-> f[n], note |-> n, op |-> "delete"] \in changes'
      BY <2>2 DEF Log
    <3>2. \E c \in changes' : c.note = n /\ c.rev > lastRev
      BY <2>3, <3>1
    <3>3. Version(n)' > Version(n)
      BY <1>0, <2>1
    <3> QED
      BY <3>2, <3>3 DEF NoteMoved
  <2>5. ASSUME NEW n \in Note \ Expired
        PROVE  NoteSame(n)
    BY <2>1 DEF NoteSame, Version, HasRow, HasTombstone, SameSide
  <2>6. \A n \in Expired : Version(n) # 0
    BY <1>0, <2>1 DEF Version, HasRow, ServerTypeOK, Row
  <2>7. changes \subseteq changes'
    BY <2>2
  <2> QED
    BY <2>1, <2>4, <2>5, <2>6, <2>7 DEF ServerMoves, NoteSame
<1> QED
  BY <1>1, <1>2 DEF Retention

(***************************************************************************)
(* What lasts while the server goes on.                                    *)
(***************************************************************************)
LEMMA CursorTypes ==
    ASSUME SyncInv, NEW d \in Device
    PROVE  /\ cursor[d] \in Nat /\ page[d].revision \in Nat /\ UpTo(d) \in Nat
           /\ lastRev \in Nat
           /\ cursor[d] <= lastRev /\ page[d].revision <= lastRev
           /\ UpTo(d) <= lastRev
           /\ changes \subseteq LogEntry
           /\ \A c \in changes : c.rev \in Nat /\ c.rev <= lastRev
<1>1. lastRev \in Nat /\ changes \subseteq LogEntry /\ LogOrdered
  BY DEF SyncInv, ServerInv, ServerTypeOK
<1>2. cursor[d] \in 0..lastRev /\ page[d].revision \in 0..lastRev
  BY DEF SyncInv, DeviceInv, DeviceTypes
<1> QED
  BY <1>1, <1>2 DEF UpTo, LogEntry, LogOrdered

LEMMA LaterTypes ==
    ASSUME SyncInv', NEW d \in Device
    PROVE  /\ UpTo(d)' \in Nat /\ lastRev' \in Nat
           /\ \A c \in changes' : c.rev \in Nat
<1>1. lastRev' \in Nat /\ changes' \subseteq LogEntry
  BY DEF SyncInv, ServerInv, ServerTypeOK
<1>2. cursor'[d] \in 0..lastRev' /\ page'[d].revision \in 0..lastRev'
  BY DEF SyncInv, DeviceInv, DeviceTypes
<1> QED
  BY <1>1, <1>2 DEF UpTo, LogEntry

LEMMA LoggedStays ==
    ASSUME ServerMoves, \A c \in changes' : c.rev \in Nat, NEW n,
           NEW u \in Nat, NEW v \in Nat, v <= u, LoggedAfter(n, u)
    PROVE  LoggedAfter(n, v)'
<1>1. PICK c \in changes : c.note = n /\ c.rev > u
  BY DEF LoggedAfter
<1>2. c \in changes' /\ c.rev \in Nat
  BY <1>1 DEF ServerMoves
<1>3. c.rev > v
  BY <1>1, <1>2
<1> QED
  BY <1>1, <1>2, <1>3 DEF LoggedAfter

LEMMA MovedIsLogged ==
    ASSUME \A c \in changes' : c.rev \in Nat, NEW n, NoteMoved(n),
           NEW u \in Nat, lastRev \in Nat, u <= lastRev
    PROVE  LoggedAfter(n, u)'
<1>1. PICK c \in changes' : c.note = n /\ c.rev > lastRev
  BY DEF NoteMoved
<1>2. c.rev \in Nat /\ c.rev > u
  BY <1>1
<1> QED
  BY <1>1, <1>2 DEF LoggedAfter

(* A copy stays one, a record and an absence stay true, unless the note moved. *)
LEMMA CopyStays ==
    ASSUME NEW n, NoteSame(n), NEW r
    PROVE  /\ Copy(n, r) => Copy(n, r)'
           /\ Is(n, r) => Is(n, r)'
<1>1. HasRow(n) => (Live(rows[n]) = Live(rows[n])' /\ rows[n] # None /\ rows'[n] # None)
  BY DEF NoteSame, Live, SameSide, Side, HasRow
<1> QED
  BY <1>1 DEF NoteSame, Copy, Is, SameSide

LEMMA IsCopy ==
    ASSUME NEW n, NEW t, Is(n, t), t # None
    PROVE  Copy(n, t)
BY DEF Is, HasRow, SameSide, Live, Side, Copy

(* Taking a remote record over makes a copy of it. *)
LEMMA SyncedCopy ==
    ASSUME NEW n, NEW t \in Remote
    PROVE  Copy(n, t) => Copy(n, Synced(t))
<1>1. t.content \in Content /\ t.life \in Life /\ t.version \in Nat
  BY DEF Remote
<1>2. Synced(t) \in LocalNote
  BY <1>1, SyncedFacts
<1>3. Synced(t) # None /\ t # None
  BY <1>2, LocalAssumption
<1>4. Synced(t).content = t.content /\ Synced(t).life = t.life
  BY DEF Synced
<1> QED
  BY <1>3, <1>4 DEF Copy, Live, Side

(***************************************************************************)
(* A note the step leaves alone.                                           *)
(***************************************************************************)
SyncStill(d, n) ==
    /\ UpTo(d)' <= UpTo(d)
    /\ \A c \in conflicts'[d] \union refused'[d] : c.note = n =>
          \E b \in conflicts[d] \union refused[d] : b.note = n /\ b.theirs = c.theirs
    /\ n \in DOMAIN page'[d].notes =>
          n \in DOMAIN page[d].notes /\ page'[d].notes[n] = page[d].notes[n]
    /\ Deleting(d, n)' => Deleting(d, n)
    /\ n \in DOMAIN page'[d].notes \/ Deleting(d, n)' => cursor'[d] = cursor[d]
    /\ n \in DOMAIN accepted'[d] =>
          /\ n \in DOMAIN accepted[d] /\ accepted'[d][n] = accepted[d][n]
          /\ SameSide(sent'[d][n], sent[d][n])

LocalStill(d, n) == local'[d][n] = local[d][n] /\ (Free(d, n)' <=> Free(d, n))

(* Whatever is asked of the log stays so. *)
LEMMA AheadStays ==
    ASSUME SyncInv, SyncInv', ServerMoves, NEW d \in Device, NEW n \in Note,
           UpTo(d)' <= UpTo(d)
    PROVE  /\ Ahead(d, n) => Ahead(d, n)'
           /\ NoteMoved(n) => Ahead(d, n)'
           /\ LoggedAfter(n, cursor[d]) /\ cursor'[d] = cursor[d]
                 => LoggedAfter(n, cursor[d])'
<1>1. /\ UpTo(d) \in Nat /\ cursor[d] \in Nat /\ lastRev \in Nat /\ UpTo(d) <= lastRev
  BY CursorTypes
<1>2. UpTo(d)' \in Nat /\ \A c \in changes' : c.rev \in Nat
  BY LaterTypes
<1>3. PICK u \in Nat, v \in Nat, w \in Nat :
         u = UpTo(d) /\ v = UpTo(d)' /\ w = cursor[d]
  BY <1>1, <1>2
<1>4. Ahead(d, n) = LoggedAfter(n, u) /\ Ahead(d, n)' = LoggedAfter(n, v)'
  BY <1>3 DEF Ahead, LoggedAfter
<1>5. v <= u /\ v <= lastRev
  BY <1>1, <1>3
<1>6. ASSUME Ahead(d, n) PROVE Ahead(d, n)'
  BY <1>2, <1>4, <1>5, <1>6, LoggedStays
<1>7. ASSUME NoteMoved(n) PROVE Ahead(d, n)'
  BY <1>1, <1>2, <1>4, <1>5, <1>7, MovedIsLogged
<1>8. ASSUME LoggedAfter(n, w), cursor'[d] = cursor[d]
      PROVE  LoggedAfter(n, cursor[d])'
  <2>1. LoggedAfter(n, w)'
    BY <1>2, <1>8, LoggedStays
  <2> QED
    BY <1>3, <1>8, <2>1 DEF LoggedAfter
<1> QED
  BY <1>3, <1>6, <1>7, <1>8

(* The version a record of the server names is still the server's only if the
   note did not move. *)
LEMMA NamedStays ==
    ASSUME SyncInv, SyncInv', ServerMoves, NEW n \in Note, NEW t \in Remote,
           Known(n, t), t.version = Version(n) => Copy(n, t),
           t.version = Version(n)'
    PROVE  Copy(n, t)'
<1>1. /\ t.version \in Nat /\ t.version <= Version(n)
      /\ Version(n) \in Nat /\ Version(n)' \in Nat
  BY VersionType DEF SyncInv, ServerInv, Known, Seen, Remote
<1>2. ~NoteMoved(n)
  BY <1>1 DEF NoteMoved
<1>3. NoteSame(n) /\ Copy(n, t)
  BY <1>2 DEF ServerMoves, NoteSame
<1> QED
  BY <1>3, CopyStays

LEMMA TheirsStay ==
    ASSUME SyncInv, SyncInv', ServerMoves, NEW d \in Device, NEW n \in Note,
           TheirsInv(d, n), NEW c \in conflicts[d] \union refused[d], c.note = n,
           c.theirs.version = Version(n)'
    PROVE  Copy(n, c.theirs)'
<1>1. DeviceTypes(d) /\ NoteInv(d, n)
  BY DEF SyncInv, DeviceInv
<1>2. c.theirs \in Remote /\ Known(n, c.theirs)
  BY <1>1 DEF NoteInv, ConflictInv, RefusedInv, DeviceTypes, Conflict
<1>3. c.theirs.version = Version(n) => Copy(n, c.theirs)
  BY DEF TheirsInv
<1> QED
  BY <1>2, <1>3, NamedStays

LEMMA StillPulled ==
    ASSUME SyncInv, SyncInv', ServerMoves, NEW d \in Device, NEW n \in Note,
           SyncStill(d, n), CopyInv(d, n)
    PROVE  PulledInv(d, n)' /\ TakenInv(d, n)' /\ TheirsInv(d, n)'
<1>1. /\ Ahead(d, n) => Ahead(d, n)'
      /\ NoteMoved(n) => Ahead(d, n)'
      /\ LoggedAfter(n, cursor[d]) /\ cursor'[d] = cursor[d]
            => LoggedAfter(n, cursor[d])'
  BY AheadStays DEF SyncStill
<1>2. NoteSame(n) \/ NoteMoved(n)
  BY DEF ServerMoves
<1>3. PulledInv(d, n)'
  <2>1. ASSUME n \in DOMAIN page'[d].notes, page'[d].notes[n].version = Version(n)'
        PROVE  Copy(n, page[d].notes[n])'
    <3>1. PICK t : t = page[d].notes[n]
      OBVIOUS
    <3>2. t = page'[d].notes[n] /\ n \in DOMAIN page[d].notes
      BY <2>1, <3>1 DEF SyncStill
    <3>3. t \in Remote /\ Known(n, t)
      <4>1. DeviceTypes(d) /\ NoteInv(d, n)
        BY DEF SyncInv, DeviceInv
      <4> QED
        BY <3>1, <3>2, <4>1 DEF DeviceTypes, NoteMap, NoteInv, PageInv
    <3>4. Copy(n, t)'
      BY <2>1, <3>1, <3>2, <3>3, NamedStays DEF CopyInv, PulledInv
    <3> QED
      BY <3>2, <3>4 DEF Copy
  <2>2. ASSUME n \in DOMAIN page'[d].notes
        PROVE  Ahead(d, n)' \/ Is(n, page[d].notes[n])'
    BY <1>1, <1>2, <2>2 DEF SyncStill, CopyInv, PulledInv, Is, NoteSame, SameSide
  <2>3. Deleting(d, n)' => Ahead(d, n)' \/ ~HasRow(n)'
    BY <1>1, <1>2 DEF SyncStill, CopyInv, PulledInv, NoteSame
  <2>4. n \in DOMAIN page'[d].notes \/ Deleting(d, n)' => LoggedAfter(n, cursor[d])'
    BY <1>1 DEF SyncStill, CopyInv, PulledInv
  <2> QED
    BY <2>1, <2>2, <2>3, <2>4 DEF PulledInv
<1>4. TakenInv(d, n)'
  BY <1>1, <1>2 DEF SyncStill, CopyInv, TakenInv, Is, NoteSame, SameSide
<1>5. ASSUME NEW c \in conflicts'[d] \union refused'[d],
             c.note = n, c.theirs.version = Version(n)'
      PROVE  Copy(n, c.theirs)'
  <2>1. PICK b \in conflicts[d] \union refused[d] : b.note = n /\ b.theirs = c.theirs
    BY <1>5 DEF SyncStill
  <2>2. Copy(n, b.theirs)'
    BY <1>5, <2>1, TheirsStay DEF CopyInv
  <2> QED
    BY <2>1, <2>2
<1>6. TheirsInv(d, n)'
  BY <1>5 DEF TheirsInv
<1> QED
  BY <1>3, <1>4, <1>6

LEMMA StillClean ==
    ASSUME SyncInv, SyncInv', ServerMoves, NEW d \in Device, NEW n \in Note,
           UpTo(d)' <= UpTo(d), Coming(d, n) => Coming(d, n)',
           LocalStill(d, n), CopyInv(d, n)
    PROVE  CleanInv(d, n)' /\ StatusInv(d, n)'
<1>1. NoteMoved(n) => Coming(d, n)'
  BY AheadStays DEF Coming
<1>2. NoteSame(n) \/ NoteMoved(n)
  BY DEF ServerMoves
<1>3. StatusInv(d, n)'
  BY DEF LocalStill, CopyInv, StatusInv, Has
<1>4. Clean(d, n)' => Clean(d, n)
  BY DEF LocalStill, Clean, Free, Has
<1>5. \A r : NoteSame(n) /\ Copy(n, r) => Copy(n, r)'
  BY CopyStays
<1>6. NoteSame(n) /\ Copy(n, local[d][n]) => Copy(n, local[d][n])'
  <2>1. PICK r : r = local[d][n]
    OBVIOUS
  <2>2. r = local'[d][n]
    BY <2>1 DEF LocalStill
  <2> QED
    BY <1>5, <2>1, <2>2 DEF Copy
<1>7. CleanInv(d, n)'
  BY <1>1, <1>2, <1>4, <1>6 DEF CleanInv, CopyInv
<1> QED
  BY <1>3, <1>7

LEMMA StillBaseless ==
    ASSUME SyncInv, SyncInv', ServerMoves, NEW d \in Device, NEW n \in Note,
           UpTo(d)' <= UpTo(d), CopyInv(d, n),
           Has(d, n)' /\ local'[d][n].base = 0 /\ Free(d, n)' =>
              Has(d, n) /\ local[d][n].base = 0 /\ Free(d, n),
           Has(d, n) /\ Version(n) = 0 => Version(n)' = 0,
           Has(d, n) /\ local[d][n].base = 0 /\ Free(d, n) /\ Unanswered(d, n)
              => Unanswered(d, n)'
    PROVE  BaselessInv(d, n)'
<1>1. Ahead(d, n) => Ahead(d, n)'
  BY AheadStays
<1> QED
  BY <1>1 DEF BaselessInv, CopyInv

(* All of it: a note whose record is left alone, with nothing new about it. *)
LEMMA StillCopy ==
    ASSUME SyncInv, SyncInv', ServerMoves, NEW d \in Device, NEW n \in Note,
           SyncStill(d, n), Coming(d, n) => Coming(d, n)', LocalStill(d, n),
           CopyInv(d, n), Has(d, n) /\ Version(n) = 0 => Version(n)' = 0,
           Has(d, n) /\ local[d][n].base = 0 /\ Free(d, n) /\ Unanswered(d, n)
              => Unanswered(d, n)'
    PROVE  CopyInv(d, n)'
<1>1. PulledInv(d, n)' /\ TakenInv(d, n)' /\ TheirsInv(d, n)'
  BY StillPulled
<1>2. CleanInv(d, n)' /\ StatusInv(d, n)'
  BY StillClean DEF SyncStill
<1>3. BaselessInv(d, n)'
  BY StillBaseless DEF SyncStill, LocalStill, Has
<1> QED
  BY <1>1, <1>2, <1>3 DEF CopyInv

(***************************************************************************)
(* The cursor, and who has a note the server never saw.                    *)
(***************************************************************************)
LEMMA LoggedKept ==
    ASSUME ServerMoves, NEW r
    PROVE  Logged(r) => Logged(r)'
BY DEF ServerMoves, Logged

LEMMA StillCursor ==
    ASSUME ServerMoves, NEW d \in Device, CursorInv(d), cursor'[d] = cursor[d],
           step'[d] \in Pulling =>
              step[d] \in Pulling /\ page'[d].revision = page[d].revision
    PROVE  CursorInv(d)'
<1>1. \A r : Logged(r) => Logged(r)'
  BY LoggedKept
<1>2. PICK r, q : r = cursor[d] /\ q = page[d].revision
  OBVIOUS
<1>3. Logged(r)' /\ (step[d] \in Pulling => Logged(q)' /\ r <= q)
  BY <1>1, <1>2 DEF CursorInv
<1>4. r = cursor'[d] /\ (step'[d] \in Pulling => q = page'[d].revision)
  BY <1>2
<1> QED
  BY <1>3, <1>4 DEF CursorInv, Logged

Authors(d) ==
    \A n \in Note : Version(n)' = 0 /\ Claims(d, n)' => Claims(d, n) \/ Fresh(n)

CopyGood(d) == CursorInv(d)' /\ Authors(d) /\ \A n \in Note : CopyInv(d, n)'

(* A device nobody does anything at. *)
LEMMA OtherCopies ==
    ASSUME SyncInv, SyncInv', ServerMoves, NEW d \in Device, SameDevice(d),
           CursorInv(d), \A n \in Note : CopyInv(d, n),
           \A n \in Note : Has(d, n) /\ Version(n) = 0 => Version(n)' = 0
    PROVE  CopyGood(d)
<1>1. CursorInv(d)'
  BY StillCursor DEF SameDevice
<1>2. Authors(d)
  BY DEF Authors, Claims, SameDevice, Has
<1>3. UpTo(d)' = UpTo(d) /\ UpTo(d) \in Nat
  BY CursorTypes DEF UpTo, SameDevice
<1>4. ASSUME NEW n \in Note
      PROVE  CopyInv(d, n)'
  <2>1. SyncStill(d, n)
    BY <1>3 DEF SyncStill, SameDevice, Deleting, SameSide
  <2>2. LocalStill(d, n)
    BY DEF LocalStill, SameDevice, Free
  <2>3. Unanswered(d, n)' <=> Unanswered(d, n)
    BY DEF Unanswered, SameDevice, InRefused
  <2>4. Coming(d, n) => Coming(d, n)'
    <3>1. Ahead(d, n) => Ahead(d, n)'
      BY <1>3, AheadStays
    <3> QED
      BY <3>1 DEF Coming, Deleting, SameDevice
  <2> QED
    BY <2>1, <2>2, <2>3, <2>4, StillCopy
<1> QED
  BY <1>1, <1>2, <1>4 DEF CopyGood

(***************************************************************************)
(* The user.                                                               *)
(***************************************************************************)
LEMMA InvParts ==
    ASSUME SyncInv, NEW d \in Device
    PROVE  /\ Shapes /\ Quiet(d) /\ DeviceTypes(d) /\ Phase(d) /\ ServerTypeOK
           /\ \A n \in Note : NoteInv(d, n) /\ Version(n) \in Nat
BY VersionType DEF SyncInv, DeviceInv, ServerInv

LEMMA CopyParts ==
    ASSUME CopiesInv, NEW d \in Device
    PROVE  CursorInv(d) /\ \A n \in Note : CopyInv(d, n)
BY DEF CopiesInv

(* What a user's step leaves of the sync. *)
LEMMA UserBeside ==
    ASSUME SyncInv, SyncInv', CopiesInv, NEW d \in Device,
           UNCHANGED <<serverVars, cursor, syncVars>>,
           conflicts'[d] \subseteq conflicts[d]
    PROVE  /\ CursorInv(d)'
           /\ \A n \in Note :
                 /\ PulledInv(d, n)' /\ TakenInv(d, n)' /\ TheirsInv(d, n)'
                 /\ Version(n)' = Version(n) /\ (HasRow(n)' <=> HasRow(n))
                 /\ (Ahead(d, n)' <=> Ahead(d, n))
                 /\ (Unanswered(d, n)' <=> Unanswered(d, n))
                 /\ (Coming(d, n)' <=> Coming(d, n))
           /\ \A n \in Note : LocalStill(d, n) => CopyInv(d, n)'
<1>0. ServerMoves /\ CursorInv(d) /\ \A n \in Note : NoteSame(n) /\ CopyInv(d, n)
  BY SameMoves, CopyParts
<1>1. CursorInv(d)'
  BY <1>0, StillCursor DEF syncVars
<1>2. UpTo(d)' = UpTo(d) /\ UpTo(d) \in Nat
  BY CursorTypes DEF UpTo, syncVars
<1>3. UpTo(d)' <= UpTo(d)
  BY <1>2
<1>4. ASSUME NEW n \in Note
      PROVE  /\ SyncStill(d, n)
             /\ PulledInv(d, n)' /\ TakenInv(d, n)' /\ TheirsInv(d, n)'
             /\ Version(n)' = Version(n) /\ (HasRow(n)' <=> HasRow(n))
             /\ (Ahead(d, n)' <=> Ahead(d, n))
             /\ (Unanswered(d, n)' <=> Unanswered(d, n))
             /\ (Coming(d, n)' <=> Coming(d, n))
  <2>1. SyncStill(d, n)
    BY <1>3 DEF SyncStill, syncVars, Deleting, SameSide
  <2>2. Ahead(d, n)' <=> Ahead(d, n)
    BY <1>2 DEF Ahead, LoggedAfter, serverVars
  <2>3. Unanswered(d, n)' <=> Unanswered(d, n)
    BY DEF Unanswered, InRefused, syncVars
  <2>4. Coming(d, n)' <=> Coming(d, n)
    BY <2>2 DEF Coming, Deleting, syncVars
  <2> QED
    BY <1>0, <2>1, <2>2, <2>3, <2>4, StillPulled DEF NoteSame
<1>5. ASSUME NEW n \in Note, LocalStill(d, n)
      PROVE  CopyInv(d, n)'
  BY <1>0, <1>4, <1>5, StillCopy
<1> QED
  BY <1>1, <1>4, <1>5

(* A record the user changes waits to be pushed, on the base it had, or is
   the first of its note. *)
LEMMA UserPutCopies ==
    ASSUME SyncInv, SyncInv', CopiesInv, NEW d \in Device, NEW n \in Note,
           NEW r, Put(d, n, r), r # None, r.status = "pending",
           \/ Has(d, n) /\ r.base = local[d][n].base /\ Free(d, n)
           \/ Fresh(n) /\ r.base = 0,
           UNCHANGED <<serverVars, conflicts, cursor, syncVars>>
    PROVE  CopyGood(d)
<1>0. /\ Shapes /\ DeviceTypes(d) /\ CopyInv(d, n)
  BY InvParts, CopyParts
<1>1. /\ local'[d][n] = r
      /\ \A m \in Note \ {n} : local'[d][m] = local[d][m]
  BY <1>0, PutEffect DEF Shapes
<1>2. /\ CursorInv(d)'
      /\ \A m \in Note :
            /\ PulledInv(d, m)' /\ TakenInv(d, m)' /\ TheirsInv(d, m)'
            /\ Version(m)' = Version(m) /\ (HasRow(m)' <=> HasRow(m))
            /\ (Ahead(d, m)' <=> Ahead(d, m))
            /\ (Unanswered(d, m)' <=> Unanswered(d, m))
      /\ \A m \in Note : LocalStill(d, m) => CopyInv(d, m)'
  BY UserBeside
<1>3. \A m \in Note : Free(d, m)' <=> Free(d, m)
  BY DEF Free
<1>4. ASSUME NEW m \in Note, m # n
      PROVE  CopyInv(d, m)'
  BY <1>1, <1>2, <1>3, <1>4 DEF LocalStill
<1>5. CopyInv(d, n)'
  <2>1. CleanInv(d, n)' /\ StatusInv(d, n)'
    BY <1>1 DEF CleanInv, Clean, StatusInv, Has
  <2>2. BaselessInv(d, n)'
    BY <1>0, <1>1, <1>2, <1>3 DEF BaselessInv, CopyInv, Has, Fresh
  <2> QED
    BY <1>2, <2>1, <2>2 DEF CopyInv
<1>6. Authors(d)
  BY <1>1 DEF Authors, Claims, Has, syncVars
<1> QED
  BY <1>2, <1>4, <1>5, <1>6 DEF CopyGood

LEMMA CreateCopies ==
    ASSUME SyncInv, SyncInv', CopiesInv, NEW d \in Device, NEW n \in Note,
           NEW e \in Edit, CreateBlankNote(d, n, e)
    PROVE  CopyGood(d)
<1> DEFINE r == [content |-> {e}, life |-> "active", version |-> 1,
                 base |-> 0, status |-> "pending"]
<1>1. /\ Fresh(n) /\ Put(d, n, r)
      /\ UNCHANGED <<serverVars, conflicts, cursor, syncVars>>
  BY DEF CreateBlankNote
<1>2. r \in LocalNote
  <2>1. {e} \in Content /\ "active" \in Life
    BY LifeAssumption
  <2> QED
    BY <2>1 DEF LocalNote, Status
<1>3. r # None /\ r.status = "pending" /\ r.base = 0
  BY <1>2
<1> HIDE DEF r
<1> QED
  BY <1>1, <1>3, UserPutCopies

LEMMA GrowCopies ==
    ASSUME SyncInv, SyncInv', CopiesInv, Closed, NEW d \in Device, NEW n \in Note,
           MayEdit(d, n), Has(d, n), NEW text \in Content, NEW life \in Life,
           Put(d, n, Edited(local[d][n], text, life)),
           UNCHANGED <<serverVars, conflicts, cursor, syncVars>>
    PROVE  CopyGood(d)
<1>1. local[d][n] \in LocalNote
  BY InvParts DEF DeviceTypes, Has
<1>2. PICK r : r = Edited(local[d][n], text, life)
  OBVIOUS
<1>3. r \in LocalNote /\ r.status = "pending" /\ r.base = local[d][n].base
  BY <1>1, <1>2, EditedFacts
<1>4. Free(d, n)
  BY MayEditFacts DEF Free
<1> QED
  BY <1>2, <1>3, <1>4, UserPutCopies

LEMMA UpdateCopies ==
    ASSUME SyncInv, SyncInv', CopiesInv, Closed, NEW d \in Device, NEW n \in Note,
           NEW e \in Edit, UpdateNoteContent(d, n, e)
    PROVE  CopyGood(d)
<1>1. Quiet(d) /\ DeviceTypes(d)
  BY InvParts
<1>2. Has(d, n) /\ local[d][n] \in LocalNote /\ MayEdit(d, n)
  BY <1>1 DEF UpdateNoteContent, DeviceTypes, Has
<1>3. local[d][n].content \union {e} \in Content /\ local[d][n].life \in Life
  BY <1>2 DEF LocalNote
<1>4. Put(d, n, Edited(local[d][n], local[d][n].content \union {e}, local[d][n].life))
  BY <1>1 DEF UpdateNoteContent, TakeText, Quiet
<1>5. UNCHANGED <<serverVars, conflicts, cursor, syncVars>>
  BY DEF UpdateNoteContent, TakeText
<1> QED
  BY <1>2, <1>3, <1>4, <1>5, GrowCopies

LEMMA ChangeLifeCopies ==
    ASSUME SyncInv, SyncInv', CopiesInv, Closed, NEW d \in Device, NEW n \in Note,
           NEW e \in Edit, NEW from, NEW to, ChangeLife(d, n, e, from, to)
    PROVE  CopyGood(d)
<1>1. DeviceTypes(d)
  BY InvParts
<1>2. Has(d, n) /\ local[d][n] \in LocalNote /\ MayEdit(d, n) /\ to \in Life
  BY <1>1 DEF ChangeLife, DeviceTypes, Has
<1>3. local[d][n].content \union {e} \in Content
  BY <1>2 DEF LocalNote
<1>4. /\ Put(d, n, Edited(local[d][n], local[d][n].content \union {e}, to))
      /\ UNCHANGED <<serverVars, conflicts, cursor, syncVars>>
  BY DEF ChangeLife
<1> QED
  BY <1>2, <1>3, <1>4, GrowCopies

(* A note without a base goes: the server has nothing of it, or what it has
   will be pulled. *)
LEMMA DeleteLocalCopies ==
    ASSUME SyncInv, SyncInv', CopiesInv, Closed, NEW d \in Device, NEW n \in Note,
           DeleteLocalOnly(d, n)
    PROVE  CopyGood(d)
<1>0. Shapes /\ DeviceTypes(d) /\ CopyInv(d, n) /\ ServerTypeOK
  BY InvParts, CopyParts
<1>1. /\ MayEdit(d, n) /\ Has(d, n) /\ Put(d, n, None) /\ local[d][n].base = 0
      /\ UNCHANGED <<serverVars, conflicts, cursor, syncVars>>
  BY DEF DeleteLocalOnly
<1>2. /\ local'[d][n] = None
      /\ \A m \in Note \ {n} : local'[d][m] = local[d][m]
  BY <1>0, <1>1, PutEffect DEF Shapes
<1>3. /\ CursorInv(d)'
      /\ \A m \in Note :
            /\ PulledInv(d, m)' /\ TakenInv(d, m)' /\ TheirsInv(d, m)'
            /\ Version(m)' = Version(m) /\ (HasRow(m)' <=> HasRow(m))
            /\ (Coming(d, m)' <=> Coming(d, m))
      /\ \A m \in Note : LocalStill(d, m) => CopyInv(d, m)'
  BY <1>1, UserBeside
<1>4. ASSUME NEW m \in Note, m # n
      PROVE  CopyInv(d, m)'
  BY <1>1, <1>2, <1>3, <1>4 DEF LocalStill, Free
<1>5. Free(d, n)
  BY <1>1, MayEditFacts DEF Free
<1>6. Version(n) = 0 => ~HasRow(n)
  BY <1>0 DEF Version, HasRow, ServerTypeOK, Row
<1>7. CopyInv(d, n)'
  <2>1. CleanInv(d, n)'
    <3>1. ~HasRow(n) \/ Coming(d, n)
      BY <1>0, <1>1, <1>5, <1>6 DEF CopyInv, BaselessInv, Coming
    <3> QED
      BY <1>2, <1>3, <3>1 DEF CleanInv, Copy
  <2>2. StatusInv(d, n)' /\ BaselessInv(d, n)'
    BY <1>2 DEF StatusInv, BaselessInv, Has
  <2> QED
    BY <1>3, <2>1, <2>2 DEF CopyInv
<1>8. Authors(d)
  BY <1>1, <1>2 DEF Authors, Claims, Has, syncVars
<1> QED
  BY <1>3, <1>4, <1>7, <1>8 DEF CopyGood

(***************************************************************************)
(* The choices of a conflict.                                              *)
(***************************************************************************)
Strict == Closed /\ "late" \notin Loose

LEMMA ResolvedCopies ==
    ASSUME SyncInv, SyncInv', CopiesInv, NEW d \in Device, NEW c \in conflicts[d],
           NEW r, DOMAIN r \subseteq Note, c.note \in DOMAIN r,
           \A n \in DOMAIN r :
              /\ r[n] \in LocalNote
              /\ n # c.note => Fresh(n) /\ r[n].base = 0 /\ r[n].status = "pending",
           NEW gone, Resolved(d, c, r, gone),
           r[c.note].base >= 1,
           \/ r[c.note].status = "pending"
           \/ r[c.note].status = "synced" /\ Copy(c.note, r[c.note])
    PROVE  CopyGood(d)
<1>0. Shapes /\ DeviceTypes(d) /\ \A n \in Note : CopyInv(d, n)
  BY InvParts, CopyParts
<1>1. /\ local' = [local EXCEPT ![d] = [n \in Note |->
                      IF n \in DOMAIN r THEN r[n] ELSE local[d][n]]]
      /\ conflicts' = [conflicts EXCEPT ![d] = @ \ {c}]
      /\ UNCHANGED <<serverVars, cursor, syncVars>>
  BY DEF Resolved
<1>2. /\ conflicts'[d] = conflicts[d] \ {c}
      /\ \A n \in Note : local'[d][n] = IF n \in DOMAIN r THEN r[n] ELSE local[d][n]
  BY <1>0, <1>1 DEF Shapes
<1>3. /\ CursorInv(d)'
      /\ \A m \in Note :
            /\ PulledInv(d, m)' /\ TakenInv(d, m)' /\ TheirsInv(d, m)'
            /\ Version(m)' = Version(m) /\ (HasRow(m)' <=> HasRow(m))
      /\ \A m \in Note : LocalStill(d, m) => CopyInv(d, m)'
  BY <1>1, <1>2, UserBeside
<1>4. \A m \in Note : m # c.note => (Free(d, m)' <=> Free(d, m))
  BY <1>2 DEF Free
<1>5. \A m \in DOMAIN r : r[m] # None
  BY LocalAssumption
<1>6. ASSUME NEW m \in Note, m \notin DOMAIN r
      PROVE  CopyInv(d, m)'
  BY <1>2, <1>3, <1>4, <1>6 DEF LocalStill
<1>7. ASSUME NEW m \in Note, m \in DOMAIN r, m # c.note
      PROVE  CopyInv(d, m)'
  <2>1. /\ Has(d, m)' /\ local'[d][m].status = "pending" /\ Version(m)' = 0
    BY <1>2, <1>3, <1>5, <1>7 DEF Has, Fresh
  <2>2. CleanInv(d, m)' /\ StatusInv(d, m)' /\ BaselessInv(d, m)'
    BY <2>1 DEF CleanInv, Clean, StatusInv, BaselessInv
  <2> QED
    BY <1>3, <2>2 DEF CopyInv
<1>8. CopyInv(d, c.note)'
  <2>1. /\ c.note \in Note /\ local'[d][c.note] = r[c.note] /\ Has(d, c.note)'
        /\ r[c.note].base # 0
    BY <1>2, <1>5 DEF Has
  <2>2. StatusInv(d, c.note)' /\ BaselessInv(d, c.note)'
    BY <2>1 DEF StatusInv, BaselessInv
  <2>3. CleanInv(d, c.note)'
    <3>1. CASE r[c.note].status = "pending"
      BY <2>1, <3>1 DEF CleanInv, Clean
    <3>2. CASE Copy(c.note, r[c.note])
      <4>1. NoteSame(c.note)
        BY <1>1, <2>1, SameMoves
      <4>2. \A q : Copy(c.note, q) => Copy(c.note, q)'
        BY <4>1, CopyStays
      <4>3. Copy(c.note, r[c.note])'
        BY <3>2, <4>2
      <4> QED
        BY <2>1, <4>3 DEF CleanInv, Copy
    <3> QED
      BY <3>1, <3>2
  <2> QED
    BY <1>3, <2>1, <2>2, <2>3 DEF CopyInv
<1>9. Authors(d)
  <2> SUFFICES ASSUME NEW m \in Note, Version(m)' = 0, Claims(d, m)'
               PROVE  Claims(d, m) \/ Fresh(m)
    BY DEF Authors
  <2>1. CASE m \notin DOMAIN r
    BY <1>1, <1>2, <2>1 DEF Claims, Has, syncVars
  <2>2. CASE m \in DOMAIN r /\ m # c.note
    BY <2>2
  <2>3. CASE m = c.note
    <3>1. Known(m, c.theirs) /\ c.theirs.version \in Nat
      BY <2>3, ConflictTypes
    <3>2. Version(m) # 0
      BY <3>1 DEF Known, Seen
    <3> QED
      BY <1>3, <3>2
  <2> QED
    BY <2>1, <2>2, <2>3
<1> QED
  BY <1>3, <1>6, <1>7, <1>8, <1>9 DEF CopyGood

(* The remote side of a conflict that is taken in time is the server's. *)
LEMMA TakenIsCopy ==
    ASSUME SyncInv, CopiesInv, Strict, NEW d \in Device, NEW c \in conflicts[d],
           MayTakeRemote(c)
    PROVE  /\ Synced(c.theirs) \in LocalNote /\ Synced(c.theirs).base >= 1
           /\ Synced(c.theirs).status = "synced"
           /\ Copy(c.note, Synced(c.theirs))
<1>1. /\ c.note \in Note /\ c.theirs.content \in Content /\ c.theirs.life \in Life
      /\ c.theirs.version \in Nat /\ Known(c.note, c.theirs)
  BY ConflictTypes
<1>2. c.theirs \in Remote
  BY InvParts DEF DeviceTypes, Conflict
<1>3. c.theirs.version = Version(c.note)
  BY DEF MayTakeRemote, Strict
<1>4. Copy(c.note, c.theirs)
  BY <1>1, <1>3, CopyParts DEF CopyInv, TheirsInv
<1> QED
  BY <1>1, <1>2, <1>4, SyncedFacts, SyncedCopy DEF Known

LEMMA KeepLocalCopies ==
    ASSUME SyncInv, SyncInv', CopiesInv, NEW d \in Device, NEW c \in conflicts[d],
           KeepLocal(d, c)
    PROVE  CopyGood(d)
<1> DEFINE r == [n \in {c.note} |->
                    [content |-> c.mine.content, life |-> c.mine.life,
                     version |-> NextVersionAfter(c.theirs.version),
                     base |-> c.theirs.version, status |-> "pending"]]
           gone == c.theirs.content \ c.mine.content
<1>1. /\ c.note \in Note /\ c.mine.content \in Content /\ c.mine.life \in Life
      /\ c.theirs.version \in Nat /\ c.theirs.version >= 1
  BY ConflictTypes DEF Known
<1>2. Resolved(d, c, r, gone)
  BY DEF KeepLocal
<1>3. DOMAIN r = {c.note} /\ r[c.note] \in LocalNote
  BY <1>1 DEF LocalNote, Status, NextVersionAfter
<1>4. r[c.note].status = "pending" /\ r[c.note].base >= 1
  BY <1>1
<1> HIDE DEF r, gone
<1>5. /\ DOMAIN r \subseteq Note /\ c.note \in DOMAIN r
      /\ \A n \in DOMAIN r : n = c.note
  BY <1>1, <1>3
<1> QED
  BY <1>2, <1>3, <1>4, <1>5, ResolvedCopies

LEMMA KeepRemoteCopies ==
    ASSUME SyncInv, SyncInv', CopiesInv, Strict, NEW d \in Device,
           NEW c \in conflicts[d], KeepRemote(d, c)
    PROVE  CopyGood(d)
<1> DEFINE r == [n \in {c.note} |-> Synced(c.theirs)]
<1>1. PICK gone : Resolved(d, c, r, gone) /\ MayTakeRemote(c)
  BY DEF KeepRemote
<1>2. c.note \in Note
  BY ConflictTypes
<1>3. /\ Synced(c.theirs) \in LocalNote /\ Synced(c.theirs).base >= 1
      /\ Synced(c.theirs).status = "synced"
      /\ Copy(c.note, Synced(c.theirs))
  BY <1>1, TakenIsCopy
<1>4. DOMAIN r = {c.note} /\ r[c.note] = Synced(c.theirs)
  OBVIOUS
<1> HIDE DEF r
<1>5. /\ DOMAIN r \subseteq Note /\ c.note \in DOMAIN r
      /\ \A n \in DOMAIN r : n = c.note
  BY <1>2, <1>4
<1> QED
  BY <1>1, <1>3, <1>4, <1>5, ResolvedCopies

LEMMA DuplicateCopies ==
    ASSUME SyncInv, SyncInv', CopiesInv, Strict, NEW d \in Device,
           NEW c \in conflicts[d], NEW copy \in Note, DuplicateBoth(d, c, copy)
    PROVE  CopyGood(d)
<1> DEFINE fresh == [content |-> c.mine.content, life |-> c.mine.life,
                     version |-> 1, base |-> 0, status |-> "pending"]
           r == [n \in {c.note, copy} |->
                    IF n = c.note THEN Synced(c.theirs) ELSE fresh]
<1>1. Resolved(d, c, r, {}) /\ MayTakeRemote(c) /\ Fresh(copy)
  BY DEF DuplicateBoth
<1>2. c.note \in Note /\ c.mine.content \in Content /\ c.mine.life \in Life
  BY ConflictTypes
<1>3. /\ Synced(c.theirs) \in LocalNote /\ Synced(c.theirs).base >= 1
      /\ Synced(c.theirs).status = "synced"
      /\ Copy(c.note, Synced(c.theirs))
  BY <1>1, TakenIsCopy
<1>4. fresh \in LocalNote /\ fresh.base = 0 /\ fresh.status = "pending"
  BY <1>2 DEF LocalNote, Status
<1> HIDE DEF fresh
<1>5. /\ DOMAIN r = {c.note, copy} /\ r[c.note] = Synced(c.theirs)
      /\ copy # c.note => r[copy] = fresh
  OBVIOUS
<1> HIDE DEF r
<1>6. /\ DOMAIN r \subseteq Note /\ c.note \in DOMAIN r
      /\ \A n \in DOMAIN r : n = c.note \/ n = copy
  BY <1>2, <1>5
<1>7. \A n \in DOMAIN r :
         /\ r[n] \in LocalNote
         /\ n # c.note => Fresh(n) /\ r[n].base = 0 /\ r[n].status = "pending"
  BY <1>1, <1>3, <1>4, <1>5, <1>6
<1> QED
  BY <1>1, <1>3, <1>5, <1>6, <1>7, ResolvedCopies

LEMMA UserCopies ==
    ASSUME SyncInv, SyncInv', CopiesInv, Strict, NEW d \in Device, UserStep(d)
    PROVE  CopyGood(d)
<1>1. Closed
  BY DEF Strict
<1>2. ASSUME ResolveConflict(d)
      PROVE  CopyGood(d)
  BY <1>2, KeepLocalCopies, KeepRemoteCopies, DuplicateCopies DEF ResolveConflict
<1> QED
  BY <1>1, <1>2, CreateCopies, UpdateCopies, ChangeLifeCopies, DeleteLocalCopies
     DEF UserStep, MoveNoteToTrash, RestoreNote, DeleteNote

(***************************************************************************)
(* The sync.                                                               *)
(***************************************************************************)
(* What lasts in a step that leaves the server alone. *)
LEMMA ServerStill ==
    ASSUME SyncInv, SyncInv', CopiesInv, NEW d \in Device, UNCHANGED serverVars
    PROVE  /\ ServerMoves /\ CursorInv(d)
           /\ \A n \in Note :
                 /\ NoteSame(n) /\ CopyInv(d, n) /\ Version(n)' = Version(n)
                 /\ (UpTo(d)' <= UpTo(d)) /\ Ahead(d, n) => Ahead(d, n)'
                 /\ \A u : LoggedAfter(n, u) => LoggedAfter(n, u)'
                 /\ \A r : Copy(n, r) => Copy(n, r)'
                 /\ \A r : Is(n, r) => Is(n, r)'
<1>1. ServerMoves /\ \A n \in Note : NoteSame(n)
  BY SameMoves
<1>2. CursorInv(d) /\ \A n \in Note : CopyInv(d, n)
  BY CopyParts
<1>3. ASSUME NEW n \in Note
      PROVE  /\ \A r : Copy(n, r) => Copy(n, r)'
             /\ \A r : Is(n, r) => Is(n, r)'
  BY <1>1, CopyStays
<1>4. \A n, u : LoggedAfter(n, u) => LoggedAfter(n, u)'
  BY DEF LoggedAfter, serverVars
<1>5. ASSUME NEW n \in Note, UpTo(d)' <= UpTo(d), Ahead(d, n)
      PROVE  Ahead(d, n)'
  BY <1>1, <1>5, AheadStays
<1> QED
  BY <1>1, <1>2, <1>3, <1>4, <1>5 DEF NoteSame

LEMMA ReadPendingCopies ==
    ASSUME SyncInv, SyncInv', CopiesInv, NEW d \in Device, ReadPending(d)
    PROVE  CopyGood(d)
<1>0. /\ Shapes /\ DeviceTypes(d) /\ Phase(d)
  BY InvParts
<1>1. /\ step[d] = "idle"
      /\ sent' = [sent EXCEPT ![d] = [n \in Pending(d) |-> local[d][n]]]
      /\ UNCHANGED <<serverVars, local, conflicts, cursor, answerVars, refused, page>>
  BY DEF ReadPending
<1>2. DOMAIN sent'[d] = Pending(d)
  BY <1>0, <1>1 DEF Shapes
<1>3. step'[d] \in {"repair", "push", "pull"} /\ (step'[d] = "pull" => Pending(d) = {})
  <2> DEFINE s == [n \in Pending(d) |-> local[d][n]]
             next == IF Unprepared(s) # {} THEN "repair"
                     ELSE IF Pending(d) # {} THEN "push" ELSE "pull"
  <2>1. step' = [step EXCEPT ![d] = next]
    BY DEF ReadPending, Goto
  <2>2. Unprepared(s) \subseteq Pending(d)
    BY DEF Unprepared
  <2>3. next \in {"repair", "push", "pull"} /\ (next = "pull" => Pending(d) = {})
    BY <2>2
  <2> HIDE DEF next
  <2> QED
    BY <1>0, <2>1, <2>3 DEF Shapes
<1>4. UpTo(d)' = UpTo(d) /\ UpTo(d) \in Nat /\ UpTo(d)' <= UpTo(d)
  BY <1>1, <1>3, CursorTypes DEF UpTo, Pulling
<1>5. /\ ServerMoves /\ CursorInv(d)
      /\ \A n \in Note : /\ CopyInv(d, n) /\ Version(n)' = Version(n)
                         /\ Ahead(d, n) => Ahead(d, n)'
  BY <1>1, <1>4, ServerStill
<1>6. CursorInv(d)'
  BY <1>1, <1>3, <1>5, StillCursor DEF Pulling
<1>7. Authors(d)
  BY <1>1, <1>2 DEF Authors, Claims, Has, Pending
<1>8. ASSUME NEW n \in Note
      PROVE  CopyInv(d, n)'
  <2>1. LocalStill(d, n)
    BY <1>1 DEF LocalStill, Free
  <2>2. SyncStill(d, n) /\ (Coming(d, n) => Coming(d, n)')
    BY <1>0, <1>1, <1>3, <1>4, <1>5 DEF SyncStill, Coming, Deleting, Phase, answerVars
  <2>3. ASSUME Has(d, n), local[d][n].base = 0, Free(d, n)
        PROVE  Unanswered(d, n)'
    <3>1. local[d][n].status \in Status /\ StatusInv(d, n)
      BY <1>0, <1>5, <2>3 DEF DeviceTypes, Has, LocalNote, CopyInv
    <3>2. n \in Pending(d)
      BY <2>3, <3>1 DEF StatusInv, Status, Pending
    <3> QED
      BY <1>2, <1>3, <3>2 DEF Unanswered
  <2> QED
    BY <1>5, <2>1, <2>2, <2>3, StillCopy
<1> QED
  BY <1>6, <1>7, <1>8 DEF CopyGood

(* A note that goes before it was synced leaves nothing behind the server. *)
LEMMA RepairCopies ==
    ASSUME SyncInv, SyncInv', CopiesInv, NEW d \in Device, RepairPending(d)
    PROVE  CopyGood(d)
<1> DEFINE fix == Unprepared(sent[d])
           gone == {n \in fix : LocalOnlyDeleted(sent[d][n])}
           keep == [n \in DOMAIN sent[d] \ gone |-> PreparePending(sent[d][n])]
           next == IF DOMAIN keep # {} THEN "push" ELSE "pull"
<1>0. /\ Shapes /\ DeviceTypes(d) /\ Phase(d) /\ ServerTypeOK
      /\ \A n \in Note : NoteInv(d, n)
  BY InvParts
<1>1. /\ step[d] = "repair"
      /\ local' = [local EXCEPT ![d] = [n \in Note |->
                      IF n \in gone THEN None
                      ELSE IF n \in fix THEN keep[n] ELSE local[d][n]]]
      /\ sent' = [sent EXCEPT ![d] = keep]
      /\ step' = [step EXCEPT ![d] = next]
      /\ UNCHANGED <<serverVars, conflicts, cursor, answerVars, refused, page>>
  BY DEF RepairPending, Goto
<1>2. /\ DOMAIN sent[d] \subseteq Note
      /\ \A n \in DOMAIN sent[d] : /\ sent[d][n] \in LocalNote
                                   /\ local[d][n] = sent[d][n]
                                   /\ Has(d, n) /\ sent[d][n].status = "pending"
                                   /\ \A c \in conflicts[d] : c.note # n
  BY <1>0, <1>1 DEF DeviceTypes, NoteMap, Phase, Has, NoteInv, SentInv
<1>3. /\ fix \subseteq DOMAIN sent[d] /\ gone \subseteq fix
      /\ DOMAIN keep = DOMAIN sent[d] \ gone
      /\ \A n \in DOMAIN keep : keep[n] \in LocalNote /\ SameText(keep[n], sent[d][n])
      /\ \A n \in gone : sent[d][n].base = 0
  BY <1>2, PreparedFacts DEF Unprepared, LocalOnlyDeleted
<1>4. next \in {"push", "pull"} /\ (next = "pull" => DOMAIN keep = {})
  OBVIOUS
<1> HIDE DEF fix, gone, keep, next
<1>5. /\ sent'[d] = keep /\ step'[d] = next
      /\ \A n \in Note : /\ n \in gone => local'[d][n] = None
                         /\ n \in fix \ gone => local'[d][n] = keep[n]
                         /\ n \notin fix => local'[d][n] = local[d][n]
  BY <1>0, <1>1, <1>3 DEF Shapes
<1>6. UpTo(d)' = UpTo(d) /\ UpTo(d) \in Nat /\ UpTo(d)' <= UpTo(d)
  BY <1>1, <1>4, <1>5, CursorTypes DEF UpTo, Pulling
<1>7. /\ ServerMoves /\ CursorInv(d)
      /\ \A n \in Note : /\ CopyInv(d, n) /\ NoteSame(n) /\ Version(n)' = Version(n)
                         /\ Ahead(d, n) => Ahead(d, n)'
  BY <1>1, <1>6, ServerStill
<1>8. CursorInv(d)'
  BY <1>1, <1>4, <1>5, <1>7, StillCursor DEF Pulling
<1>9. Authors(d)
  BY <1>2, <1>3, <1>5 DEF Authors, Claims, Has
<1>10. ASSUME NEW n \in Note
       PROVE  CopyInv(d, n)'
  <2>0. Free(d, n)' <=> Free(d, n)
    BY <1>1 DEF Free
  <2>1. SyncStill(d, n) /\ (Coming(d, n) => Coming(d, n)')
    BY <1>0, <1>1, <1>4, <1>5, <1>6, <1>7
       DEF SyncStill, Coming, Deleting, Phase, answerVars
  <2>2. n \notin gone /\ Unanswered(d, n) => Unanswered(d, n)'
    BY <1>1, <1>3, <1>4, <1>5 DEF Unanswered
  <2>3. PulledInv(d, n)' /\ TakenInv(d, n)' /\ TheirsInv(d, n)'
    BY <1>7, <2>1, StillPulled
  <2>4. CASE n \notin fix
    <3>1. LocalStill(d, n) /\ n \notin gone
      BY <1>3, <1>5, <2>0, <2>4 DEF LocalStill
    <3> QED
      BY <1>7, <2>1, <2>2, <3>1, StillCopy
  <2>5. CASE n \in fix \ gone
    <3>1. /\ Has(d, n) /\ local'[d][n].status = "pending"
          /\ local'[d][n].base = local[d][n].base /\ Has(d, n)'
      BY <1>2, <1>3, <1>5, <2>5 DEF SameText, Has
    <3>2. CleanInv(d, n)' /\ StatusInv(d, n)'
      BY <3>1 DEF CleanInv, Clean, StatusInv
    <3>3. BaselessInv(d, n)'
      BY <1>6, <1>7, <2>0, <2>2, <2>5, <3>1, StillBaseless
    <3> QED
      BY <2>3, <3>2, <3>3 DEF CopyInv
  <2>6. CASE n \in gone
    <3>1. ~Has(d, n)' /\ local'[d][n] = None
      BY <1>5, <2>6 DEF Has
    <3>2. Has(d, n) /\ local[d][n].base = 0 /\ Free(d, n)
      BY <1>2, <1>3, <2>6 DEF Free
    <3>3. Version(n) = 0 \/ Ahead(d, n)
      BY <1>7, <3>2 DEF CopyInv, BaselessInv
    <3>4. Version(n) = 0 => ~HasRow(n)
      BY <1>0 DEF Version, HasRow, ServerTypeOK, Row
    <3>5. Ahead(d, n)' \/ Copy(n, local[d][n])'
      BY <1>7, <3>1, <3>3, <3>4 DEF Copy, NoteSame
    <3>6. CleanInv(d, n)' /\ StatusInv(d, n)' /\ BaselessInv(d, n)'
      BY <3>1, <3>5 DEF CleanInv, Coming, StatusInv, BaselessInv
    <3> QED
      BY <2>3, <3>6 DEF CopyInv
  <2> QED
    BY <2>4, <2>5, <2>6
<1> QED
  BY <1>8, <1>9, <1>10 DEF CopyGood


(* What is sent is accepted or refused, and a refusal shows the server's copy. *)
LEMMA AnswerFacts ==
    ASSUME SyncInv, NEW d \in Device, NEW n \in DOMAIN sent[d]
    PROVE  \/ n \in DOMAIN AcceptancesOf(Batched(sent[d]))
           \/ \E c \in ConflictsOf(Batched(sent[d])) : c.note = n
<1> DEFINE batch == Batched(sent[d])
<1>1. DOMAIN batch = DOMAIN sent[d]
  BY BatchedFacts
<1> HIDE DEF batch
<1>2. n \in RefusedIn(batch) => ConflictOf(n, batch[n]).note = n
  BY DEF ConflictOf
<1> QED
  BY <1>1, <1>2 DEF AcceptancesOf, ConflictsOf, batch

LEMMA RefusalIsCopy ==
    ASSUME SyncInv, NEW d \in Device, NEW c \in ConflictsOf(Batched(sent[d]))
    PROVE  Copy(c.note, c.theirs)
<1> DEFINE n == c.note
           ch == Batched(sent[d])[n]
<1>1. PICK m \in RefusedIn(Batched(sent[d])) : c = ConflictOf(m, Batched(sent[d])[m])
  BY DEF ConflictsOf
<1>2. c.note = m
  BY <1>1 DEF ConflictOf
<1>3. /\ m \in DOMAIN sent[d] /\ m \in Note /\ Refused(m, Batched(sent[d])[m])
      /\ ServerTypeOK
  BY <1>1, BatchedFacts DEF RefusedIn, SyncInv, ServerInv
<1>4. PICK batch : batch = Batched(sent[d])
  OBVIOUS
<1>5. CASE DeletedRemotely(m, batch[m])
  <2>1. c.theirs.life = "deleted" /\ ~HasRow(m)
    BY <1>1, <1>4, <1>5 DEF ConflictOf, DeletedRemotely
  <2> QED
    BY <1>2, <2>1 DEF Copy
<1>6. CASE ~DeletedRemotely(m, batch[m])
  <2>1. HasRow(m) /\ c.theirs = RemoteOf(rows[m])
    BY <1>1, <1>3, <1>4, <1>6 DEF ConflictOf, Refused, RemoteChanged
  <2>2. c.theirs \in Remote /\ c.theirs # None
    BY RefusalFacts DEF Conflict
  <2>3. SameSide(c.theirs, rows[m])
    BY <2>1 DEF RemoteOf, SameSide
  <2> QED
    BY <1>2, <2>1, <2>2, <2>3, IsCopy DEF Is
<1> QED
  BY <1>5, <1>6

(* What is accepted without being written is there. *)
LEMMA AcceptedIsThere ==
    ASSUME SyncInv, NEW d \in Device, NEW n \in DOMAIN AcceptancesOf(Batched(sent[d])),
           n \notin Written(Batched(sent[d]))
    PROVE  Is(n, sent[d][n]) /\ Version(n) >= 1
<1> DEFINE batch == Batched(sent[d])
<1>1. /\ n \in DOMAIN batch /\ n \notin RefusedIn(batch)
  BY DEF AcceptancesOf
<1>2. /\ DOMAIN batch = DOMAIN sent[d] /\ n \in Note
      /\ batch[n].content = sent[d][n].content
      /\ batch[n].life = sent[d][n].life
  BY <1>1, BatchedFacts
<1>3. AlreadyThere(n, batch[n])
  BY <1>1 DEF Written, Writes, RefusedIn
<1>4. HasRow(n) /\ SameSide(sent[d][n], rows[n])
  BY <1>2, <1>3 DEF AlreadyThere, RecordsDiffer, SameSide
<1>5. Version(n) >= 1
  BY <1>2, <1>4 DEF Version, HasRow, SyncInv, ServerInv, ServerTypeOK, Row
<1> QED
  BY <1>4, <1>5 DEF Is

LEMMA HandlePushCopies ==
    ASSUME SyncInv, SyncInv', CopiesInv, NEW d \in Device, HandlePush(d)
    PROVE  CopyGood(d)
<1> DEFINE batch == Batched(sent[d])
           W == Written(batch)
           no == ConflictsOf(batch)
           yes == AcceptancesOf(batch)
<1>0. /\ Shapes /\ DeviceTypes(d) /\ Phase(d)
      /\ \A n \in Note : NoteInv(d, n) /\ Version(n) \in Nat
  BY InvParts
<1>1. /\ step[d] = "push" /\ Push(d, batch)
      /\ refused' = [refused EXCEPT ![d] = @ \union no]
      /\ accepted' = [accepted EXCEPT ![d] = yes]
      /\ step' = [step EXCEPT ![d] = "answered"]
      /\ UNCHANGED <<local, conflicts, cursor, sent, page>>
  BY DEF HandlePush, Goto
<1>2. /\ ServerMoves
      /\ \A n \in Note \ W : NoteSame(n)
      /\ \A n \in W : NoteMoved(n) /\ HasRow(n)' /\ SameSide(rows'[n], sent[d][n])
  BY <1>1, PushMoves
<1>3. \A c \in no : /\ c.note \in DOMAIN sent[d] /\ c.note \in Note
                    /\ c.note \notin W /\ Copy(c.note, c.theirs)
  BY RefusalFacts, RefusalIsCopy
<1>4. \A n \in DOMAIN yes :
         /\ n \in DOMAIN sent[d] /\ n \in Note /\ yes[n] \in Nat
         /\ \/ n \in W /\ yes[n] = Version(n) + 1
            \/ n \notin W /\ yes[n] = Version(n)
  BY AcceptanceFacts
<1>5. \A n \in DOMAIN yes : n \notin W => Is(n, sent[d][n]) /\ Version(n) >= 1
  BY AcceptedIsThere
<1>6. \A n \in DOMAIN sent[d] : n \in DOMAIN yes \/ \E c \in no : c.note = n
  BY AnswerFacts
<1>7. W \subseteq DOMAIN sent[d]
  BY BatchedFacts DEF Written
<1> HIDE DEF batch, W, no, yes
<1>8. /\ refused'[d] = no /\ accepted'[d] = yes /\ step'[d] = "answered"
  BY <1>0, <1>1 DEF Shapes, Phase
<1>9. UpTo(d)' = UpTo(d) /\ UpTo(d) \in Nat /\ UpTo(d)' <= UpTo(d)
  BY <1>1, <1>8, CursorTypes DEF UpTo, Pulling
<1>10. CursorInv(d) /\ \A n \in Note : CopyInv(d, n)
  BY CopyParts
<1>11. CursorInv(d)'
  BY <1>1, <1>2, <1>8, <1>10, StillCursor DEF Pulling
<1>12. Authors(d)
  BY <1>1 DEF Authors, Claims, Has
<1>13. \A n \in Note : /\ Ahead(d, n) => Ahead(d, n)'
                       /\ NoteMoved(n) => Ahead(d, n)'
  BY <1>2, <1>9, AheadStays
<1>14. ASSUME NEW n \in Note
       PROVE  CopyInv(d, n)'
  <2>1. LocalStill(d, n) /\ (Free(d, n)' <=> Free(d, n))
    BY <1>1 DEF LocalStill, Free
  <2>2. n \notin DOMAIN page[d].notes /\ page'[d] = page[d] /\ ~Deleting(d, n)'
    BY <1>0, <1>1, <1>8 DEF Phase, Deleting
  <2>3. Coming(d, n) => Coming(d, n)'
    BY <1>1, <1>13, <2>2 DEF Coming, Deleting
  <2>4. CleanInv(d, n)' /\ StatusInv(d, n)'
    BY <1>2, <1>9, <1>10, <2>1, <2>3, StillClean
  <2>5. PulledInv(d, n)'
    BY <2>2 DEF PulledInv
  <2>6. TakenInv(d, n)'
    <3> SUFFICES ASSUME n \in DOMAIN yes
                 PROVE  yes[n] >= 1 /\ (Ahead(d, n)' \/ Is(n, sent[d][n])')
      BY <1>1, <1>8 DEF TakenInv
    <3>1. CASE n \in W
      <4>1. yes[n] >= 1
        BY <1>0, <1>4, <1>5, <3>1
      <4> QED
        BY <1>2, <1>13, <3>1, <4>1
    <3>2. CASE n \notin W
      <4>1. PICK t : t = sent[d][n]
        OBVIOUS
      <4>2. Is(n, t) /\ NoteSame(n) /\ yes[n] >= 1
        BY <1>2, <1>4, <1>5, <3>2, <4>1
      <4>3. Is(n, t)' /\ t = sent'[d][n]
        BY <1>1, <4>1, <4>2, CopyStays
      <4> QED
        BY <4>2, <4>3 DEF Is
    <3> QED
      BY <3>1, <3>2
  <2>7. TheirsInv(d, n)'
    <3> SUFFICES ASSUME NEW c \in conflicts[d] \union no, c.note = n,
                        c.theirs.version = Version(n)'
                 PROVE  Copy(n, c.theirs)'
      BY <1>1, <1>8 DEF TheirsInv
    <3>1. CASE c \in no
      BY <1>2, <1>3, <3>1, CopyStays
    <3>2. CASE c \in conflicts[d]
      BY <1>2, <1>10, <3>2, TheirsStay DEF CopyInv
    <3> QED
      BY <3>1, <3>2
  <2>8. BaselessInv(d, n)'
    <3> SUFFICES ASSUME Has(d, n)', local'[d][n].base = 0, Free(d, n)'
                 PROVE  Version(n)' = 0 \/ (Ahead(d, n)' /\ Unanswered(d, n)')
      BY DEF BaselessInv
    <3>1. Has(d, n) /\ local[d][n].base = 0 /\ Free(d, n)
      BY <1>1, <2>1 DEF Has
    <3>2. n \in DOMAIN sent[d] => Unanswered(d, n)'
      BY <1>6, <1>8 DEF Unanswered, InRefused
    <3>3. CASE Version(n) = 0
      <4>1. CASE n \in W
        BY <1>2, <1>7, <1>13, <3>2, <4>1
      <4>2. CASE n \notin W
        BY <1>2, <3>3, <4>2 DEF NoteSame
      <4> QED
        BY <4>1, <4>2
    <3>4. CASE Ahead(d, n) /\ Unanswered(d, n)
      BY <1>1, <1>13, <3>2, <3>4 DEF Unanswered
    <3> QED
      BY <1>10, <3>1, <3>3, <3>4 DEF CopyInv, BaselessInv
  <2> QED
    BY <2>4, <2>5, <2>6, <2>7, <2>8 DEF CopyInv
<1> QED
  BY <1>11, <1>12, <1>14 DEF CopyGood


LEMMA MarkedSide ==
    ASSUME NEW d, NEW n, NEW r \in LocalNote, NEW acceptances,
           n \in DOMAIN acceptances, acceptances[n] \in Nat, sent[d][n] \in LocalNote,
           Marked(d, n, r, acceptances).status = "synced"
    PROVE  SameSide(Marked(d, n, r, acceptances), sent[d][n])
<1>1. r # None
  OBVIOUS
<1>2. CASE StillMatchesPush(d, n, r)
  <2>1. Marked(d, n, r, acceptances) =
           [r EXCEPT !.version = acceptances[n], !.status = "synced",
                     !.base = acceptances[n]]
    BY <1>1, <1>2 DEF Marked
  <2>2. r.content = sent[d][n].content /\ r.life = sent[d][n].life
    BY <1>2 DEF StillMatchesPush, Side
  <2> QED
    BY <2>1, <2>2 DEF LocalNote, SameSide
<1>3. CASE ~StillMatchesPush(d, n, r)
  <2>1. Marked(d, n, r, acceptances) =
           [r EXCEPT !.version = r.version, !.status = "pending",
                     !.base = acceptances[n]]
    BY <1>1, <1>3 DEF Marked
  <2> QED
    BY <2>1 DEF LocalNote
<1> QED
  BY <1>2, <1>3

LEMMA MarkCopies ==
    ASSUME SyncInv, SyncInv', CopiesInv, NEW d \in Device, MarkAccepted(d)
    PROVE  CopyGood(d)
<1> DEFINE next == IF refused[d] # {} THEN "refused" ELSE "pull"
           mark(n) == Marked(d, n, Marked(d, n, local[d][n], leaked[d]), accepted[d])
<1>0. /\ Shapes /\ Quiet(d) /\ DeviceTypes(d) /\ Phase(d)
      /\ \A n \in Note : NoteInv(d, n)
  BY InvParts
<1>1. /\ step[d] = "answered"
      /\ local' = [local EXCEPT ![d] = [n \in Note |-> mark(n)]]
      /\ sent' = [sent EXCEPT ![d] = Nothing]
      /\ accepted' = [accepted EXCEPT ![d] = Nothing]
      /\ step' = [step EXCEPT ![d] = next]
      /\ UNCHANGED <<serverVars, conflicts, cursor, refused, page>>
  BY DEF MarkAccepted, Goto
<1>2. next \in {"refused", "pull"} /\ (next = "pull" => refused[d] = {})
  OBVIOUS
<1>3. \A n \in Note : mark(n) = Marked(d, n, local[d][n], accepted[d])
  BY <1>0 DEF Marked, Quiet
<1> HIDE DEF next, mark
<1>4. /\ \A n \in Note : local'[d][n] = Marked(d, n, local[d][n], accepted[d])
      /\ DOMAIN sent'[d] = {} /\ DOMAIN accepted'[d] = {} /\ step'[d] = next
  BY <1>0, <1>1, <1>3 DEF Shapes, Nothing
<1>5. UpTo(d)' = UpTo(d) /\ UpTo(d) \in Nat /\ UpTo(d)' <= UpTo(d)
  BY <1>1, <1>2, <1>4, CursorTypes DEF UpTo, Pulling
<1>6. /\ ServerMoves /\ CursorInv(d)
      /\ \A n \in Note : /\ CopyInv(d, n) /\ NoteSame(n) /\ Version(n)' = Version(n)
                         /\ Ahead(d, n) => Ahead(d, n)'
                         /\ \A r : Copy(n, r) => Copy(n, r)'
  BY <1>1, <1>5, ServerStill
<1>7. CursorInv(d)'
  BY <1>1, <1>2, <1>4, <1>6, StillCursor DEF Pulling
<1>8. \A n \in Note : n \notin DOMAIN accepted[d] \/ ~Has(d, n)
                         => local'[d][n] = local[d][n]
  BY <1>4 DEF Marked, Has
<1>9. Authors(d)
  BY <1>4, <1>8 DEF Authors, Claims, Has
<1>10. ASSUME NEW n \in Note
       PROVE  CopyInv(d, n)'
  <2>0. Free(d, n)' <=> Free(d, n)
    BY <1>1 DEF Free
  <2>1. SyncStill(d, n) /\ (Coming(d, n) => Coming(d, n)')
    BY <1>0, <1>1, <1>2, <1>4, <1>5, <1>6 DEF SyncStill, Coming, Deleting
  <2>2. CASE n \notin DOMAIN accepted[d] \/ ~Has(d, n)
    <3>1. LocalStill(d, n)
      BY <1>8, <2>0, <2>2 DEF LocalStill
    <3>2. Has(d, n) /\ Unanswered(d, n) => Unanswered(d, n)'
      BY <1>1, <1>2, <1>4, <2>2 DEF Unanswered, InRefused
    <3> QED
      BY <1>6, <2>1, <3>1, <3>2, StillCopy
  <2>3. CASE n \in DOMAIN accepted[d] /\ Has(d, n)
    <3>1. /\ local[d][n] \in LocalNote /\ n \in DOMAIN sent[d]
          /\ sent[d][n] \in LocalNote /\ accepted[d][n] \in Nat
      BY <1>0, <2>3 DEF NoteInv, AnswerInv, DeviceTypes, NoteMap, Has
    <3>2. PICK r : r = Marked(d, n, local[d][n], accepted[d])
      OBVIOUS
    <3>3. /\ local'[d][n] = r /\ r \in LocalNote /\ r # None
          /\ r.base = accepted[d][n] /\ r.status \in {"synced", "pending"}
          /\ r.status = "synced" => SameSide(r, sent[d][n])
      <4>1. local'[d][n] = r
        BY <1>4, <3>2
      <4>2. /\ r \in LocalNote
            /\ r.base = accepted[d][n] /\ r.status \in {"synced", "pending"}
        BY <2>3, <3>1, <3>2, MarkedFacts
      <4>3. r.status = "synced" => SameSide(r, sent[d][n])
        BY <2>3, <3>1, <3>2, MarkedSide
      <4> QED
        BY <4>1, <4>2, <4>3
    <3>4. accepted[d][n] >= 1 /\ (Ahead(d, n) \/ Is(n, sent[d][n]))
      BY <1>6, <2>3 DEF CopyInv, TakenInv
    <3>5. r.status = "synced" => Ahead(d, n) \/ Copy(n, r)
      <4>1. ASSUME r.status = "synced", Is(n, sent[d][n]) PROVE Is(n, r)
        BY <3>3, <4>1 DEF Is, SameSide
      <4> QED
        BY <3>3, <3>4, <4>1, IsCopy
    <3>6. CleanInv(d, n)'
      <4>1. r.status = "synced" => Ahead(d, n)' \/ Copy(n, r)'
        BY <1>6, <3>5
      <4> QED
        BY <3>3, <4>1 DEF CleanInv, Clean, Has, Coming, Copy
    <3>7. StatusInv(d, n)' /\ BaselessInv(d, n)'
      BY <3>3, <3>4 DEF StatusInv, BaselessInv
    <3> QED
      BY <1>6, <2>1, <3>6, <3>7, StillPulled DEF CopyInv
  <2> QED
    BY <2>2, <2>3
<1> QED
  BY <1>7, <1>9, <1>10 DEF CopyGood


LEMMA RefusedCopies ==
    ASSUME SyncInv, SyncInv', CopiesInv, NEW d \in Device, HandleRefused(d)
    PROVE  CopyGood(d)
<1>0. /\ Shapes /\ DeviceTypes(d) /\ Phase(d)
      /\ \A n \in Note : NoteInv(d, n)
  BY InvParts
<1>1. PICK c \in refused[d] :
         /\ refused' = [refused EXCEPT ![d] = @ \ {c}]
         /\ Goto(d, IF refused[d] = {c} THEN "pull" ELSE "refused")
         /\ \/ /\ OwnEcho(d, c)
               /\ local' = IF Has(d, c.note) THEN Absorbed(d, c) ELSE local
               /\ UNCHANGED conflicts
            \/ ~OwnEcho(d, c) /\ SaveConflict(d, c)
  BY DEF HandleRefused
<1>2. /\ step[d] = "refused"
      /\ UNCHANGED <<serverVars, cursor, sent, answerVars, page>>
  BY DEF HandleRefused
<1> DEFINE m == c.note
           next == IF refused[d] = {c} THEN "pull" ELSE "refused"
<1>3. /\ c \in Conflict /\ m \in Note /\ c.theirs \in Remote
      /\ c.theirs.version \in Nat
  BY <1>0 DEF DeviceTypes, Conflict, Remote
<1>4. step' = [step EXCEPT ![d] = next]
  BY <1>1 DEF Goto
<1>5. next \in {"pull", "refused"} /\ (next = "pull" => refused[d] = {c})
  OBVIOUS
<1> HIDE DEF m, next
<1>6. refused'[d] = refused[d] \ {c} /\ step'[d] = next
  BY <1>0, <1>1, <1>4 DEF Shapes
<1>7. c.theirs.version >= 1 /\ \A b \in conflicts[d] : b.note # m
  BY <1>0, <1>3 DEF NoteInv, RefusedInv, Known, m
<1>8. (* What happens to the note of c and to the conflicts. *)
      /\ \A n \in Note : n # m => local'[d][n] = local[d][n]
      /\ \/ local'[d][m] = local[d][m] /\ ~Has(d, m) /\ conflicts'[d] = conflicts[d]
         \/ /\ Has(d, m) /\ local'[d][m] # None /\ local'[d][m].status = "pending"
            /\ local'[d][m].base >= 1
            /\ conflicts'[d] = conflicts[d]
         \/ /\ local'[d][m] # None => Has(d, m) /\ local'[d][m].status = "conflict"
            /\ \E x : /\ x.note = m /\ x.theirs = c.theirs
                      /\ conflicts'[d] = conflicts[d] \union {x}
  <2>1. CASE OwnEcho(d, c) /\ UNCHANGED conflicts /\ Has(d, m) /\ local' = Absorbed(d, c)
    <3>1. /\ \A n \in Note : n # m => local'[d][n] = local[d][n]
          /\ Has(d, m)' /\ local'[d][m].status = "pending"
          /\ local'[d][m].base = Later(local[d][m].base, c.theirs.version)
      BY <1>0, <1>3, <2>1, AbsorbedEffect DEF m
    <3>2. local[d][m].base \in Nat
      BY <1>0, <1>3, <2>1 DEF DeviceTypes, Has, LocalNote
    <3>3. local'[d][m].base >= 1
      BY <1>3, <1>7, <3>1, <3>2 DEF Later
    <3> QED
      BY <2>1, <3>1, <3>3 DEF Has
  <2>2. CASE UNCHANGED <<conflicts, local>> /\ ~Has(d, m)
    BY <2>2
  <2>3. CASE SaveConflict(d, c)
    <3>1. /\ \A n \in Note : n # m => local'[d][n] = local[d][n]
          /\ IF Has(d, m)
             THEN /\ Has(d, m)' /\ local'[d][m].status = "conflict"
                  /\ local'[d][m].content = local[d][m].content
                  /\ local'[d][m].base = local[d][m].base
             ELSE local'[d][m] = local[d][m]
          /\ \E x : Stored(d, c, x) /\ conflicts'[d] = conflicts[d] \union {x}
      BY <1>0, <1>3, <2>3, SaveConflictEffect DEF m
    <3> QED
      BY <3>1 DEF Stored, Has, m
  <2> QED
    BY <1>1, <2>1, <2>2, <2>3 DEF m
<1>9. UpTo(d)' = UpTo(d) /\ UpTo(d) \in Nat /\ UpTo(d)' <= UpTo(d)
  BY <1>2, <1>5, <1>6, CursorTypes DEF UpTo, Pulling
<1>10. /\ ServerMoves /\ CursorInv(d)
       /\ \A n \in Note : /\ CopyInv(d, n) /\ NoteSame(n) /\ Version(n)' = Version(n)
                          /\ Ahead(d, n) => Ahead(d, n)'
  BY <1>2, <1>9, ServerStill
<1>11. CursorInv(d)'
  BY <1>2, <1>5, <1>6, <1>10, StillCursor DEF Pulling
<1>12. Authors(d)
  BY <1>2, <1>8 DEF Authors, Claims, Has
<1>13. ASSUME NEW n \in Note
       PROVE  CopyInv(d, n)'
  <2>1. SyncStill(d, n)
    <3>1. ASSUME NEW b \in conflicts'[d] \union refused'[d], b.note = n
          PROVE  \E a \in conflicts[d] \union refused[d] :
                    a.note = n /\ a.theirs = b.theirs
      BY <1>6, <1>8, <3>1 DEF m
    <3>2. DOMAIN accepted'[d] = {} /\ page'[d] = page[d] /\ ~Deleting(d, n)'
      BY <1>0, <1>2, <1>5, <1>6 DEF Phase, answerVars, Deleting
    <3> QED
      BY <1>0, <1>2, <1>9, <3>1, <3>2 DEF SyncStill, Phase
  <2>2. Coming(d, n) => Coming(d, n)'
    BY <1>2, <1>10 DEF Coming, Deleting
  <2>3. PulledInv(d, n)' /\ TakenInv(d, n)' /\ TheirsInv(d, n)'
    BY <1>10, <2>1, StillPulled
  <2>4. CASE n # m
    <3>1. LocalStill(d, n)
      BY <1>8, <2>4 DEF LocalStill, Free
    <3>2. Unanswered(d, n) => Unanswered(d, n)'
      BY <1>2, <1>5, <1>6, <2>4 DEF Unanswered, InRefused, m
    <3> QED
      BY <1>10, <2>1, <2>2, <3>1, <3>2, StillCopy
  <2>5. CASE n = m
    <3>1. CASE local'[d][m] = local[d][m] /\ ~Has(d, m) /\ conflicts'[d] = conflicts[d]
      <4>1. LocalStill(d, n)
        BY <2>5, <3>1 DEF LocalStill, Free
      <4> QED
        BY <1>10, <2>1, <2>2, <2>5, <3>1, <4>1, StillCopy
    <3>2. CASE /\ local'[d][m] # None /\ local'[d][m].status = "pending"
               /\ local'[d][m].base >= 1
      <4>1. CleanInv(d, n)' /\ StatusInv(d, n)' /\ BaselessInv(d, n)'
        BY <2>5, <3>2 DEF CleanInv, Clean, StatusInv, BaselessInv, Has
      <4> QED
        BY <2>3, <4>1 DEF CopyInv
    <3>3. CASE /\ local'[d][m] # None => local'[d][m].status = "conflict"
               /\ \E x : /\ x.note = m /\ x.theirs = c.theirs
                         /\ conflicts'[d] = conflicts[d] \union {x}
      <4>1. ~Free(d, n)'
        BY <2>5, <3>3 DEF Free
      <4>2. CleanInv(d, n)' /\ StatusInv(d, n)' /\ BaselessInv(d, n)'
        BY <2>5, <3>3, <4>1 DEF CleanInv, Clean, Free, StatusInv, BaselessInv, Has
      <4> QED
        BY <2>3, <4>2 DEF CopyInv
    <3> QED
      BY <1>8, <3>1, <3>2, <3>3
  <2> QED
    BY <2>4, <2>5
<1> QED
  BY <1>11, <1>12, <1>13 DEF CopyGood

(* The answer to a pull: what was past the cursor is in it. *)
LEMMA HandlePullCopies ==
    ASSUME SyncInv, SyncInv', CopiesInv, NEW d \in Device, HandlePull(d)
    PROVE  CopyGood(d)
<1>0. /\ Shapes /\ DeviceTypes(d) /\ Phase(d) /\ ServerTypeOK
      /\ \A n \in Note : NoteInv(d, n)
  BY InvParts
<1>1. PICK r \in 0..lastRev :
         /\ \A c \in changes : c.rev <= r
         /\ r = 0 \/ \E c \in changes : c.rev = r
         /\ page' = [page EXCEPT ![d] =
              [notes |-> [n \in {m \in LoggedPast(d) : HasRow(m)} |-> RemoteOf(rows[n])],
               deletes |-> {n \in LoggedPast(d) : ~HasRow(n)},
               revision |-> r]]
  BY DEF HandlePull
<1>2. /\ step[d] = "pull" /\ step' = [step EXCEPT ![d] = "pulled"]
      /\ UNCHANGED <<serverVars, local, conflicts, cursor, sent, answerVars, refused>>
  BY DEF HandlePull, Goto
<1>3. /\ step'[d] = "pulled"
      /\ page'[d] =
            [notes |-> [n \in {m \in LoggedPast(d) : HasRow(m)} |-> RemoteOf(rows[n])],
             deletes |-> {n \in LoggedPast(d) : ~HasRow(n)},
             revision |-> r]
  BY <1>0, <1>1, <1>2 DEF Shapes
<1>4. /\ page'[d].deletes = {n \in LoggedPast(d) : ~HasRow(n)}
      /\ page'[d].revision = r
      /\ DOMAIN page'[d].notes = {n \in LoggedPast(d) : HasRow(n)}
      /\ \A n \in DOMAIN page'[d].notes : page'[d].notes[n] = RemoteOf(rows[n])
  BY <1>3
<1>5. UpTo(d)' = r /\ UpTo(d) = cursor[d]
  BY <1>2, <1>3, <1>4 DEF UpTo, Pulling
<1>6. /\ ServerMoves /\ CursorInv(d)
      /\ \A n \in Note : /\ CopyInv(d, n) /\ NoteSame(n) /\ Version(n)' = Version(n)
                         /\ \A u : LoggedAfter(n, u) => LoggedAfter(n, u)'
                         /\ \A q : Copy(n, q) => Copy(n, q)'
                         /\ \A q : Is(n, q) => Is(n, q)'
  BY <1>2, ServerStill
<1>7. CursorInv(d)'
  <2>1. Logged(r) /\ Logged(cursor[d]) /\ cursor[d] <= r
    BY <1>1, <1>6, CursorTypes DEF CursorInv, Logged
  <2>2. Logged(cursor[d])'
    BY <1>2, <2>1 DEF Logged, serverVars
  <2>3. Logged(page[d].revision)' /\ cursor'[d] <= page'[d].revision
    BY <1>2, <1>4, <2>1 DEF Logged, serverVars
  <2> QED
    BY <2>2, <2>3 DEF CursorInv
<1>8. Authors(d)
  BY <1>2 DEF Authors, Claims, Has
<1>9. ASSUME NEW n \in Note
      PROVE  CopyInv(d, n)'
  <2>1. (Free(d, n)' <=> Free(d, n)) /\ (Has(d, n)' <=> Has(d, n))
        /\ (Clean(d, n)' <=> Clean(d, n)) /\ local'[d][n] = local[d][n]
    BY <1>2 DEF Free, Has, Clean
  <2>2. Coming(d, n) => n \in LoggedPast(d)
    BY <1>0, <1>2, <1>5 DEF Coming, Ahead, LoggedAfter, Deleting, Phase, LoggedPast
  <2>3. n \in LoggedPast(d) => Coming(d, n)'
    BY <1>3, <1>4 DEF Coming, Deleting
  <2>4. CleanInv(d, n)'
    <3>1. Copy(n, local[d][n]) => Copy(n, local[d][n])'
      <4>1. PICK q : q = local[d][n]
        OBVIOUS
      <4> QED
        BY <1>6, <2>1, <4>1 DEF Copy
    <3> QED
      BY <1>6, <2>1, <2>2, <2>3, <3>1 DEF CleanInv, CopyInv
  <2>5. PulledInv(d, n)'
    <3>1. n \in LoggedPast(d) => LoggedAfter(n, cursor[d])'
      BY <1>2 DEF LoggedPast, LoggedAfter, serverVars
    <3>2. Deleting(d, n)' => ~HasRow(n)' /\ n \in LoggedPast(d)
      BY <1>4, <1>6 DEF Deleting, NoteSame
    <3>3. ASSUME n \in DOMAIN page'[d].notes
          PROVE  /\ Is(n, page[d].notes[n])' /\ Copy(n, page[d].notes[n])'
                 /\ n \in LoggedPast(d)
      <4>1. PICK t : t = RemoteOf(rows[n])
        OBVIOUS
      <4>2. HasRow(n) /\ page'[d].notes[n] = t /\ n \in LoggedPast(d)
        BY <1>4, <3>3, <4>1
      <4>3. SameSide(t, rows[n])
        BY <4>1 DEF RemoteOf, SameSide
      <4>4. t \in Remote
        BY <3>3, <4>2 DEF SyncInv, DeviceInv, DeviceTypes, NoteMap
      <4>5. Is(n, t) /\ Copy(n, t)
        BY <4>2, <4>3, <4>4, IsCopy DEF Is
      <4>6. Is(n, t)' /\ Copy(n, t)'
        BY <1>6, <4>5
      <4> QED
        BY <4>2, <4>6 DEF Is, Copy
    <3> QED
      BY <3>1, <3>2, <3>3 DEF PulledInv
  <2>6. TakenInv(d, n)'
    BY <1>0, <1>2 DEF TakenInv, Phase, answerVars
  <2>7. TheirsInv(d, n)'
    <3> SUFFICES ASSUME NEW c \in conflicts[d] \union refused[d], c.note = n,
                        c.theirs.version = Version(n)'
                 PROVE  Copy(n, c.theirs)'
      BY <1>2 DEF TheirsInv
    <3> QED
      BY <1>6, TheirsStay DEF CopyInv
  <2>8. StatusInv(d, n)'
    BY <1>6, <2>1 DEF StatusInv, CopyInv
  <2>9. BaselessInv(d, n)'
    <3>1. ~Unanswered(d, n)
      BY <1>2 DEF Unanswered
    <3> QED
      BY <1>6, <2>1, <3>1 DEF BaselessInv, CopyInv
  <2> QED
    BY <2>4, <2>5, <2>6, <2>7, <2>8, <2>9 DEF CopyInv
<1> QED
  BY <1>7, <1>8, <1>9 DEF CopyGood


LEMMA DeletesCopies ==
    ASSUME SyncInv, SyncInv', CopiesInv, NEW d \in Device, ApplyRemoteDeletes(d)
    PROVE  CopyGood(d)
<1>0. /\ Shapes /\ DeviceTypes(d) /\ Phase(d)
  BY InvParts
<1>1. /\ step[d] = "pulled" /\ step' = [step EXCEPT ![d] = "merge"]
      /\ local' = [local EXCEPT ![d] = [n \in Note |->
            IF n \in page[d].deletes /\ Has(d, n) /\ local[d][n].status = "synced"
            THEN None ELSE local[d][n]]]
      /\ UNCHANGED <<serverVars, conflicts, cursor, sent, answerVars, refused, page>>
  BY DEF ApplyRemoteDeletes, Goto
<1>2. /\ step'[d] = "merge"
      /\ \A n \in Note : local'[d][n] =
            IF n \in page[d].deletes /\ Has(d, n) /\ local[d][n].status = "synced"
            THEN None ELSE local[d][n]
  BY <1>0, <1>1 DEF Shapes
<1>3. UpTo(d)' = UpTo(d) /\ UpTo(d) \in Nat /\ UpTo(d)' <= UpTo(d)
  BY <1>1, <1>2, CursorTypes DEF UpTo, Pulling
<1>4. /\ ServerMoves /\ CursorInv(d)
      /\ \A n \in Note : /\ CopyInv(d, n) /\ NoteSame(n) /\ Version(n)' = Version(n)
                         /\ Ahead(d, n) => Ahead(d, n)'
  BY <1>1, <1>3, ServerStill
<1>5. CursorInv(d)'
  BY <1>1, <1>4, StillCursor DEF Pulling
<1>6. Authors(d)
  BY <1>1, <1>2 DEF Authors, Claims, Has
<1>7. ASSUME NEW n \in Note
      PROVE  CopyInv(d, n)'
  <2>0. (Free(d, n)' <=> Free(d, n)) /\ ~Deleting(d, n)' /\ page' = page
    BY <1>1, <1>2 DEF Free, Deleting
  <2>1. SyncStill(d, n)
    BY <1>0, <1>1, <1>3, <2>0 DEF SyncStill, Phase, answerVars
  <2>2. PulledInv(d, n)' /\ TakenInv(d, n)' /\ TheirsInv(d, n)'
    BY <1>4, <2>1, StillPulled
  <2>3. CASE n \in page[d].deletes
    <3>1. CleanInv(d, n)'
      <4>1. Clean(d, n)' => local'[d][n] = None
        BY <1>2, <2>3 DEF Clean, Has
      <4>2. Ahead(d, n) \/ ~HasRow(n)
        BY <1>1, <1>4, <2>3 DEF CopyInv, PulledInv, Deleting
      <4> QED
        BY <1>4, <4>1, <4>2 DEF CleanInv, Coming, Copy, NoteSame
    <3>2. StatusInv(d, n)'
      BY <1>2, <1>4, <2>0 DEF StatusInv, CopyInv, Has
    <3>3. BaselessInv(d, n)'
      <4>1. Has(d, n)' => Has(d, n) /\ local'[d][n] = local[d][n]
        BY <1>2 DEF Has
      <4>2. ~Unanswered(d, n)
        BY <1>1 DEF Unanswered
      <4> QED
        BY <1>4, <2>0, <4>1, <4>2 DEF BaselessInv, CopyInv
    <3> QED
      BY <2>2, <3>1, <3>2, <3>3 DEF CopyInv
  <2>4. CASE n \notin page[d].deletes
    <3>1. LocalStill(d, n)
      BY <1>2, <2>0, <2>4 DEF LocalStill
    <3>2. Coming(d, n) => Coming(d, n)'
      BY <1>4, <2>0, <2>4 DEF Coming, Deleting
    <3>3. ~Unanswered(d, n)
      BY <1>1 DEF Unanswered
    <3> QED
      BY <1>4, <2>1, <3>1, <3>2, <3>3, StillCopy
  <2> QED
    BY <2>3, <2>4
<1> QED
  BY <1>5, <1>6, <1>7 DEF CopyGood

LEMMA ReadLocalCopies ==
    ASSUME SyncInv, SyncInv', CopiesInv, NEW d \in Device, ReadLocal(d)
    PROVE  CopyGood(d)
<1>0. /\ Shapes /\ DeviceTypes(d) /\ Phase(d)
  BY InvParts
<1>1. /\ step[d] = "merge" /\ step' = [step EXCEPT ![d] = "put"]
      /\ UNCHANGED <<serverVars, local, conflicts, cursor, sent, answerVars, refused,
                     page>>
  BY DEF ReadLocal, Goto
<1>2. step'[d] = "put"
  BY <1>0, <1>1 DEF Shapes
<1>3. UpTo(d)' = UpTo(d) /\ UpTo(d) \in Nat /\ UpTo(d)' <= UpTo(d)
  BY <1>1, <1>2, CursorTypes DEF UpTo, Pulling
<1>4. /\ ServerMoves /\ CursorInv(d)
      /\ \A n \in Note : /\ CopyInv(d, n) /\ Version(n)' = Version(n)
                         /\ Ahead(d, n) => Ahead(d, n)'
  BY <1>1, <1>3, ServerStill
<1>5. CursorInv(d)'
  BY <1>1, <1>4, StillCursor DEF Pulling
<1>6. Authors(d)
  BY <1>1 DEF Authors, Claims, Has
<1>7. ASSUME NEW n \in Note
      PROVE  CopyInv(d, n)'
  <2>1. LocalStill(d, n) /\ ~Deleting(d, n)'
    BY <1>1, <1>2 DEF LocalStill, Free, Deleting
  <2>2. SyncStill(d, n) /\ (Coming(d, n) => Coming(d, n)')
    BY <1>0, <1>1, <1>3, <1>4, <2>1
       DEF SyncStill, Phase, answerVars, Coming, Deleting
  <2>3. ~Unanswered(d, n)
    BY <1>1 DEF Unanswered
  <2> QED
    BY <1>4, <2>1, <2>2, <2>3, StillCopy
<1> QED
  BY <1>5, <1>6, <1>7 DEF CopyGood

(* A merge makes the record the server's, moves it on over a version the server
   has, or leaves it to its conflict. *)
Settled(d, n, t) ==
    /\ \A m \in Note : m # n => local'[d][m] = local[d][m]
    /\ \/ local'[d][n] = Synced(t) /\ conflicts'[d] = conflicts[d]
       \/ /\ Has(d, n) /\ local'[d][n] = local[d][n] /\ conflicts'[d] = conflicts[d]
          /\ local[d][n].status # "synced"
       \/ /\ Has(d, n) /\ local'[d][n] # None /\ local'[d][n].status = "pending"
          /\ local'[d][n].base = t.version /\ conflicts'[d] = conflicts[d]
       \/ /\ Has(d, n) /\ local'[d][n] # None /\ local'[d][n].status = "conflict"
          /\ \E x : /\ x.note = n /\ x.theirs = t
                    /\ conflicts'[d] = conflicts[d] \union {x}

LEMMA MergeSettles ==
    ASSUME SyncInv, NEW d \in Device, MergeRemoteNote(d)
    PROVE  Settled(d, reading[d].note, page[d].notes[reading[d].note])
<1>n. PICK n, t : n = reading[d].note /\ t = page[d].notes[reading[d].note]
  OBVIOUS
<1>0. /\ Shapes /\ DeviceTypes(d)
  BY InvParts
<1>1. n \in Note /\ n \in DOMAIN page[d].notes /\ t \in Remote
      /\ reading[d].seen = local[d][n]
  BY <1>n, MergeFacts DEF MergeRemoteNote, historyVars
<1>2. \/ MergeClean(d, n, local[d][n], t) \/ MergeOwn(d, n, local[d][n], t)
      \/ MergeDiverged(d, n, local[d][n], t) \/ MergeLater(d, n, local[d][n], t)
  BY <1>n, <1>1 DEF MergeRemoteNote
<1>3. ASSUME MergeClean(d, n, local[d][n], t)
      PROVE  Settled(d, n, t)
  BY <1>0, <1>1, <1>3, PutEffect DEF MergeClean, Settled, Shapes
<1>4. ASSUME MergeLater(d, n, local[d][n], t)
      PROVE  Settled(d, n, t)
  BY <1>4 DEF MergeLater, Settled, Has
<1>5. ASSUME MergeOwn(d, n, local[d][n], t)
      PROVE  Settled(d, n, t)
  <2>1. /\ Has(d, n) /\ local[d][n].status = "pending" /\ conflicts' = conflicts
        /\ IF t.version > local[d][n].base
           THEN Put(d, n, [local[d][n] EXCEPT !.base = t.version])
           ELSE local' = local
    BY <1>5 DEF MergeOwn, Diverged, Has
  <2>2. CASE ~(t.version > local[d][n].base)
    BY <2>1, <2>2 DEF Settled
  <2>3. CASE t.version > local[d][n].base
    <3>1. PICK r : r = [local[d][n] EXCEPT !.base = t.version]
      OBVIOUS
    <3>2. local[d][n] \in LocalNote /\ t.version \in Nat
      BY <1>0, <1>1, <2>1 DEF DeviceTypes, Has, Remote
    <3>3. r \in LocalNote /\ r.status = "pending" /\ r.base = t.version
      BY <2>1, <3>1, <3>2 DEF LocalNote
    <3>4. /\ local'[d][n] = r
          /\ \A m \in Note \ {n} : local'[d][m] = local[d][m]
      BY <1>0, <1>1, <2>1, <2>3, <3>1, PutEffect DEF Shapes
    <3>5. r # None
      BY <3>3
    <3> QED
      BY <2>1, <3>3, <3>4, <3>5 DEF Settled
  <2> QED
    BY <2>2, <2>3
<1>6. ASSUME MergeDiverged(d, n, local[d][n], t)
      PROVE  Settled(d, n, t)
  <2>1. PICK c : c = [note |-> n, reason |-> "remote_changed",
                      mine |-> Side(local[d][n]), theirs |-> t]
    OBVIOUS
  <2>2. Has(d, n) /\ SaveConflict(d, c)
    BY <1>6, <2>1 DEF MergeDiverged, Diverged, Has
  <2>3. local[d][n] \in LocalNote
    BY <1>0, <1>1, <2>2 DEF DeviceTypes, Has
  <2>4. Side(local[d][n]) \in [content : Content, life : Life]
    BY <2>3 DEF Side, LocalNote
  <2>5. c \in Conflict /\ c.note = n /\ c.theirs = t
    BY <1>1, <2>1, <2>4 DEF Conflict
  <2>6. /\ \A m \in Note : m # n => local'[d][m] = local[d][m]
        /\ Has(d, n)' /\ local'[d][n].status = "conflict"
        /\ \E x : Stored(d, c, x) /\ conflicts'[d] = conflicts[d] \union {x}
    BY <1>0, <2>2, <2>5, SaveConflictEffect
  <2>7. \E x : x.note = n /\ x.theirs = t /\ conflicts'[d] = conflicts[d] \union {x}
    BY <2>5, <2>6 DEF Stored
  <2> QED
    BY <2>2, <2>6, <2>7 DEF Settled, Has
<1> QED
  BY <1>n, <1>2, <1>3, <1>4, <1>5, <1>6

LEMMA MergeCopies ==
    ASSUME SyncInv, SyncInv', CopiesInv, NEW d \in Device, MergeRemoteNote(d)
    PROVE  CopyGood(d)
<1>n. PICK n, t : n = reading[d].note /\ t = page[d].notes[reading[d].note]
  OBVIOUS
<1> DEFINE rest == [m \in DOMAIN page[d].notes \ {n} |-> page[d].notes[m]]
<1>0. /\ Shapes /\ DeviceTypes(d) /\ Phase(d)
  BY InvParts
<1>1. /\ step[d] = "put"
      /\ page' = [page EXCEPT ![d].notes = rest]
      /\ step' = [step EXCEPT ![d] = "merge"]
      /\ UNCHANGED <<serverVars, cursor, sent, answerVars, refused, dropped>>
  BY <1>n DEF MergeRemoteNote, Goto, historyVars
<1>2. Settled(d, n, t)
  BY <1>n, MergeSettles
<1>3. /\ n \in Note /\ n \in DOMAIN page[d].notes /\ t = page[d].notes[n]
      /\ t \in Remote /\ Known(n, t)
  BY <1>n, <1>1, MergeFacts
<1> HIDE DEF rest
<1>4. DOMAIN rest = DOMAIN page[d].notes \ {n}
      /\ \A m \in DOMAIN rest : rest[m] = page[d].notes[m]
  BY DEF rest
<1>5. page'[d] = [page[d] EXCEPT !.notes = rest] /\ step'[d] = "merge"
  BY <1>0, <1>1 DEF Shapes
<1>6. /\ page'[d].revision = page[d].revision
      /\ DOMAIN page'[d].notes \subseteq DOMAIN rest
      /\ \A m \in DOMAIN page'[d].notes : page'[d].notes[m] = rest[m]
  BY <1>5
<1>7. \A m \in DOMAIN page[d].notes : m # n => m \in DOMAIN page'[d].notes
  <2>1. page[d].notes = page[d].notes /\ DOMAIN page'[d] = DOMAIN page[d]
    BY <1>5
  <2> QED
    BY <1>4, <1>5, <2>1
<1>8. UpTo(d)' = UpTo(d) /\ UpTo(d) \in Nat /\ UpTo(d)' <= UpTo(d)
  BY <1>1, <1>5, <1>6, CursorTypes DEF UpTo, Pulling
<1>9. /\ ServerMoves /\ CursorInv(d)
      /\ \A m \in Note : /\ CopyInv(d, m) /\ NoteSame(m) /\ Version(m)' = Version(m)
                         /\ Ahead(d, m) => Ahead(d, m)'
                         /\ \A r : Copy(m, r) => Copy(m, r)'
  BY <1>1, <1>8, ServerStill
<1>10. CursorInv(d)'
  BY <1>1, <1>5, <1>6, <1>9, StillCursor DEF Pulling
<1>11. Authors(d)
  <2> SUFFICES ASSUME NEW m \in Note, Version(m)' = 0, Claims(d, m)'
               PROVE  Claims(d, m)
    BY DEF Authors
  <2>1. Version(n) # 0
    BY <1>3 DEF Known, Seen, Remote
  <2>2. m # n
    BY <1>3, <1>9, <2>1
  <2> QED
    BY <1>1, <1>2, <2>2 DEF Settled, Claims, Has
<1>12. ASSUME NEW m \in Note, m # n
       PROVE  CopyInv(d, m)'
  <2>1. LocalStill(d, m) /\ ~Deleting(d, m)'
    BY <1>2, <1>5, <1>12 DEF Settled, LocalStill, Free, Deleting
  <2>2. \A c \in conflicts'[d] : c.note = m => c \in conflicts[d]
    BY <1>2, <1>12 DEF Settled
  <2>3. SyncStill(d, m)
    BY <1>0, <1>1, <1>4, <1>6, <1>8, <2>1, <2>2 DEF SyncStill, Phase, answerVars
  <2>4. Coming(d, m) => Coming(d, m)'
    BY <1>1, <1>7, <1>9, <1>12 DEF Coming, Deleting
  <2>5. ~Unanswered(d, m)
    BY <1>1 DEF Unanswered
  <2> QED
    BY <1>9, <2>1, <2>3, <2>4, <2>5, StillCopy
<1>13. CopyInv(d, n)'
  <2>0. t.version \in Nat /\ t.version >= 1
    BY <1>3 DEF Known, Remote
  <2>1. PulledInv(d, n)' /\ TakenInv(d, n)'
    BY <1>0, <1>1, <1>4, <1>5, <1>6 DEF PulledInv, TakenInv, Deleting, Phase, answerVars
  <2>2. TheirsInv(d, n)'
    <3> SUFFICES ASSUME NEW c \in conflicts'[d] \union refused[d], c.note = n,
                        c.theirs.version = Version(n)'
                 PROVE  Copy(n, c.theirs)'
      BY <1>1 DEF TheirsInv
    <3>1. c \in conflicts[d] \union refused[d] \/ c.theirs = t
      BY <1>2 DEF Settled
    <3>2. CASE c.theirs = t
      BY <1>3, <1>9, <3>2 DEF CopyInv, PulledInv
    <3>3. CASE c \in conflicts[d] \union refused[d]
      BY <1>3, <1>9, <3>3, TheirsStay DEF CopyInv
    <3> QED
      BY <3>1, <3>2, <3>3
  <2>3. CASE local'[d][n] = Synced(t)
    <3>1. Synced(t).base = t.version /\ Synced(t).status = "synced"
      BY DEF Synced
    <3>2. Ahead(d, n) \/ Copy(n, Synced(t))
      <4>1. t # None
        BY <1>3
      <4>2. Ahead(d, n) \/ Is(n, t)
        BY <1>3, <1>9 DEF CopyInv, PulledInv
      <4> QED
        BY <1>3, <4>1, <4>2, IsCopy, SyncedCopy
    <3>3. PICK r : r = Synced(t)
      OBVIOUS
    <3>4. Ahead(d, n)' \/ Copy(n, r)'
      BY <1>3, <1>9, <3>2, <3>3
    <3>5. CleanInv(d, n)'
      BY <2>3, <3>3, <3>4 DEF CleanInv, Coming, Copy
    <3>6. StatusInv(d, n)' /\ BaselessInv(d, n)'
      BY <2>0, <2>3, <3>1 DEF StatusInv, BaselessInv
    <3> QED
      BY <2>1, <2>2, <3>5, <3>6 DEF CopyInv
  <2>4. CASE /\ Has(d, n) /\ local'[d][n] = local[d][n] /\ conflicts'[d] = conflicts[d]
             /\ local[d][n].status # "synced"
    <3>1. CleanInv(d, n)'
      BY <2>4 DEF CleanInv, Clean, Has
    <3>2. StatusInv(d, n)' /\ BaselessInv(d, n)'
      BY <1>1, <1>3, <1>9, <2>4
         DEF StatusInv, BaselessInv, CopyInv, Free, Has, Unanswered
    <3> QED
      BY <2>1, <2>2, <3>1, <3>2 DEF CopyInv
  <2>5. CASE /\ Has(d, n) /\ local'[d][n] # None /\ local'[d][n].status = "pending"
             /\ local'[d][n].base = t.version /\ conflicts'[d] = conflicts[d]
    <3>1. CleanInv(d, n)' /\ StatusInv(d, n)' /\ BaselessInv(d, n)'
      BY <2>0, <2>5 DEF CleanInv, Clean, Has, StatusInv, BaselessInv
    <3> QED
      BY <2>1, <2>2, <3>1 DEF CopyInv
  <2>6. CASE /\ Has(d, n) /\ local'[d][n] # None /\ local'[d][n].status = "conflict"
             /\ \E x : /\ x.note = n /\ x.theirs = t
                       /\ conflicts'[d] = conflicts[d] \union {x}
    <3>1. ~Free(d, n)'
      BY <2>6 DEF Free
    <3>2. CleanInv(d, n)' /\ StatusInv(d, n)' /\ BaselessInv(d, n)'
      BY <2>6, <3>1 DEF CleanInv, Clean, Has, StatusInv, BaselessInv
    <3> QED
      BY <2>1, <2>2, <3>2 DEF CopyInv
  <2> QED
    BY <1>2, <2>3, <2>4, <2>5, <2>6 DEF Settled
<1> QED
  BY <1>10, <1>11, <1>12, <1>13 DEF CopyGood


(* The cursor moves to the page's revision when all of the page is settled. *)
LEMMA CursorCopies ==
    ASSUME SyncInv, SyncInv', CopiesInv, NEW d \in Device, SaveCursor(d)
    PROVE  CopyGood(d)
<1>0. /\ Shapes /\ DeviceTypes(d) /\ Phase(d)
  BY InvParts
<1>1. /\ step[d] = "merge" /\ DOMAIN page[d].notes = {}
      /\ cursor' = [cursor EXCEPT ![d] = page[d].revision]
      /\ page' = [page EXCEPT ![d] = NoPage]
      /\ step' = [step EXCEPT ![d] = "idle"]
      /\ UNCHANGED <<serverVars, local, conflicts, sent, answerVars, refused>>
  BY DEF SaveCursor, Goto
<1>2. /\ cursor'[d] = page[d].revision /\ page'[d] = NoPage /\ step'[d] = "idle"
  BY <1>0, <1>1 DEF Shapes
<1>3. DOMAIN page'[d].notes = {}
  BY <1>2 DEF NoPage, Nothing
<1>4. UpTo(d)' = UpTo(d) /\ UpTo(d) \in Nat /\ UpTo(d)' <= UpTo(d)
  BY <1>1, <1>2, CursorTypes DEF UpTo, Pulling
<1>5. /\ ServerMoves /\ CursorInv(d)
      /\ \A n \in Note : /\ CopyInv(d, n) /\ Version(n)' = Version(n)
                         /\ Ahead(d, n) => Ahead(d, n)'
  BY <1>1, <1>4, ServerStill
<1>6. CursorInv(d)'
  <2>1. Logged(page[d].revision)
    BY <1>1, <1>5 DEF CursorInv, Pulling
  <2> QED
    BY <1>1, <1>2, <2>1 DEF CursorInv, Pulling, Logged, serverVars
<1>7. Authors(d)
  BY <1>1 DEF Authors, Claims, Has
<1>8. ASSUME NEW n \in Note
      PROVE  CopyInv(d, n)'
  <2>1. LocalStill(d, n) /\ ~Deleting(d, n)' /\ ~Deleting(d, n)
    BY <1>1, <1>2 DEF LocalStill, Free, Deleting
  <2>2. SyncStill(d, n) /\ (Coming(d, n) => Coming(d, n)')
    BY <1>0, <1>1, <1>3, <1>4, <1>5, <2>1 DEF SyncStill, Phase, answerVars, Coming
  <2>3. ~Unanswered(d, n)
    BY <1>1 DEF Unanswered
  <2> QED
    BY <1>5, <2>1, <2>2, <2>3, StillCopy
<1> QED
  BY <1>6, <1>7, <1>8 DEF CopyGood

(* A pull that is given up is pulled again. *)
LEMMA AbortCopies ==
    ASSUME SyncInv, SyncInv', CopiesInv, NEW d \in Device, Abort(d)
    PROVE  CopyGood(d)
<1>0. /\ Shapes /\ DeviceTypes(d) /\ Phase(d)
  BY InvParts
<1>1. /\ sent' = [sent EXCEPT ![d] = Nothing]
      /\ accepted' = [accepted EXCEPT ![d] = Nothing]
      /\ refused' = [refused EXCEPT ![d] = {}]
      /\ page' = [page EXCEPT ![d] = NoPage]
      /\ step' = [step EXCEPT ![d] = "idle"]
      /\ UNCHANGED <<serverVars, local, conflicts, cursor>>
  BY DEF Abort, Goto
<1>2. /\ DOMAIN sent'[d] = {} /\ DOMAIN accepted'[d] = {} /\ refused'[d] = {}
      /\ DOMAIN page'[d].notes = {} /\ step'[d] = "idle"
  BY <1>0, <1>1 DEF Shapes, Nothing, NoPage
<1>3. /\ UpTo(d)' = cursor[d] /\ UpTo(d) \in Nat /\ cursor[d] \in Nat
  BY <1>1, <1>2, CursorTypes DEF UpTo, Pulling
<1>4. UpTo(d)' <= UpTo(d)
  BY <1>3, CopyParts DEF CursorInv, UpTo
<1>5. /\ ServerMoves /\ CursorInv(d)
      /\ \A n \in Note : /\ CopyInv(d, n) /\ Version(n)' = Version(n)
                         /\ Ahead(d, n) => Ahead(d, n)'
                         /\ \A u : LoggedAfter(n, u) => LoggedAfter(n, u)'
  BY <1>1, <1>4, ServerStill
<1>6. CursorInv(d)'
  BY <1>1, <1>2, <1>5, StillCursor DEF Pulling
<1>7. Authors(d)
  BY <1>1, <1>2 DEF Authors, Claims, Has
<1>8. ASSUME NEW n \in Note
      PROVE  CopyInv(d, n)'
  <2>1. LocalStill(d, n) /\ ~Deleting(d, n)'
    BY <1>1, <1>2 DEF LocalStill, Free, Deleting
  <2>2. SyncStill(d, n)
    BY <1>1, <1>2, <1>4, <2>1 DEF SyncStill
  <2>3. Coming(d, n) => Coming(d, n)'
    <3>1. n \in DOMAIN page[d].notes \/ Deleting(d, n) => Ahead(d, n)'
      <4>1. n \in DOMAIN page[d].notes \/ Deleting(d, n) => LoggedAfter(n, cursor[d])
        BY <1>5 DEF CopyInv, PulledInv
      <4>2. LoggedAfter(n, cursor[d]) => Ahead(d, n)'
        BY <1>1, <1>3 DEF Ahead, LoggedAfter, serverVars
      <4> QED
        BY <4>1, <4>2
    <3> QED
      BY <1>5, <3>1 DEF Coming
  <2>4. Unanswered(d, n)'
    BY <1>2 DEF Unanswered
  <2> QED
    BY <1>5, <2>1, <2>2, <2>3, <2>4, StillCopy
<1> QED
  BY <1>6, <1>7, <1>8 DEF CopyGood

(***************************************************************************)
(* The copies as a whole.                                                  *)
(***************************************************************************)
(* A step of a device moves the server on, and gives a first version only to
   a note of its own. *)
LEMMA DeviceMoves ==
    ASSUME SyncInv, NEW d \in Device, UserStep(d) \/ SyncStep(d) \/ Abort(d)
    PROVE  /\ ServerMoves
           /\ \A n \in Note : Version(n) = 0 /\ ~Claims(d, n) => Version(n)' = 0
<1>1. CASE UNCHANGED serverVars
  BY <1>1, SameMoves DEF NoteSame
<1>2. CASE HandlePush(d)
  <2>1. /\ ServerMoves
        /\ \A n \in Note \ Written(Batched(sent[d])) : NoteSame(n)
    BY <1>2, PushMoves DEF HandlePush
  <2>2. Written(Batched(sent[d])) \subseteq DOMAIN sent[d]
    BY BatchedFacts DEF Written
  <2> QED
    BY <2>1, <2>2 DEF NoteSame, Claims
<1>3. CASE UserStep(d)
  <2>1. UNCHANGED serverVars
    BY <1>3 DEF UserStep, CreateBlankNote, UpdateNoteContent, TakeText, MoveNoteToTrash,
                RestoreNote, DeleteNote, ChangeLife, DeleteLocalOnly, ResolveConflict,
                KeepLocal, KeepRemote, DuplicateBoth, Resolved
  <2> QED
    BY <1>1, <2>1
<1>4. CASE \/ ReadPending(d) \/ RepairPending(d) \/ MarkAccepted(d) \/ HandleRefused(d)
           \/ HandlePull(d) \/ ApplyRemoteDeletes(d) \/ ReadLocal(d)
           \/ MergeRemoteNote(d) \/ SaveCursor(d) \/ Abort(d)
  <2>1. UNCHANGED serverVars
    BY <1>4 DEF ReadPending, RepairPending, MarkAccepted, HandleRefused, HandlePull,
                ApplyRemoteDeletes, ReadLocal, MergeRemoteNote, SaveCursor, Abort
  <2> QED
    BY <1>1, <2>1
<1> QED
  BY <1>2, <1>3, <1>4 DEF SyncStep

LEMMA VersionsGrow ==
    ASSUME SyncInv, SyncInv', ServerMoves, NEW n \in Note, Version(n)' = 0
    PROVE  Version(n) = 0
<1>1. Version(n) \in Nat
  BY VersionType DEF SyncInv, ServerInv
<1> QED
  BY <1>1 DEF ServerMoves, NoteSame, NoteMoved

LEMMA DeviceCopies ==
    ASSUME SyncInv, CopiesInv, Strict, NEW d \in Device,
           UserStep(d) \/ SyncStep(d) \/ Abort(d)
    PROVE  CopiesInv'
<1>1. Others(d) /\ SyncInv'
  BY DeviceStep DEF Strict, Good
<1>2. CopyGood(d)
  BY <1>1, UserCopies, ReadPendingCopies, RepairCopies, HandlePushCopies, MarkCopies,
     RefusedCopies, HandlePullCopies, DeletesCopies, ReadLocalCopies, MergeCopies,
     CursorCopies, AbortCopies DEF SyncStep
<1>3. /\ ServerMoves
      /\ \A n \in Note : Version(n) = 0 /\ ~Claims(d, n) => Version(n)' = 0
  BY DeviceMoves
<1>4. ASSUME NEW e \in Device \ {d}
      PROVE  CopyGood(e)
  <2>1. \A n \in Note : Has(e, n) /\ Version(n) = 0 => Version(n)' = 0
    BY <1>3 DEF CopiesInv, OneAuthor, Claims
  <2> QED
    BY <1>1, <1>3, <2>1, OtherCopies, CopyParts DEF Others
<1>5. ASSUME NEW n \in Note, Version(n)' = 0, NEW e \in Device, NEW f \in Device,
             Claims(e, n)', Claims(f, n)'
      PROVE  e = f
  <2>1. Version(n) = 0
    BY <1>1, <1>3, <1>5, VersionsGrow
  <2>2. \A g \in Device \ {d} : Claims(g, n)' => Claims(g, n)
    BY <1>1 DEF Others, SameDevice, Claims, Has
  <2>3. Claims(d, n)' => Claims(d, n) \/ Fresh(n)
    BY <1>2, <1>5 DEF CopyGood, Authors
  <2>4. Fresh(n) => \A g \in Device : ~Claims(g, n)
    BY DEF Fresh, Claims, Has
  <2>5. \A g, h \in Device : Claims(g, n) /\ Claims(h, n) => g = h
    BY <2>1 DEF CopiesInv, OneAuthor
  <2> QED
    BY <1>5, <2>2, <2>3, <2>4, <2>5
<1> QED
  BY <1>2, <1>4, <1>5 DEF CopiesInv, CopyGood, OneAuthor

LEMMA BesideCopies ==
    ASSUME SyncInv, SyncInv', CopiesInv, ServerMoves,
           \A e \in Device : SameDevice(e),
           \A n \in Note : Version(n) = 0 => Version(n)' = 0
    PROVE  CopiesInv'
<1>1. \A e \in Device : CopyGood(e)
  BY OtherCopies, CopyParts
<1>2. ASSUME NEW n \in Note, Version(n)' = 0, NEW e \in Device, NEW f \in Device,
             Claims(e, n)', Claims(f, n)'
      PROVE  e = f
  <2>1. Version(n) = 0
    BY <1>2, VersionsGrow
  <2> QED
    BY <1>2, <2>1 DEF SameDevice, Claims, Has, CopiesInv, OneAuthor
<1> QED
  BY <1>1, <1>2 DEF CopiesInv, CopyGood, OneAuthor

LEMMA CopiesNext ==
    ASSUME SyncInv, CopiesInv, Strict, [SyncNext]_allVars
    PROVE  SyncInv' /\ CopiesInv'
<1>1. SyncInv'
  BY SyncInvNext DEF Strict
<1>2. CASE \E d \in Device : UserStep(d) \/ SyncStep(d) \/ Abort(d)
  BY <1>1, <1>2, DeviceCopies
<1>3. CASE Retention
  BY <1>1, <1>3, RetentionStep, RetentionMoves, BesideCopies
<1>4. CASE UNCHANGED allVars
  <2>1. UNCHANGED serverVars
    BY <1>4 DEF allVars
  <2>2. ServerMoves /\ \A n \in Note : Version(n)' = Version(n)
    BY <2>1, SameMoves DEF NoteSame
  <2> QED
    BY <1>1, <1>4, <2>2, StutterStep, BesideCopies
<1> QED
  BY <1>2, <1>3, <1>4 DEF SyncNext

LEMMA CopiesInit == SyncInit => CopiesInv
<1> SUFFICES ASSUME SyncInit PROVE CopiesInv
  OBVIOUS
<1>1. changes = {} /\ \A n \in Note : rows[n] = None
  BY DEF SyncInit, ServerInit
<1>2. ASSUME NEW d \in Device
      PROVE  CursorInv(d) /\ \A n \in Note : CopyInv(d, n) /\ ~Claims(d, n)
  <2>1. /\ \A n \in Note : local[d][n] = None
        /\ conflicts[d] = {} /\ cursor[d] = 0
        /\ step[d] = "idle" /\ DOMAIN sent[d] = {} /\ DOMAIN accepted[d] = {}
        /\ refused[d] = {} /\ DOMAIN page[d].notes = {}
    BY DEF SyncInit, Nothing, NoPage
  <2>2. CursorInv(d)
    BY <2>1 DEF CursorInv, Logged, Pulling
  <2>3. ASSUME NEW n \in Note
        PROVE  CopyInv(d, n) /\ ~Claims(d, n)
    <3>1. ~Has(d, n) /\ ~HasRow(n) /\ ~Deleting(d, n)
      BY <1>1, <2>1 DEF Has, HasRow, Deleting
    <3>2. CleanInv(d, n) /\ PulledInv(d, n)
      BY <2>1, <3>1 DEF CleanInv, Copy, PulledInv
    <3>3. TakenInv(d, n) /\ TheirsInv(d, n) /\ StatusInv(d, n) /\ BaselessInv(d, n)
      BY <2>1, <3>1 DEF TakenInv, TheirsInv, StatusInv, BaselessInv
    <3> QED
      BY <2>1, <3>1, <3>2, <3>3 DEF CopyInv, Claims
  <2> QED
    BY <2>2, <2>3
<1> QED
  BY <1>2 DEF CopiesInv, OneAuthor

(* The invariant of the copies holds in every state, if no window is open and
   no resolution comes late. *)
THEOREM CopiesInvariant ==
    ASSUME Strict
    PROVE  SyncSpec => [](SyncInv /\ CopiesInv)
<1>1. SyncInv /\ CopiesInv /\ [SyncNext]_allVars => (SyncInv /\ CopiesInv)'
  BY CopiesNext
<1>2. SyncInit => SyncInv /\ CopiesInv
  BY SyncInvInit, CopiesInit
<1> QED
  BY <1>1, <1>2, PTL DEF SyncSpec

(* A note marked as synced is what the server has of it, once the cursor is
   past every change of it: "synced" never hides a divergence that no later
   pull would repair (client/sync-store.ts, mergeRemoteNote and the marking of
   what a push accepted).  Only a conflict resolved for a remote side the
   server has since replaced breaks it, and the pull to come repairs that. *)
THEOREM SyncedIsServerCopy ==
    ASSUME Strict
    PROVE  SyncSpec => []SyncedMeansServerCopy
<1>1. ASSUME SyncInv, CopiesInv, NEW d \in Device, NEW n \in Note,
             Clean(d, n), UpToDate(d, n)
      PROVE  Copy(n, local[d][n])
  <2>1. CursorInv(d) /\ CopyInv(d, n)
    BY <1>1, CopyParts
  <2>2. ~LoggedAfter(n, cursor[d])
    BY <1>1, CursorTypes DEF UpToDate, LoggedAfter
  <2>3. ~LoggedAfter(n, UpTo(d))
    <3>1. cursor[d] <= UpTo(d)
      BY <1>1, <2>1, CursorTypes DEF CursorInv, UpTo
    <3> QED
      BY <1>1, <3>1, CursorTypes DEF UpToDate, LoggedAfter
  <2>4. ~Coming(d, n)
    BY <2>1, <2>2, <2>3 DEF Coming, Ahead, CopyInv, PulledInv
  <2> QED
    BY <1>1, <2>1, <2>4 DEF CopyInv, CleanInv
<1>2. SyncInv /\ CopiesInv => SyncedMeansServerCopy
  BY <1>1 DEF SyncedMeansServerCopy, Copy, Has
<1> QED
  BY <1>2, CopiesInvariant, PTL

(***************************************************************************)
(* Without closing any window.  A user's write may land between the read   *)
(* and the write of a sync; then, and only then, the sync takes something  *)
(* out of a note that waits.  For this no more is needed than what kind of *)
(* thing every variable holds (TypesInv): which records a step writes is   *)
(* read off the step.                                                      *)
(***************************************************************************)
HeldTypes(d) ==
    /\ DeviceTypes(d)
    /\ editor[d] = None /\ DOMAIN leaked[d] = {}
    /\ \A n \in DOMAIN sent[d] : sent[d][n].status = "pending"
    /\ DOMAIN accepted[d] \subseteq IF step[d] = "answered" THEN DOMAIN sent[d] ELSE {}
    /\ step[d] = "put" => /\ reading[d].note \in DOMAIN page[d].notes
                          /\ reading[d].seen \in LocalNote \union {None}

TypesInv == ServerInv /\ Shapes /\ \A d \in Device : HeldTypes(d)

Spared(d) ==
    \A n \in Note :
        /\ Has(d, n) /\ local[d][n].status # "synced" /\ ~Overtaken(d, n)
        /\ conflicts[d] \subseteq conflicts'[d]
        => local[d][n].content \subseteq dropped' \union
              IF Has(d, n)' THEN local'[d][n].content ELSE {}

Steps(d) == Shapes' /\ Others(d) /\ HeldTypes(d)' /\ Spared(d)

LEMMA SparedText ==
    ASSUME NEW d \in Device,
           \A n \in Note : /\ Has(d, n) /\ local[d][n].status # "synced"
                           /\ ~Overtaken(d, n)
                           => /\ Has(d, n)'
                              /\ local[d][n].content \subseteq local'[d][n].content
    PROVE  Spared(d)
BY DEF Spared

LEMMA HeldByOthers ==
    ASSUME TypesInv, NEW d \in Device, SameDevice(d), lastRev' \in Nat, lastRev' >= lastRev
    PROVE  HeldTypes(d)'
BY DEF TypesInv, ServerInv, ServerTypeOK, HeldTypes, DeviceTypes, SameDevice, Has

(* The user puts a record that has what was there. *)
LEMMA UserSteps ==
    ASSUME TypesInv, NEW d \in Device, NEW n \in Note,
           NEW r \in LocalNote \union {None}, Put(d, n, r),
           r # None => r.status # "synced",
           Has(d, n) => IF r = None THEN local[d][n].content \subseteq dropped'
                                    ELSE local[d][n].content \subseteq r.content,
           UNCHANGED <<serverVars, conflicts, cursor, saving, orphan, syncVars>>,
           DOMAIN editor' = Device, editor'[d] = None,
           \A e \in Device \ {d} : editor'[e] = editor[e]
    PROVE  Steps(d)
<1>0. /\ Shapes /\ HeldTypes(d) /\ DeviceTypes(d)
  BY DEF TypesInv, HeldTypes
<1>1. /\ DOMAIN local' = Device
      /\ local'[d][n] = r
      /\ \A m \in Note \ {n} : local'[d][m] = local[d][m]
      /\ \A e \in Device \ {d} : local'[e] = local[e]
      /\ local'[d] \in [Note -> LocalNote \union {None}]
  BY <1>0, PutEffect DEF Shapes
<1>3. Shapes' /\ Others(d)
  BY <1>0, <1>1 DEF Shapes, Others, SameDevice, syncVars
<1>4. DeviceTypes(d)'
  BY <1>0, <1>1 DEF DeviceTypes, Has, syncVars, serverVars
<1>5. HeldTypes(d)'
  BY <1>0, <1>4 DEF HeldTypes, syncVars
<1>6. Spared(d)
  BY <1>1 DEF Spared, Has
<1> QED
  BY <1>3, <1>5, <1>6 DEF Steps

LEMMA UserStepsAll ==
    ASSUME TypesInv, NEW d \in Device, NEW n \in Note, NEW e \in Edit,
           \/ CreateBlankNote(d, n, e) \/ UpdateNoteContent(d, n, e)
           \/ MoveNoteToTrash(d, n, e) \/ RestoreNote(d, n, e)
           \/ DeleteNote(d, n, e)
    PROVE  Steps(d) /\ UNCHANGED serverVars
<1>0. /\ DOMAIN editor = Device /\ editor[d] = None
      /\ local[d] \in [Note -> LocalNote \union {None}]
  BY DEF TypesInv, Shapes, HeldTypes, DeviceTypes
<1>1. CASE CreateBlankNote(d, n, e)
  <2> DEFINE r == [content |-> {e}, life |-> "active", version |-> 1,
                   base |-> 0, status |-> "pending"]
  <2>1. r \in LocalNote /\ r.status = "pending" /\ r # None
    BY DEF LocalNote, Status
  <2>2. Put(d, n, r) /\ ~Has(d, n)
    BY <1>1 DEF CreateBlankNote, Fresh, Has
  <2> HIDE DEF r
  <2>3. /\ UNCHANGED <<serverVars, conflicts, cursor, saving, orphan, syncVars>>
        /\ editor' = editor
    BY <1>1 DEF CreateBlankNote, editorVars
  <2> QED
    BY <1>0, <2>1, <2>2, <2>3, UserSteps
<1>2. ASSUME NEW life \in Life, Has(d, n),
             Put(d, n, Edited(local[d][n], local[d][n].content \union {e}, life)),
             UNCHANGED <<serverVars, conflicts, cursor, saving, orphan, syncVars>>,
             DOMAIN editor' = Device, editor'[d] = None,
             \A f \in Device \ {d} : editor'[f] = editor[f]
      PROVE  Steps(d) /\ UNCHANGED serverVars
  <2> DEFINE text == local[d][n].content \union {e}
             r == Edited(local[d][n], text, life)
  <2>1. local[d][n] \in LocalNote
    BY <1>0, <1>2 DEF Has
  <2>2. text \in Content
    BY <2>1 DEF LocalNote
  <2>3. r \in LocalNote /\ r.status = "pending" /\ r.content = text /\ r # None
    BY <2>1, <2>2, EditedFacts
  <2>4. local[d][n].content \subseteq r.content
    BY <2>3
  <2>5. Put(d, n, r)
    BY <1>2
  <2> HIDE DEF r
  <2> QED
    BY <1>2, <2>3, <2>4, <2>5, UserSteps
<1>3. CASE UpdateNoteContent(d, n, e)
  <2>1. Has(d, n) /\ TakeText(d, n, local[d][n], e) /\ saving' = saving
    BY <1>3 DEF UpdateNoteContent
  <2>2. local[d][n].life \in Life
    BY <1>0, <2>1 DEF Has, LocalNote
  <2>3. /\ Put(d, n, Edited(local[d][n], local[d][n].content \union {e}, local[d][n].life))
        /\ UNCHANGED <<serverVars, conflicts, cursor, orphan, syncVars>>
        /\ editor' = [editor EXCEPT ![d] = editor[d]]
    BY <1>0, <2>1 DEF TakeText
  <2> QED
    BY <1>0, <1>2, <2>1, <2>2, <2>3
<1>4. ASSUME NEW from, NEW to, ChangeLife(d, n, e, from, to)
      PROVE  Steps(d) /\ UNCHANGED serverVars
  <2>1. /\ Has(d, n) /\ to \in Life
        /\ Put(d, n, Edited(local[d][n], local[d][n].content \union {e}, to))
        /\ editor' = [editor EXCEPT ![d] = None]
        /\ UNCHANGED <<serverVars, conflicts, cursor, saving, orphan, syncVars>>
    BY <1>4 DEF ChangeLife
  <2> QED
    BY <1>0, <1>2, <2>1
<1> QED
  BY <1>1, <1>3, <1>4 DEF MoveNoteToTrash, RestoreNote, DeleteNote

LEMMA DeleteLocalSteps ==
    ASSUME TypesInv, NEW d \in Device, NEW n \in Note, DeleteLocalOnly(d, n)
    PROVE  Steps(d) /\ UNCHANGED serverVars
<1>1. /\ Has(d, n) /\ Put(d, n, None)
      /\ dropped' = dropped \union local[d][n].content
      /\ UNCHANGED <<serverVars, conflicts, cursor, editorVars, orphan, syncVars>>
  BY DEF DeleteLocalOnly
<1>2. DOMAIN editor = Device /\ editor[d] = None
  BY DEF TypesInv, Shapes, HeldTypes
<1> QED
  BY <1>1, <1>2, UserSteps DEF editorVars

(* A choice takes its conflict off the list: Spared asks nothing of it. *)
LEMMA ResolvedSteps ==
    ASSUME TypesInv, NEW d \in Device, NEW c \in conflicts[d],
           NEW r, DOMAIN r \subseteq Note,
           \A n \in DOMAIN r : /\ r[n] \in LocalNote
                               /\ r[n].status = "synced" => r[n].version = r[n].base,
           NEW gone, Resolved(d, c, r, gone)
    PROVE  Steps(d) /\ UNCHANGED serverVars
<1>0. Shapes /\ HeldTypes(d) /\ DeviceTypes(d)
  BY DEF TypesInv, HeldTypes
<1>1. /\ local' = [local EXCEPT ![d] = [n \in Note |->
                      IF n \in DOMAIN r THEN r[n] ELSE local[d][n]]]
      /\ conflicts' = [conflicts EXCEPT ![d] = @ \ {c}]
      /\ UNCHANGED <<serverVars, cursor, editorVars, orphan, syncVars, used>>
  BY DEF Resolved
<1>2. /\ DOMAIN local' = Device /\ DOMAIN conflicts' = Device
      /\ local'[d] = [n \in Note |-> IF n \in DOMAIN r THEN r[n] ELSE local[d][n]]
      /\ conflicts'[d] = conflicts[d] \ {c}
      /\ \A e \in Device \ {d} : local'[e] = local[e] /\ conflicts'[e] = conflicts[e]
  BY <1>0, <1>1 DEF Shapes
<1>3. Shapes' /\ Others(d)
  BY <1>0, <1>1, <1>2 DEF Shapes, Others, SameDevice, syncVars, editorVars
<1>4. DeviceTypes(d)'
  <2>1. local'[d] \in [Note -> LocalNote \union {None}]
    BY <1>0, <1>2 DEF DeviceTypes
  <2>2. \A n \in Note : Has(d, n)' /\ local'[d][n].status = "synced"
                           => local'[d][n].version = local'[d][n].base
    BY <1>0, <1>2 DEF DeviceTypes, Has
  <2> QED
    BY <1>0, <1>1, <1>2, <2>1, <2>2 DEF DeviceTypes, syncVars, serverVars
<1>5. HeldTypes(d)'
  BY <1>0, <1>1, <1>4 DEF HeldTypes, syncVars, editorVars
<1>6. Spared(d)
  BY <1>2 DEF Spared
<1> QED
  BY <1>1, <1>3, <1>5, <1>6 DEF Steps

LEMMA ResolveSteps ==
    ASSUME TypesInv, NEW d \in Device, ResolveConflict(d)
    PROVE  Steps(d) /\ UNCHANGED serverVars
<1>1. PICK c \in conflicts[d] :
         KeepLocal(d, c) \/ KeepRemote(d, c) \/ \E copy \in Note : DuplicateBoth(d, c, copy)
  BY DEF ResolveConflict
<1>2. /\ c.note \in Note /\ c.mine.content \in Content /\ c.mine.life \in Life
      /\ c.theirs.content \in Content /\ c.theirs.life \in Life
      /\ c.theirs.version \in Nat
  BY <1>1 DEF TypesInv, HeldTypes, DeviceTypes, Conflict, Remote
<1> DEFINE own == [content |-> c.mine.content, life |-> c.mine.life,
                   version |-> NextVersionAfter(c.theirs.version),
                   base |-> c.theirs.version, status |-> "pending"]
           new == [content |-> c.mine.content, life |-> c.mine.life,
                   version |-> 1, base |-> 0, status |-> "pending"]
           taken == Synced(c.theirs)
<1>3. /\ own \in LocalNote /\ new \in LocalNote /\ taken \in LocalNote
      /\ own.status = "pending" /\ new.status = "pending" /\ taken.version = taken.base
  BY <1>2, SyncedFacts DEF LocalNote, Status, NextVersionAfter
<1> HIDE DEF own, new, taken
<1>4. CASE KeepLocal(d, c)
  <2>1. Resolved(d, c, [n \in {c.note} |-> own], c.theirs.content \ c.mine.content)
    BY <1>4 DEF KeepLocal, own
  <2> QED
    BY <1>2, <1>3, <2>1, ResolvedSteps
<1>5. CASE KeepRemote(d, c)
  <2>1. PICK gone : Resolved(d, c, [n \in {c.note} |-> taken], gone)
    BY <1>5 DEF KeepRemote, taken
  <2> QED
    BY <1>2, <1>3, <2>1, ResolvedSteps
<1>6. ASSUME NEW copy \in Note, DuplicateBoth(d, c, copy)
      PROVE  Steps(d) /\ UNCHANGED serverVars
  <2> DEFINE r == [n \in {c.note, copy} |-> IF n = c.note THEN taken ELSE new]
  <2>1. Resolved(d, c, r, {})
    BY <1>6 DEF DuplicateBoth, taken, new
  <2>2. DOMAIN r \subseteq Note
    BY <1>2
  <2>3. \A n \in DOMAIN r : r[n] = taken \/ r[n] = new
    OBVIOUS
  <2> HIDE DEF r
  <2> QED
    BY <1>3, <2>1, <2>2, <2>3, ResolvedSteps
<1> QED
  BY <1>1, <1>4, <1>5, <1>6

(***************************************************************************)
(* The steps of a sync.                                                    *)
(***************************************************************************)
LEMMA ReadPendingSteps ==
    ASSUME TypesInv, NEW d \in Device, ReadPending(d)
    PROVE  Steps(d)
<1>0. Shapes /\ HeldTypes(d) /\ DeviceTypes(d)
  BY DEF TypesInv, HeldTypes
<1>1. /\ sent' = [sent EXCEPT ![d] = [n \in Pending(d) |-> local[d][n]]]
      /\ UNCHANGED <<serverVars, local, conflicts, cursor, editorVars, orphan,
                     answerVars, refused, page, reading, historyVars>>
      /\ step[d] = "idle"
  BY DEF ReadPending
<1>2. PICK s \in {"repair", "push", "pull"} : step' = [step EXCEPT ![d] = s]
  BY DEF ReadPending, Goto
<1>3. /\ DOMAIN sent' = Device /\ sent'[d] = [n \in Pending(d) |-> local[d][n]]
      /\ DOMAIN step' = Device /\ step'[d] = s
      /\ \A e \in Device \ {d} : sent'[e] = sent[e] /\ step'[e] = step[e]
  BY <1>0, <1>1, <1>2 DEF Shapes
<1>4. Shapes' /\ Others(d)
  BY <1>0, <1>1, <1>3 DEF Shapes, Others, SameDevice, editorVars, answerVars
<1>5. \A n \in DOMAIN sent'[d] : /\ n \in Note /\ sent'[d][n] \in LocalNote
                                 /\ sent'[d][n].status = "pending"
  BY <1>0, <1>3 DEF Pending, DeviceTypes, Has
<1>6. DeviceTypes(d)'
  BY <1>0, <1>1, <1>3, <1>5 DEF DeviceTypes, NoteMap, Has, Step, serverVars, answerVars
<1>7. HeldTypes(d)'
  BY <1>0, <1>1, <1>3, <1>5, <1>6 DEF HeldTypes, editorVars, answerVars
<1>8. Spared(d)
  BY <1>1 DEF Spared, Has
<1> QED
  BY <1>4, <1>7, <1>8 DEF Steps

LEMMA RepairSteps ==
    ASSUME TypesInv, NEW d \in Device, RepairPending(d)
    PROVE  Steps(d)
<1> DEFINE fix == Unprepared(sent[d])
           gone == {n \in fix : LocalOnlyDeleted(sent[d][n])}
           keep == [n \in DOMAIN sent[d] \ gone |-> PreparePending(sent[d][n])]
           next == IF DOMAIN keep # {} THEN "push" ELSE "pull"
           lost == UNION {sent[d][n].content : n \in gone}
<1>0. Shapes /\ HeldTypes(d) /\ DeviceTypes(d)
  BY DEF TypesInv, HeldTypes
<1>1. /\ step[d] = "repair"
      /\ local' = [local EXCEPT ![d] = [n \in Note |->
                      IF n \in gone THEN None
                      ELSE IF n \in fix THEN keep[n] ELSE local[d][n]]]
      /\ dropped' = dropped \union lost
      /\ sent' = [sent EXCEPT ![d] = keep]
      /\ step' = [step EXCEPT ![d] = next]
      /\ UNCHANGED <<serverVars, conflicts, cursor, editorVars, orphan, answerVars,
                     refused, page, reading, used>>
  BY DEF RepairPending, Goto
<1>2. /\ DOMAIN sent[d] \subseteq Note
      /\ \A n \in DOMAIN sent[d] : /\ sent[d][n] \in LocalNote
                                   /\ sent[d][n].status = "pending"
  BY <1>0 DEF HeldTypes, DeviceTypes, NoteMap
<1>3. /\ fix \subseteq DOMAIN sent[d] /\ gone \subseteq fix
      /\ DOMAIN keep = DOMAIN sent[d] \ gone
      /\ \A n \in DOMAIN keep : keep[n] \in LocalNote /\ SameText(keep[n], sent[d][n])
  BY <1>2, PreparedFacts DEF Unprepared
<1>4. \A n \in gone : sent[d][n].content \subseteq lost
  OBVIOUS
<1>5. next \in {"push", "pull"}
  OBVIOUS
<1> HIDE DEF fix, gone, keep, next, lost
<1>6. /\ DOMAIN local' = Device /\ DOMAIN sent' = Device /\ DOMAIN step' = Device
      /\ sent'[d] = keep /\ step'[d] = next
      /\ local'[d] = [n \in Note |-> IF n \in gone THEN None
                                   ELSE IF n \in fix THEN keep[n] ELSE local[d][n]]
      /\ \A e \in Device \ {d} : /\ local'[e] = local[e] /\ sent'[e] = sent[e]
                                 /\ step'[e] = step[e]
  BY <1>0, <1>1 DEF Shapes
<1>7. \A n \in Note : /\ n \in gone => local'[d][n] = None
                      /\ n \in fix \ gone => local'[d][n] = keep[n]
                      /\ n \notin fix => local'[d][n] = local[d][n]
  BY <1>3, <1>6
<1>8. Shapes' /\ Others(d)
  BY <1>0, <1>1, <1>6 DEF Shapes, Others, SameDevice, editorVars, answerVars
<1>9. DeviceTypes(d)'
  <2>1. local'[d] \in [Note -> LocalNote \union {None}]
    BY <1>0, <1>3, <1>6 DEF DeviceTypes
  <2>2. \A n \in Note : Has(d, n)' /\ local'[d][n].status = "synced"
                           => local'[d][n].version = local'[d][n].base
    BY <1>0, <1>2, <1>3, <1>7 DEF DeviceTypes, Has, SameText
  <2>3. NoteMap(sent[d], LocalNote)'
    BY <1>2, <1>3, <1>6 DEF NoteMap
  <2> QED
    BY <1>0, <1>1, <1>5, <1>6, <2>1, <2>2, <2>3
       DEF DeviceTypes, serverVars, answerVars, Step
<1>10. HeldTypes(d)'
  BY <1>0, <1>1, <1>2, <1>3, <1>5, <1>6, <1>9
     DEF HeldTypes, SameText, editorVars, answerVars
<1>11. Spared(d)
  <2> SUFFICES ASSUME NEW n \in Note, Has(d, n), ~Overtaken(d, n)
               PROVE  \/ local[d][n].content \subseteq dropped'
                      \/ /\ Has(d, n)'
                         /\ local'[d][n].content = local[d][n].content
    BY DEF Spared
  <2>1. n \in DOMAIN sent[d] => sent[d][n] = local[d][n]
    BY <1>1 DEF Overtaken
  <2>2. CASE n \in gone
    BY <1>1, <1>3, <1>4, <2>1, <2>2
  <2>3. CASE n \in fix \ gone
    BY <1>3, <1>7, <2>1, <2>3 DEF Has, SameText
  <2>4. CASE n \notin fix
    BY <1>7, <2>4 DEF Has
  <2> QED
    BY <2>2, <2>3, <2>4
<1> QED
  BY <1>8, <1>10, <1>11 DEF Steps

LEMMA HandlePushSteps ==
    ASSUME TypesInv, NEW d \in Device, HandlePush(d)
    PROVE  Steps(d) /\ ServerInv' /\ lastRev' \in Nat /\ lastRev' >= lastRev
<1> DEFINE batch == Batched(sent[d])
           no == ConflictsOf(batch)
           yes == AcceptancesOf(batch)
<1>0. Shapes /\ HeldTypes(d) /\ DeviceTypes(d) /\ ServerInv
  BY DEF TypesInv, HeldTypes
<1>1. /\ step[d] = "push" /\ Push(d, batch)
      /\ refused' = [refused EXCEPT ![d] = @ \union no]
      /\ accepted' = [accepted EXCEPT ![d] = yes]
      /\ step' = [step EXCEPT ![d] = "answered"]
      /\ UNCHANGED <<local, conflicts, cursor, editorVars, orphan, sent, leaked,
                     page, reading, historyVars>>
  BY DEF HandlePush, Goto
<1>2. /\ Request(batch) /\ DOMAIN batch = DOMAIN sent[d]
      /\ \A n \in DOMAIN batch : /\ n \in Note /\ batch[n].content \in Content
                                 /\ batch[n].life \in Life
  BY <1>0 DEF DeviceTypes, NoteMap, Batched, Request, LocalNote
<1>3. /\ ServerInv'
      /\ Written(batch) \in SUBSET Note
  BY <1>0, <1>1, <1>2, PushInv, PushEffect
<1>4. lastRev' \in Nat /\ lastRev' >= lastRev
  <2>1. Cardinality(Written(batch)) \in Nat
    BY <1>3, NoteAssumption, FS_Subset, FS_CardinalityType
  <2> QED
    BY <1>0, <1>1, <2>1 DEF Push, ServerInv, ServerTypeOK
<1>5. \A c \in no : c \in Conflict
  <2> SUFFICES ASSUME NEW n \in RefusedIn(batch)
               PROVE  ConflictOf(n, batch[n]) \in Conflict
    BY DEF ConflictsOf
  <2>1. n \in DOMAIN batch /\ Refused(n, batch[n])
    BY DEF RefusedIn
  <2> QED
    BY <1>0, <1>2, <2>1, ConflictOfFacts
<1>6. \A n \in DOMAIN yes : n \in DOMAIN sent[d] /\ n \in Note /\ yes[n] \in Nat
  <2>1. \A n \in Note : Version(n) \in Nat
    BY <1>0, VersionType DEF ServerInv
  <2> QED
    BY <1>2, <2>1 DEF AcceptancesOf, AcceptedVersion, NextVersionAfter
<1> HIDE DEF batch, no, yes
<1>7. /\ DOMAIN refused' = Device /\ DOMAIN accepted' = Device /\ DOMAIN step' = Device
      /\ refused'[d] = refused[d] \union no /\ accepted'[d] = yes
      /\ step'[d] = "answered"
      /\ \A e \in Device \ {d} : /\ refused'[e] = refused[e]
                                 /\ accepted'[e] = accepted[e] /\ step'[e] = step[e]
  BY <1>0, <1>1 DEF Shapes
<1>8. Shapes' /\ Others(d)
  BY <1>0, <1>1, <1>7 DEF Shapes, Others, SameDevice, editorVars
<1>9. DeviceTypes(d)'
  <2>1. refused'[d] \subseteq Conflict
    BY <1>0, <1>5, <1>7 DEF DeviceTypes
  <2>2. NoteMap(accepted[d], Nat)'
    BY <1>6, <1>7 DEF NoteMap
  <2>3. cursor'[d] \in 0..lastRev' /\ page'[d].revision \in 0..lastRev'
    BY <1>0, <1>1, <1>4 DEF DeviceTypes, ServerInv, ServerTypeOK
  <2> QED
    BY <1>0, <1>1, <1>7, <2>1, <2>2, <2>3 DEF DeviceTypes, NoteMap, Has, Step
<1>10. HeldTypes(d)'
  BY <1>0, <1>1, <1>6, <1>7, <1>9 DEF HeldTypes, editorVars
<1>11. Spared(d)
  BY <1>1 DEF Spared, Has
<1> QED
  BY <1>3, <1>4, <1>8, <1>10, <1>11 DEF Steps

LEMMA MarkSteps ==
    ASSUME TypesInv, NEW d \in Device, MarkAccepted(d)
    PROVE  Steps(d)
<1> DEFINE next == IF refused[d] # {} THEN "refused" ELSE "pull"
           mark(n) == Marked(d, n, Marked(d, n, local[d][n], leaked[d]), accepted[d])
<1>0. Shapes /\ HeldTypes(d) /\ DeviceTypes(d)
  BY DEF TypesInv, HeldTypes
<1>1. /\ step[d] = "answered"
      /\ local' = [local EXCEPT ![d] = [n \in Note |-> mark(n)]]
      /\ sent' = [sent EXCEPT ![d] = Nothing]
      /\ leaked' = [leaked EXCEPT ![d] = Nothing]
      /\ accepted' = [accepted EXCEPT ![d] = Nothing]
      /\ step' = [step EXCEPT ![d] = next]
      /\ UNCHANGED <<serverVars, conflicts, cursor, editorVars, orphan, refused,
                     page, reading, historyVars>>
  BY DEF MarkAccepted, Goto
<1>2. next \in {"refused", "pull"}
  OBVIOUS
<1>3. \A n \in Note : mark(n) = Marked(d, n, local[d][n], accepted[d])
  BY <1>0 DEF Marked, HeldTypes
<1> HIDE DEF next, mark
<1>4. /\ DOMAIN local' = Device /\ DOMAIN sent' = Device /\ DOMAIN leaked' = Device
      /\ DOMAIN accepted' = Device /\ DOMAIN step' = Device
      /\ local'[d] = [n \in Note |-> mark(n)]
      /\ sent'[d] = Nothing /\ leaked'[d] = Nothing
      /\ accepted'[d] = Nothing /\ step'[d] = next
      /\ \A e \in Device \ {d} : /\ local'[e] = local[e] /\ sent'[e] = sent[e]
                                 /\ leaked'[e] = leaked[e] /\ step'[e] = step[e]
                                 /\ accepted'[e] = accepted[e]
  BY <1>0, <1>1 DEF Shapes
<1>5. DOMAIN Nothing = {}
  BY DEF Nothing
<1>6. Shapes' /\ Others(d)
  BY <1>0, <1>1, <1>4 DEF Shapes, Others, SameDevice, editorVars
<1>7. ASSUME NEW n \in Note, n \notin DOMAIN accepted[d] \/ ~Has(d, n)
      PROVE  local'[d][n] = local[d][n]
  <2>1. local'[d][n] = Marked(d, n, local[d][n], accepted[d])
    BY <1>3, <1>4
  <2> QED
    BY <1>7, <2>1 DEF Marked, Has
<1>8. ASSUME NEW n \in Note, n \in DOMAIN accepted[d], Has(d, n)
      PROVE  /\ local'[d][n] \in LocalNote /\ local'[d][n] # None
             /\ local'[d][n].content = local[d][n].content
             /\ local'[d][n].status = "synced"
                   => local'[d][n].version = local'[d][n].base
  <2>1. /\ local[d][n] \in LocalNote /\ n \in DOMAIN sent[d]
        /\ sent[d][n] \in LocalNote /\ accepted[d][n] \in Nat
    BY <1>0, <1>1, <1>8 DEF HeldTypes, DeviceTypes, NoteMap, Has
  <2>2. local'[d][n] = Marked(d, n, local[d][n], accepted[d])
    BY <1>3, <1>4
  <2> QED
    BY <1>8, <2>1, <2>2, MarkedFacts
<1>9. DeviceTypes(d)'
  <2>1. \A n \in Note : local'[d][n] \in LocalNote \union {None}
    BY <1>0, <1>7, <1>8 DEF DeviceTypes
  <2>2. local'[d] \in [Note -> LocalNote \union {None}]
    BY <1>4, <2>1
  <2>3. \A n \in Note : Has(d, n)' /\ local'[d][n].status = "synced"
                           => local'[d][n].version = local'[d][n].base
    BY <1>0, <1>7, <1>8 DEF DeviceTypes, Has
  <2>4. NoteMap(sent[d], LocalNote)' /\ NoteMap(accepted[d], Nat)'
    BY <1>4, <1>5 DEF NoteMap
  <2> QED
    BY <1>0, <1>1, <1>2, <1>4, <2>2, <2>3, <2>4 DEF DeviceTypes, serverVars, Step
<1>10. HeldTypes(d)'
  BY <1>0, <1>1, <1>2, <1>4, <1>5, <1>9 DEF HeldTypes, editorVars
<1>11. Spared(d)
  <2>1. \A n \in Note : Has(d, n) => /\ Has(d, n)'
                                     /\ local'[d][n].content = local[d][n].content
    BY <1>7, <1>8 DEF Has
  <2> QED
    BY <2>1, SparedText
<1> QED
  BY <1>6, <1>10, <1>11 DEF Steps

LEMMA RefusedSteps ==
    ASSUME TypesInv, NEW d \in Device, HandleRefused(d)
    PROVE  Steps(d)
<1>0. Shapes /\ HeldTypes(d) /\ DeviceTypes(d)
  BY DEF TypesInv, HeldTypes
<1>1. PICK c \in refused[d] :
         /\ refused' = [refused EXCEPT ![d] = @ \ {c}]
         /\ Goto(d, IF refused[d] = {c} THEN "pull" ELSE "refused")
         /\ \/ /\ OwnEcho(d, c)
               /\ local' = IF Has(d, c.note) THEN Absorbed(d, c) ELSE local
               /\ UNCHANGED conflicts
            \/ ~OwnEcho(d, c) /\ SaveConflict(d, c)
  BY DEF HandleRefused
<1>2. /\ step[d] = "refused"
      /\ UNCHANGED <<serverVars, cursor, editorVars, orphan, sent, answerVars, page,
                     reading, historyVars>>
  BY DEF HandleRefused
<1> DEFINE m == c.note
<1>3. c \in Conflict /\ m \in Note
  BY <1>0 DEF DeviceTypes, Conflict
<1>4. PICK next \in {"pull", "refused"} : step' = [step EXCEPT ![d] = next]
  BY <1>1 DEF Goto
<1> HIDE DEF m
<1>5. /\ DOMAIN refused' = Device /\ DOMAIN step' = Device
      /\ refused'[d] = refused[d] \ {c} /\ step'[d] = next
      /\ \A e \in Device \ {d} : refused'[e] = refused[e] /\ step'[e] = step[e]
  BY <1>0, <1>1, <1>4 DEF Shapes
<1>6. /\ DOMAIN local' = Device /\ DOMAIN conflicts' = Device
      /\ \A e \in Device \ {d} : local'[e] = local[e] /\ conflicts'[e] = conflicts[e]
      /\ local'[d] \in [Note -> LocalNote \union {None}]
      /\ \A n \in Note : n # m => local'[d][n] = local[d][n]
      /\ IF Has(d, m)
         THEN /\ Has(d, m)' /\ local'[d][m].status \in {"pending", "conflict"}
              /\ local'[d][m].content = local[d][m].content
         ELSE local'[d][m] = local[d][m]
      /\ conflicts'[d] \subseteq Conflict
  <2>1. CASE UNCHANGED conflicts /\ Has(d, m) /\ local' = Absorbed(d, c)
    BY <1>0, <1>3, <2>1, AbsorbedEffect DEF m, Shapes, DeviceTypes
  <2>2. CASE UNCHANGED <<conflicts, local>> /\ ~Has(d, m)
    BY <1>0, <2>2 DEF Shapes, DeviceTypes
  <2>3. CASE SaveConflict(d, c)
    BY <1>0, <1>3, <2>3, SaveConflictEffect DEF m, Stored, DeviceTypes
  <2> QED
    BY <1>1, <2>1, <2>2, <2>3 DEF m
<1>7. Shapes' /\ Others(d)
  BY <1>0, <1>2, <1>5, <1>6 DEF Shapes, Others, SameDevice, editorVars, answerVars
<1>8. DeviceTypes(d)'
  <2>1. \A n \in Note : Has(d, n)' /\ local'[d][n].status = "synced"
                           => local'[d][n].version = local'[d][n].base
    BY <1>0, <1>6 DEF DeviceTypes, Has
  <2> QED
    BY <1>0, <1>2, <1>5, <1>6, <2>1 DEF DeviceTypes, serverVars, answerVars, Step
<1>9. HeldTypes(d)'
  BY <1>0, <1>2, <1>5, <1>8 DEF HeldTypes, editorVars, answerVars
<1>10. Spared(d)
  <2>1. \A n \in Note : Has(d, n) => /\ Has(d, n)'
                                     /\ local'[d][n].content = local[d][n].content
    BY <1>6 DEF Has
  <2> QED
    BY <2>1, SparedText
<1> QED
  BY <1>7, <1>9, <1>10 DEF Steps

LEMMA PullSteps ==
    ASSUME TypesInv, NEW d \in Device, HandlePull(d)
    PROVE  Steps(d)
<1>0. Shapes /\ HeldTypes(d) /\ DeviceTypes(d) /\ ServerTypeOK
  BY DEF TypesInv, HeldTypes, ServerInv
<1>1. PICK r \in 0..lastRev :
         page' = [page EXCEPT ![d] =
            [notes |-> [n \in {m \in LoggedPast(d) : HasRow(m)} |-> RemoteOf(rows[n])],
             deletes |-> {n \in LoggedPast(d) : ~HasRow(n)},
             revision |-> r]]
  BY DEF HandlePull
<1>2. /\ step[d] = "pull" /\ step' = [step EXCEPT ![d] = "pulled"]
      /\ UNCHANGED <<serverVars, local, conflicts, cursor, editorVars, orphan, sent,
                     answerVars, refused, reading, historyVars>>
  BY DEF HandlePull, Goto
<1>3. /\ DOMAIN page' = Device /\ DOMAIN step' = Device /\ step'[d] = "pulled"
      /\ page'[d] =
            [notes |-> [n \in {m \in LoggedPast(d) : HasRow(m)} |-> RemoteOf(rows[n])],
             deletes |-> {n \in LoggedPast(d) : ~HasRow(n)},
             revision |-> r]
      /\ \A e \in Device \ {d} : page'[e] = page[e] /\ step'[e] = step[e]
  BY <1>0, <1>1, <1>2 DEF Shapes
<1>4. \A n \in Note : HasRow(n) => RemoteOf(rows[n]) \in Remote
  BY <1>0 DEF ServerTypeOK, HasRow, Row, RemoteOf, Remote
<1>5. /\ NoteMap(page[d].notes, Remote)' /\ page'[d].deletes \subseteq Note
      /\ page'[d].revision \in 0..lastRev
  BY <1>3, <1>4 DEF NoteMap, LoggedPast
<1>6. Shapes' /\ Others(d)
  BY <1>0, <1>2, <1>3 DEF Shapes, Others, SameDevice, editorVars, answerVars
<1>7. DeviceTypes(d)'
  BY <1>0, <1>2, <1>3, <1>5 DEF DeviceTypes, Has, serverVars, answerVars, Step
<1>8. HeldTypes(d)'
  BY <1>0, <1>2, <1>3, <1>7 DEF HeldTypes, editorVars, answerVars
<1>9. Spared(d)
  BY <1>2 DEF Spared, Has
<1> QED
  BY <1>6, <1>8, <1>9 DEF Steps

LEMMA DeletesSteps ==
    ASSUME TypesInv, NEW d \in Device, ApplyRemoteDeletes(d)
    PROVE  Steps(d)
<1>0. Shapes /\ HeldTypes(d) /\ DeviceTypes(d)
  BY DEF TypesInv, HeldTypes
<1>1. /\ step[d] = "pulled" /\ step' = [step EXCEPT ![d] = "merge"]
      /\ local' = [local EXCEPT ![d] = [n \in Note |->
            IF n \in page[d].deletes /\ Has(d, n) /\ local[d][n].status = "synced"
            THEN None ELSE local[d][n]]]
      /\ UNCHANGED <<serverVars, conflicts, cursor, editorVars, orphan, sent, answerVars,
                     refused, page, reading, historyVars>>
  BY DEF ApplyRemoteDeletes, Goto
<1>2. /\ DOMAIN local' = Device /\ DOMAIN step' = Device /\ step'[d] = "merge"
      /\ local'[d] = [n \in Note |->
            IF n \in page[d].deletes /\ Has(d, n) /\ local[d][n].status = "synced"
            THEN None ELSE local[d][n]]
      /\ \A e \in Device \ {d} : local'[e] = local[e] /\ step'[e] = step[e]
  BY <1>0, <1>1 DEF Shapes
<1>3. /\ local'[d] \in [Note -> LocalNote \union {None}]
      /\ \A n \in Note : \/ local'[d][n] = local[d][n]
                         \/ ~Has(d, n)' /\ local[d][n].status = "synced"
  BY <1>0, <1>2 DEF DeviceTypes, Has
<1>4. Shapes' /\ Others(d)
  BY <1>0, <1>1, <1>2 DEF Shapes, Others, SameDevice, editorVars, answerVars
<1>5. DeviceTypes(d)'
  BY <1>0, <1>1, <1>2, <1>3 DEF DeviceTypes, Has, serverVars, answerVars, Step
<1>6. HeldTypes(d)'
  BY <1>0, <1>1, <1>2, <1>5 DEF HeldTypes, editorVars, answerVars
<1>7. Spared(d)
  BY <1>3 DEF Spared, Has
<1> QED
  BY <1>4, <1>6, <1>7 DEF Steps

LEMMA ReadLocalSteps ==
    ASSUME TypesInv, NEW d \in Device, ReadLocal(d)
    PROVE  Steps(d)
<1>0. Shapes /\ HeldTypes(d) /\ DeviceTypes(d)
  BY DEF TypesInv, HeldTypes
<1>1. PICK m \in DOMAIN page[d].notes :
         reading' = [reading EXCEPT ![d] = [note |-> m, seen |-> local[d][m]]]
  BY DEF ReadLocal
<1>2. /\ step[d] = "merge" /\ step' = [step EXCEPT ![d] = "put"]
      /\ UNCHANGED <<serverVars, local, conflicts, cursor, editorVars, orphan, sent,
                     answerVars, refused, page, historyVars>>
  BY DEF ReadLocal, Goto
<1>3. /\ DOMAIN reading' = Device /\ DOMAIN step' = Device /\ step'[d] = "put"
      /\ reading'[d] = [note |-> m, seen |-> local[d][m]]
      /\ \A e \in Device \ {d} : reading'[e] = reading[e] /\ step'[e] = step[e]
  BY <1>0, <1>1, <1>2 DEF Shapes
<1>4. m \in Note /\ local[d][m] \in LocalNote \union {None}
  BY <1>0 DEF DeviceTypes, NoteMap
<1>5. Shapes' /\ Others(d)
  BY <1>0, <1>2, <1>3 DEF Shapes, Others, SameDevice, editorVars, answerVars
<1>6. DeviceTypes(d)'
  BY <1>0, <1>2, <1>3 DEF DeviceTypes, Has, serverVars, answerVars, Step
<1>7. HeldTypes(d)'
  BY <1>0, <1>2, <1>3, <1>4, <1>6 DEF HeldTypes, editorVars, answerVars
<1>8. Spared(d)
  BY <1>2 DEF Spared, Has
<1> QED
  BY <1>5, <1>7, <1>8 DEF Steps

(* What a merge makes of the record it read; only if that is still the record
   does it follow that a record that waits keeps its text. *)
SettledAs(d, n) ==
    /\ DOMAIN local' = Device /\ DOMAIN conflicts' = Device
    /\ \A e \in Device \ {d} : local'[e] = local[e] /\ conflicts'[e] = conflicts[e]
    /\ local'[d] \in [Note -> LocalNote \union {None}]
    /\ \A m \in Note \ {n} : local'[d][m] = local[d][m]
    /\ Has(d, n)' /\ local'[d][n].status = "synced"
          => local'[d][n].version = local'[d][n].base
    /\ conflicts'[d] \subseteq Conflict
    /\ Has(d, n) /\ local[d][n].status # "synced" /\ reading[d].seen = local[d][n]
          => Has(d, n)' /\ local'[d][n].content = local[d][n].content

LEMMA SettledFacts ==
    ASSUME TypesInv, NEW d \in Device, MergeRemoteNote(d), NEW n, n = reading[d].note
    PROVE  SettledAs(d, n)
<1> DEFINE seen == reading[d].seen
           t == page[d].notes[n]
<1>0. Shapes /\ HeldTypes(d) /\ DeviceTypes(d) /\ DOMAIN local = Device
  BY DEF TypesInv, HeldTypes, Shapes
<1>1. /\ n \in DOMAIN page[d].notes /\ n \in Note /\ t \in Remote
      /\ seen \in LocalNote \union {None}
  BY <1>0 DEF MergeRemoteNote, HeldTypes, DeviceTypes, NoteMap
<1>2. \/ MergeClean(d, n, seen, t) \/ MergeOwn(d, n, seen, t)
      \/ MergeDiverged(d, n, seen, t) \/ MergeLater(d, n, seen, t)
  BY DEF MergeRemoteNote
<1>3. t.content \in Content /\ t.life \in Life /\ t.version \in Nat
  BY <1>1 DEF Remote
<1>4. CASE UNCHANGED <<local, conflicts>>
  BY <1>0, <1>1, <1>4 DEF SettledAs, Shapes, DeviceTypes, Has
<1>5. CASE MergeClean(d, n, seen, t)
  <2>1. /\ Synced(t) \in LocalNote /\ Synced(t).version = Synced(t).base
    BY <1>3, SyncedFacts
  <2>2. /\ seen # None => seen.status = "synced"
        /\ Put(d, n, Synced(t)) /\ conflicts' = conflicts
    BY <1>5 DEF MergeClean
  <2>3. /\ DOMAIN local' = Device /\ local'[d][n] = Synced(t)
        /\ \A m \in Note \ {n} : local'[d][m] = local[d][m]
        /\ \A e \in Device \ {d} : local'[e] = local[e]
        /\ local'[d] \in [Note -> LocalNote \union {None}]
    BY <1>0, <1>1, <2>1, <2>2, PutEffect
  <2> QED
    BY <1>0, <2>1, <2>2, <2>3 DEF SettledAs, Shapes, DeviceTypes, Has
<1>6. CASE MergeOwn(d, n, seen, t) /\ t.version > seen.base
  <2> DEFINE r == [seen EXCEPT !.base = t.version]
  <2>1. /\ seen # None /\ seen.status = "pending" /\ conflicts' = conflicts
        /\ Put(d, n, r)
    BY <1>6 DEF MergeOwn, Diverged
  <2>2. r \in LocalNote /\ r.status = "pending" /\ r.content = seen.content
    BY <1>1, <1>3, <2>1 DEF LocalNote
  <2> HIDE DEF r
  <2>3. /\ DOMAIN local' = Device /\ local'[d][n] = r
        /\ \A m \in Note \ {n} : local'[d][m] = local[d][m]
        /\ \A e \in Device \ {d} : local'[e] = local[e]
        /\ local'[d] \in [Note -> LocalNote \union {None}]
    BY <1>0, <1>1, <2>1, <2>2, PutEffect
  <2> QED
    BY <1>0, <2>1, <2>2, <2>3 DEF SettledAs, Shapes, DeviceTypes, Has
<1>7. CASE MergeDiverged(d, n, seen, t)
  <2> DEFINE c == [note |-> n, reason |-> "remote_changed",
                   mine |-> Side(seen), theirs |-> t]
  <2>1. seen \in LocalNote /\ SaveConflict(d, c)
    BY <1>1, <1>7 DEF MergeDiverged, Diverged
  <2>2. c \in Conflict /\ c.note = n
    BY <1>1, <2>1 DEF Conflict, Side, LocalNote
  <2> HIDE DEF c
  <2>3. /\ DOMAIN local' = Device /\ DOMAIN conflicts' = Device
        /\ \A e \in Device \ {d} : /\ local'[e] = local[e]
                                   /\ conflicts'[e] = conflicts[e]
        /\ local'[d] \in [Note -> LocalNote \union {None}]
        /\ \A m \in Note : m # n => local'[d][m] = local[d][m]
        /\ IF Has(d, n)
           THEN /\ Has(d, n)' /\ local'[d][n].status = "conflict"
                /\ local'[d][n].content = local[d][n].content
           ELSE local'[d][n] = local[d][n]
        /\ \E x : Stored(d, c, x) /\ conflicts'[d] = conflicts[d] \union {x}
    BY <1>0, <2>1, <2>2, SaveConflictEffect
  <2>4. conflicts'[d] \subseteq Conflict
    BY <1>0, <2>3 DEF DeviceTypes, Stored
  <2> QED
    BY <1>0, <1>1, <2>3, <2>4 DEF SettledAs, DeviceTypes, Has
<1>8. MergeLater(d, n, seen, t) => UNCHANGED <<local, conflicts>>
  BY DEF MergeLater
<1>9. MergeOwn(d, n, seen, t) /\ ~(t.version > seen.base) => UNCHANGED <<local, conflicts>>
  BY DEF MergeOwn
<1> QED
  BY <1>2, <1>4, <1>5, <1>6, <1>7, <1>8, <1>9

LEMMA MergeSteps ==
    ASSUME TypesInv, NEW d \in Device, MergeRemoteNote(d)
    PROVE  Steps(d)
<1>n. PICK n : n = reading[d].note
  OBVIOUS
<1> DEFINE rest == [m \in DOMAIN page[d].notes \ {n} |-> page[d].notes[m]]
<1>0. Shapes /\ HeldTypes(d) /\ DeviceTypes(d)
  BY DEF TypesInv, HeldTypes
<1>1. /\ step[d] = "put"
      /\ page' = [page EXCEPT ![d].notes = rest]
      /\ reading' = [reading EXCEPT ![d] = None]
      /\ step' = [step EXCEPT ![d] = "merge"]
      /\ UNCHANGED <<serverVars, cursor, editorVars, orphan, sent, answerVars, refused,
                     historyVars>>
  BY <1>n DEF MergeRemoteNote, Goto
<1>2. SettledAs(d, n)
  BY <1>n, SettledFacts
<1> HIDE DEF rest
<1>3. DOMAIN rest \subseteq DOMAIN page[d].notes
      /\ \A m \in DOMAIN rest : rest[m] = page[d].notes[m]
  BY DEF rest
<1>4. /\ DOMAIN page' = Device /\ DOMAIN reading' = Device /\ DOMAIN step' = Device
      /\ page'[d] = [page[d] EXCEPT !.notes = rest]
      /\ reading'[d] = None /\ step'[d] = "merge"
      /\ \A e \in Device \ {d} : /\ page'[e] = page[e] /\ reading'[e] = reading[e]
                                 /\ step'[e] = step[e]
  BY <1>0, <1>1 DEF Shapes
<1>5. DOMAIN page'[d].notes \subseteq DOMAIN rest /\ page'[d].deletes = page[d].deletes
      /\ page'[d].revision = page[d].revision
      /\ \A m \in DOMAIN page'[d].notes : page'[d].notes[m] = rest[m]
  BY <1>4
<1>6. Shapes' /\ Others(d)
  BY <1>0, <1>1, <1>2, <1>4 DEF Shapes, Others, SameDevice, editorVars, answerVars, SettledAs
<1>7. DeviceTypes(d)'
  <2>1. \A m \in Note : Has(d, m)' /\ local'[d][m].status = "synced"
                           => local'[d][m].version = local'[d][m].base
    BY <1>0, <1>2 DEF DeviceTypes, Has, SettledAs
  <2>2. /\ local'[d] \in [Note -> LocalNote \union {None}]
        /\ conflicts'[d] \subseteq Conflict
    BY <1>2 DEF SettledAs
  <2>3. /\ NoteMap(page[d].notes, Remote)' /\ page'[d].deletes \subseteq Note
        /\ page'[d].revision \in 0..lastRev
    BY <1>0, <1>3, <1>5 DEF DeviceTypes, NoteMap
  <2> QED
    BY <1>0, <1>1, <1>4, <2>1, <2>2, <2>3 DEF DeviceTypes, serverVars, answerVars, Step
<1>8. HeldTypes(d)'
  BY <1>0, <1>1, <1>4, <1>7 DEF HeldTypes, editorVars, answerVars
<1>9. Spared(d)
  <2> SUFFICES ASSUME NEW m \in Note, Has(d, m), local[d][m].status # "synced",
                      ~Overtaken(d, m)
               PROVE  Has(d, m)' /\ local'[d][m].content = local[d][m].content
    BY SparedText
  <2>1. CASE m # n
    BY <1>2, <2>1 DEF SettledAs, Has
  <2>2. CASE m = n
    <3>1. reading[d].seen = local[d][n]
      BY <1>n, <1>1, <2>2 DEF Overtaken
    <3> QED
      BY <1>2, <2>2, <3>1 DEF SettledAs
  <2> QED
    BY <2>1, <2>2
<1> QED
  BY <1>6, <1>8, <1>9 DEF Steps

LEMMA CursorSteps ==
    ASSUME TypesInv, NEW d \in Device, SaveCursor(d)
    PROVE  Steps(d)
<1>0. Shapes /\ HeldTypes(d) /\ DeviceTypes(d) /\ ServerTypeOK
  BY DEF TypesInv, HeldTypes, ServerInv
<1>1. /\ step[d] = "merge"
      /\ cursor' = [cursor EXCEPT ![d] = page[d].revision]
      /\ page' = [page EXCEPT ![d] = NoPage]
      /\ step' = [step EXCEPT ![d] = "idle"]
      /\ UNCHANGED <<serverVars, local, conflicts, editorVars, orphan, sent, answerVars,
                     refused, reading, historyVars>>
  BY DEF SaveCursor, Goto
<1>2. /\ DOMAIN cursor' = Device /\ DOMAIN page' = Device /\ DOMAIN step' = Device
      /\ cursor'[d] = page[d].revision /\ page'[d] = NoPage /\ step'[d] = "idle"
      /\ \A e \in Device \ {d} : /\ cursor'[e] = cursor[e] /\ page'[e] = page[e]
                                 /\ step'[e] = step[e]
  BY <1>0, <1>1 DEF Shapes
<1>3. /\ DOMAIN NoPage.notes = {} /\ NoPage.deletes = {} /\ NoPage.revision = 0
  BY DEF NoPage, Nothing
<1>4. Shapes' /\ Others(d)
  BY <1>0, <1>1, <1>2 DEF Shapes, Others, SameDevice, editorVars, answerVars
<1>5. DeviceTypes(d)'
  BY <1>0, <1>1, <1>2, <1>3 DEF DeviceTypes, NoteMap, Has, serverVars, answerVars, Step,
                                ServerTypeOK
<1>6. HeldTypes(d)'
  BY <1>0, <1>1, <1>2, <1>5 DEF HeldTypes, editorVars, answerVars
<1>7. Spared(d)
  BY <1>1 DEF Spared, Has
<1> QED
  BY <1>4, <1>6, <1>7 DEF Steps

LEMMA AbortSteps ==
    ASSUME TypesInv, NEW d \in Device, Abort(d)
    PROVE  Steps(d) /\ UNCHANGED serverVars
<1>0. Shapes /\ HeldTypes(d) /\ DeviceTypes(d) /\ ServerTypeOK
  BY DEF TypesInv, HeldTypes, ServerInv
<1>1. /\ sent' = [sent EXCEPT ![d] = Nothing]
      /\ leaked' = [leaked EXCEPT ![d] = Nothing]
      /\ accepted' = [accepted EXCEPT ![d] = Nothing]
      /\ refused' = [refused EXCEPT ![d] = {}]
      /\ page' = [page EXCEPT ![d] = NoPage]
      /\ reading' = [reading EXCEPT ![d] = None]
      /\ step' = [step EXCEPT ![d] = "idle"]
      /\ UNCHANGED <<serverVars, local, conflicts, cursor, editorVars, historyVars>>
      /\ orphan' = [orphan EXCEPT ![d] = sent[d]] \/ UNCHANGED orphan
  BY DEF Abort, Goto
<1>2. /\ DOMAIN sent' = Device /\ DOMAIN leaked' = Device /\ DOMAIN accepted' = Device
      /\ DOMAIN refused' = Device /\ DOMAIN page' = Device /\ DOMAIN reading' = Device
      /\ DOMAIN step' = Device /\ DOMAIN orphan' = Device
      /\ sent'[d] = Nothing /\ leaked'[d] = Nothing /\ accepted'[d] = Nothing
      /\ refused'[d] = {} /\ page'[d] = NoPage /\ reading'[d] = None
      /\ step'[d] = "idle"
      /\ \A e \in Device \ {d} :
            /\ sent'[e] = sent[e] /\ leaked'[e] = leaked[e] /\ orphan'[e] = orphan[e]
            /\ accepted'[e] = accepted[e] /\ refused'[e] = refused[e]
            /\ page'[e] = page[e] /\ reading'[e] = reading[e] /\ step'[e] = step[e]
  BY <1>0, <1>1 DEF Shapes
<1>3. /\ DOMAIN Nothing = {} /\ DOMAIN NoPage.notes = {} /\ NoPage.deletes = {}
      /\ NoPage.revision = 0
  BY DEF NoPage, Nothing
<1>4. Shapes' /\ Others(d)
  BY <1>0, <1>1, <1>2 DEF Shapes, Others, SameDevice, editorVars
<1>5. DeviceTypes(d)'
  BY <1>0, <1>1, <1>2, <1>3 DEF DeviceTypes, NoteMap, Has, serverVars, Step, ServerTypeOK
<1>6. HeldTypes(d)'
  BY <1>0, <1>1, <1>2, <1>3, <1>5 DEF HeldTypes, editorVars
<1>7. Spared(d)
  BY <1>1 DEF Spared, Has
<1> QED
  BY <1>1, <1>4, <1>6, <1>7 DEF Steps

LEMMA ServerAsItWas ==
    ASSUME TypesInv, UNCHANGED serverVars
    PROVE  ServerInv' /\ lastRev' \in Nat /\ lastRev' >= lastRev
BY DEF TypesInv, serverVars, ServerInv, ServerTypeOK, LogOrdered, NewestKept,
       RowOrTombstone, LogMatchesStore, IssuedSoFar, VersionNamesOneRecord, HasRow,
       HasTombstone, Version, IsLatest

LEMMA AnyStep ==
    ASSUME TypesInv, NEW d \in Device, UserStep(d) \/ SyncStep(d) \/ Abort(d)
    PROVE  Steps(d) /\ ServerInv' /\ lastRev' \in Nat /\ lastRev' >= lastRev
<1>1. CASE UserStep(d) \/ Abort(d)
  <2>1. Steps(d) /\ UNCHANGED serverVars
    BY <1>1, UserStepsAll, DeleteLocalSteps, ResolveSteps, AbortSteps DEF UserStep
  <2> QED
    BY <2>1, ServerAsItWas
<1>2. CASE HandlePush(d)
  BY <1>2, HandlePushSteps
<1>3. CASE \/ ReadPending(d) \/ RepairPending(d) \/ MarkAccepted(d)
           \/ HandleRefused(d) \/ HandlePull(d) \/ ApplyRemoteDeletes(d)
           \/ ReadLocal(d) \/ MergeRemoteNote(d) \/ SaveCursor(d)
  <2>1. Steps(d)
    BY <1>3, ReadPendingSteps, RepairSteps, MarkSteps, RefusedSteps, PullSteps,
       DeletesSteps, ReadLocalSteps, MergeSteps, CursorSteps
  <2>2. UNCHANGED serverVars
    BY <1>3 DEF ReadPending, RepairPending, MarkAccepted, HandleRefused, HandlePull,
                ApplyRemoteDeletes, ReadLocal, MergeRemoteNote, SaveCursor
  <2> QED
    BY <2>1, <2>2, ServerAsItWas
<1> QED
  BY <1>1, <1>2, <1>3 DEF SyncStep

LEMMA RetentionKeeps ==
    ASSUME TypesInv, Retention
    PROVE  /\ ServerInv' /\ lastRev' \in Nat /\ lastRev' >= lastRev
           /\ Shapes' /\ \A d \in Device : SameDevice(d)
<1>1. Shapes' /\ \A d \in Device : SameDevice(d)
  BY DEF TypesInv, Shapes, SameDevice, Retention, editorVars, syncVars
<1>2. CASE \E n \in Note : Age(n)
  <2>1. PICK n \in Note : Age(n)
    BY <1>2
  <2>2. ServerInv' /\ lastRev' = lastRev
    BY <2>1, AgeInv DEF TypesInv, Age
  <2> QED
    BY <1>1, <2>2 DEF TypesInv, ServerInv, ServerTypeOK
<1>3. CASE CleanupTrash
  <2>1. ServerInv'
    BY <1>3, CleanupInv DEF TypesInv
  <2>2. Expired \in SUBSET Note
    BY DEF Expired
  <2>3. Cardinality(Expired) \in Nat
    BY <2>2, NoteAssumption, FS_Subset, FS_CardinalityType
  <2>4. lastRev' \in Nat /\ lastRev' >= lastRev
    BY <1>3, <2>3 DEF TypesInv, CleanupTrash, ServerInv, ServerTypeOK
  <2> QED
    BY <1>1, <2>1, <2>4
<1> QED
  BY <1>2, <1>3 DEF Retention

(* One step of the whole, for the invariant and for the property. *)
LEMMA TypesNext ==
    ASSUME TypesInv, [SyncNext]_allVars
    PROVE  TypesInv' /\ \A d \in Device : Spared(d)
<1>1. ASSUME NEW d \in Device, UserStep(d) \/ SyncStep(d) \/ Abort(d)
      PROVE  TypesInv' /\ \A e \in Device : Spared(e)
  <2>1. Steps(d) /\ ServerInv' /\ lastRev' \in Nat /\ lastRev' >= lastRev
    BY <1>1, AnyStep
  <2>2. \A e \in Device \ {d} : SameDevice(e)
    BY <2>1 DEF Steps, Others
  <2>3. \A e \in Device \ {d} : HeldTypes(e)'
    BY <2>1, <2>2, HeldByOthers
  <2>4. \A e \in Device \ {d} : Spared(e)
    BY <2>2 DEF SameDevice, Spared, Has
  <2> QED
    BY <2>1, <2>3, <2>4 DEF TypesInv, Steps
<1>2. CASE Retention
  <2>1. /\ ServerInv' /\ lastRev' \in Nat /\ lastRev' >= lastRev
        /\ Shapes' /\ \A d \in Device : SameDevice(d)
    BY <1>2, RetentionKeeps
  <2>2. \A d \in Device : HeldTypes(d)'
    BY <2>1, HeldByOthers
  <2>3. \A d \in Device : Spared(d)
    BY <2>1 DEF SameDevice, Spared, Has
  <2> QED
    BY <2>1, <2>2, <2>3 DEF TypesInv
<1>3. CASE UNCHANGED allVars
  <2>1. /\ ServerInv' /\ lastRev' \in Nat /\ lastRev' >= lastRev
    BY <1>3, ServerAsItWas DEF allVars
  <2>2. Shapes' /\ \A d \in Device : SameDevice(d)
    BY <1>3 DEF TypesInv, Shapes, SameDevice, allVars, editorVars, syncVars
  <2>3. \A d \in Device : HeldTypes(d)'
    BY <2>1, <2>2, HeldByOthers
  <2>4. \A d \in Device : Spared(d)
    BY <2>2 DEF SameDevice, Spared, Has
  <2> QED
    BY <2>1, <2>2, <2>3, <2>4 DEF TypesInv
<1> QED
  BY <1>1, <1>2, <1>3 DEF SyncNext

LEMMA TypesInit == SyncInit => TypesInv
<1> SUFFICES ASSUME SyncInit PROVE TypesInv
  OBVIOUS
<1>1. SyncInv
  BY SyncInvInit
<1>2. ASSUME NEW d \in Device
      PROVE  HeldTypes(d)
  <2>1. DeviceTypes(d)
    BY <1>1 DEF SyncInv, DeviceInv
  <2>2. /\ editor[d] = None /\ leaked[d] = Nothing /\ sent[d] = Nothing
        /\ accepted[d] = Nothing /\ step[d] = "idle"
    BY DEF SyncInit
  <2> QED
    BY <2>1, <2>2 DEF HeldTypes, Nothing
<1> QED
  BY <1>1, <1>2 DEF TypesInv, SyncInv

(* Whichever windows are open: what a user wrote in a note that waits to be
   pushed, or is in conflict, goes only where a sync writes over a record
   that changed after the sync had read it.  Every other step leaves it:
   answers, refusals, deletes and merges of a pull, restarts, the work on
   other notes and the user's own, but for a choice in a conflict. *)
THEOREM OnlyOvertakenNotesChange == SyncSpec => OnlyOvertakenChange
<1> DEFINE Step1 == \A d \in Device, n \in Note :
              /\ Has(d, n) /\ local[d][n].status # "synced" /\ ~Overtaken(d, n)
              /\ conflicts[d] \subseteq conflicts'[d]
              => local[d][n].content \subseteq dropped' \union
                    IF Has(d, n)' THEN local'[d][n].content ELSE {}
<1>1. TypesInv /\ [SyncNext]_allVars => TypesInv' /\ [Step1]_allVars
  BY TypesNext DEF Spared
<1> QED
  BY <1>1, TypesInit, PTL DEF SyncSpec, OnlyOvertakenChange

=============================================================================
