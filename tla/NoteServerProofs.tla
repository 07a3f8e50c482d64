-------------------------- MODULE NoteServerProofs --------------------------
(***************************************************************************)
(* What holds of the note store for every account, batch limit and bound.  *)
(*                                                                         *)
(* The inductive invariant ServerInv adds to the checked properties what   *)
(* makes them inductive: revisions of the log are distinct and never       *)
(* exceed the counter, every logged note has a newest entry (so that       *)
(* compaction leaves one), a note has a row or a tombstone but not both,   *)
(* and no version given out so far exceeds the note's current one (so that *)
(* the next one is new).                                                   *)
(***************************************************************************)
EXTENDS NoteServer, FiniteSetTheorems, TLAPS

LogOrdered ==
    /\ \A c \in changes : c.rev <= lastRev
    /\ \A c, e \in changes : c.rev = e.rev => c = e

NewestKept ==
    \A c \in changes : \E e \in changes : e.note = c.note /\ IsLatest(e, changes)

RowOrTombstone == \A n \in Note : ~(HasRow(n) /\ HasTombstone(n))

IssuedSoFar == \A a \in issued : a.version <= Version(a.note)

ServerInv ==
    /\ ServerTypeOK
    /\ LogOrdered
    /\ NewestKept
    /\ RowOrTombstone
    /\ LogMatchesStore
    /\ IssuedSoFar
    /\ VersionNamesOneRecord

USE NoteAssumption, NoneAssumption, LifeAssumption, BoundAssumption

(***************************************************************************)
(* Versions and accepted rows have the types the tables want.              *)
(***************************************************************************)
(* The version of a note is a natural number, zero only before its first row. *)
LEMMA VersionType ==
    ASSUME ServerTypeOK, NEW n \in Note
    PROVE  Version(n) \in Nat
BY DEF ServerTypeOK, Version, HasRow, HasTombstone, Row, Tombstone

(* The row an accepted change produces is a row, one version further on. *)
LEMMA NewRowType ==
    ASSUME ServerTypeOK, NEW d \in Device, NEW n \in Note,
           NEW ch, ch.content \in Content, ch.life \in Life
    PROVE  /\ NewRow(d, n, ch) \in Row
           /\ NewRow(d, n, ch).version = Version(n) + 1
           /\ NewRow(d, n, ch) # None
<1>1. Version(n) \in Nat
  BY VersionType
<1>2. /\ ch.content \in Content /\ ch.life \in Life
  OBVIOUS
<1>3. (/\ ch.life # "active"
       /\ HasRow(n) /\ rows[n].life # "active" /\ rows[n].aged) \in BOOLEAN
  OBVIOUS
<1>4. NewRow(d, n, ch).version = Version(n) + 1
  BY DEF NewRow, AcceptedVersion, NextVersionAfter
<1>5. NewRow(d, n, ch) \in Row
  BY <1>1, <1>2, <1>3 DEF NewRow, AcceptedVersion, NextVersionAfter, Row
<1> QED
  BY <1>4, <1>5

(* A transaction's revisions are new, distinct and within the new counter. *)
LEMMA NumberingFacts ==
    ASSUME lastRev \in Nat, NEW ids \in SUBSET Note, NEW f \in Numberings(ids)
    PROVE  /\ Cardinality(ids) \in Nat
           /\ \A n \in ids : /\ f[n] \in Nat \ {0}
                             /\ f[n] > lastRev
                             /\ f[n] <= lastRev + Cardinality(ids)
           /\ \A m, n \in ids : f[m] = f[n] => m = n
<1>1. Cardinality(ids) \in Nat
  BY FS_Subset, FS_CardinalityType
<1>2. f \in [ids -> (lastRev + 1)..(lastRev + Cardinality(ids))]
  BY DEF Numberings
<1>3. \A n \in ids : f[n] \in (lastRev + 1)..(lastRev + Cardinality(ids))
  BY <1>2
<1>4. \A m, n \in ids : f[m] = f[n] => m = n
  BY DEF Numberings
<1> QED
  BY <1>1, <1>3, <1>4

(***************************************************************************)
(* The log after a transaction that logged the notes in ids.               *)
(***************************************************************************)
(* Logging a set of notes keeps the log well formed; the newest entries of
   those notes are the new ones, all others keep theirs. *)
LEMMA LogGrows ==
    ASSUME ServerTypeOK, LogOrdered, NewestKept,
           NEW ids \in SUBSET Note, NEW f \in Numberings(ids),
           NEW op \in Operation,
           changes' = changes \union Log(f, ids, op),
           lastRev' = lastRev + Cardinality(ids)
    PROVE  /\ changes' \subseteq LogEntry /\ lastRev' \in Nat
           /\ LogOrdered' /\ NewestKept'
           /\ \A c \in changes' : IsLatest(c, changes') =>
                IF c.note \in ids THEN c.op = op
                ELSE c \in changes /\ IsLatest(c, changes)
           /\ \A n \in ids : \E c \in changes' : c.note = n
<1> DEFINE new(n) == [rev |-> f[n], note |-> n, op |-> op]
<1>1. /\ Cardinality(ids) \in Nat
      /\ \A n \in ids : /\ f[n] \in Nat \ {0}
                        /\ f[n] > lastRev
                        /\ f[n] <= lastRev + Cardinality(ids)
      /\ \A m, n \in ids : f[m] = f[n] => m = n
  BY NumberingFacts DEF ServerTypeOK
<1>2. /\ changes \subseteq LogEntry /\ lastRev \in Nat
  BY DEF ServerTypeOK
<1>3. \A c \in Log(f, ids, op) : \E n \in ids : c = new(n)
  BY DEF Log
<1>4. \A n \in ids : new(n) \in changes'
  BY DEF Log
<1>5. \A n \in ids : new(n) \in LogEntry
  BY <1>1 DEF LogEntry
<1>6. changes' \subseteq LogEntry /\ lastRev' \in Nat
  BY <1>1, <1>2, <1>3, <1>5
<1>7. LogOrdered'
  <2>1. \A c \in changes' : c.rev <= lastRev'
    BY <1>1, <1>2, <1>3 DEF LogOrdered, LogEntry
  <2>2. ASSUME NEW c \in changes', NEW e \in changes', c.rev = e.rev
        PROVE  c = e
    <3>1. CASE c \in changes /\ e \in changes
      BY <2>2, <3>1 DEF LogOrdered
    <3>2. CASE c \notin changes /\ e \notin changes
      <4>1. PICK m \in ids : c = new(m)
        BY <1>3, <3>2
      <4>2. PICK n \in ids : e = new(n)
        BY <1>3, <3>2
      <4> QED
        BY <1>1, <2>2, <4>1, <4>2
    <3>3. ASSUME NEW x \in changes, NEW y \in Log(f, ids, op)
          PROVE  x.rev # y.rev
      <4>1. PICK n \in ids : y = new(n)
        BY <1>3
      <4> QED
        BY <1>1, <1>2, <4>1 DEF LogOrdered, LogEntry
    <3> QED
      BY <2>2, <3>1, <3>2, <3>3
  <2> QED
    BY <2>1, <2>2 DEF LogOrdered
<1>8. \A n \in ids : IsLatest(new(n), changes')
  <2>1. SUFFICES ASSUME NEW n \in ids, NEW e \in changes', e.note = n
                 PROVE  e.rev <= f[n]
    BY DEF IsLatest
  <2>2. CASE e \in changes
    BY <1>1, <1>2, <2>2 DEF LogOrdered, LogEntry
  <2>3. CASE e \notin changes
    BY <1>1, <1>3, <2>1, <2>3
  <2> QED
    BY <2>2, <2>3
<1>9. ASSUME NEW c \in changes, c.note \notin ids, IsLatest(c, changes)
      PROVE  IsLatest(c, changes')
  BY <1>3, <1>9 DEF IsLatest
<1>10. NewestKept'
  <2>1. SUFFICES ASSUME NEW c \in changes'
                 PROVE  \E e \in changes' : e.note = c.note
                                            /\ IsLatest(e, changes')
    BY DEF NewestKept
  <2>2. CASE c.note \in ids
    BY <1>4, <1>8, <2>2
  <2>3. CASE c.note \notin ids
    <3>1. c \in changes
      BY <1>3, <2>3
    <3>2. PICK e \in changes : e.note = c.note /\ IsLatest(e, changes)
      BY <3>1 DEF NewestKept
    <3> QED
      BY <1>9, <2>3, <3>2
  <2> QED
    BY <2>2, <2>3
<1>11. ASSUME NEW c \in changes', IsLatest(c, changes')
       PROVE  IF c.note \in ids THEN c.op = op
              ELSE c \in changes /\ IsLatest(c, changes)
  <2>1. CASE c.note \in ids
    <3>1. c.rev >= f[c.note]
      BY <1>4, <1>11, <2>1 DEF IsLatest
    <3>2. c \notin changes
      BY <1>1, <1>2, <2>1, <3>1 DEF LogOrdered, LogEntry
    <3> QED
      BY <1>3, <2>1, <3>2
  <2>2. CASE c.note \notin ids
    BY <1>3, <1>11, <2>2 DEF IsLatest
  <2> QED
    BY <2>1, <2>2
<1>12. \A n \in ids : \E c \in changes' : c.note = n
  BY <1>4
<1> QED
  BY <1>6, <1>7, <1>10, <1>11, <1>12

(***************************************************************************)
(* The invariant holds initially and every transaction preserves it.       *)
(***************************************************************************)
(* An empty database satisfies the invariant. *)
LEMMA ServerInvInit == ServerInit => ServerInv
BY DEF ServerInit, ServerInv, ServerTypeOK, LogOrdered, NewestKept,
       RowOrTombstone, LogMatchesStore, IssuedSoFar, VersionNamesOneRecord,
       HasRow, HasTombstone, IsLatest

(* The changes of a request, whatever versions they name as their base. *)
Request(batch) ==
    /\ DOMAIN batch \subseteq Note
    /\ \A n \in DOMAIN batch : /\ batch[n].content \in Content
                                /\ batch[n].life \in Life

LEMMA BatchIsRequest == \A batch \in Batch : Request(batch)
BY DEF Batch, Change, Request

(* A push leaves a note alone or replaces its row by one at the next version
   and clears its tombstone. *)
LEMMA PushEffect ==
    ASSUME ServerInv, NEW d \in Device, NEW batch, Request(batch),
           Push(d, batch)
    PROVE  /\ Written(batch) \in SUBSET Note
           /\ \A n \in Written(batch) :
                /\ rows'[n] = NewRow(d, n, batch[n])
                /\ rows'[n] \in Row /\ rows'[n] # None
                /\ tombs'[n] = None
                /\ Version(n)' = Version(n) + 1
           /\ \A n \in Note \ Written(batch) :
                rows'[n] = rows[n] /\ tombs'[n] = tombs[n]
<1>2. Written(batch) \in SUBSET Note
  BY DEF Written, Request
<1>3. \A n \in Written(batch) : /\ batch[n].content \in Content
                                /\ batch[n].life \in Life
  BY DEF Written, Request
<1>4. /\ rows' = [n \in Note |-> IF n \in Written(batch)
                                 THEN NewRow(d, n, batch[n]) ELSE rows[n]]
      /\ tombs' = [n \in Note |-> IF n \in Written(batch)
                                  THEN None ELSE tombs[n]]
  BY DEF Push
<1>5. ASSUME NEW n \in Written(batch)
      PROVE  /\ rows'[n] = NewRow(d, n, batch[n])
             /\ rows'[n] \in Row /\ rows'[n] # None
             /\ tombs'[n] = None
             /\ Version(n)' = Version(n) + 1
  <2>1. n \in Note
    BY <1>2
  <2>2. rows'[n] = NewRow(d, n, batch[n]) /\ tombs'[n] = None
    BY <1>4, <2>1
  <2>3. /\ NewRow(d, n, batch[n]) \in Row
        /\ NewRow(d, n, batch[n]).version = Version(n) + 1
        /\ NewRow(d, n, batch[n]) # None
    BY <1>3, <2>1, NewRowType DEF ServerInv
  <2> QED
    BY <2>2, <2>3 DEF Version, HasRow
<1> QED
  BY <1>2, <1>3, <1>4, <1>5

(* A push preserves the invariant. *)
LEMMA PushInv ==
    ASSUME ServerInv, NEW d \in Device, NEW batch, Request(batch),
           Push(d, batch)
    PROVE  ServerInv'
<1> DEFINE W == Written(batch)
<1>1. /\ W \in SUBSET Note
      /\ \A n \in W : /\ rows'[n] = NewRow(d, n, batch[n])
                      /\ rows'[n] \in Row /\ rows'[n] # None
                      /\ tombs'[n] = None
                      /\ Version(n)' = Version(n) + 1
      /\ \A n \in Note \ W : rows'[n] = rows[n] /\ tombs'[n] = tombs[n]
  BY PushEffect
<1>2. PICK f \in Numberings(W) : changes' = changes \union Log(f, W, "upsert")
  BY DEF Push
<1>3. lastRev' = lastRev + Cardinality(W)
  BY DEF Push
<1>4. /\ changes' \subseteq LogEntry /\ lastRev' \in Nat
      /\ LogOrdered' /\ NewestKept'
      /\ \A c \in changes' : IsLatest(c, changes') =>
            IF c.note \in W THEN c.op = "upsert"
            ELSE c \in changes /\ IsLatest(c, changes)
      /\ \A n \in W : \E c \in changes' : c.note = n
  BY <1>1, <1>2, <1>3, LogGrows DEF ServerInv, Operation
<1>5. issued' = issued \union {Issue(n, NewRow(d, n, batch[n])) : n \in W}
  BY DEF Push
<1>6. \A n \in Note : Version(n) \in Nat
  BY VersionType DEF ServerInv
<1>7. \A n \in Note \ W : /\ HasRow(n)' <=> HasRow(n)
                          /\ HasTombstone(n)' <=> HasTombstone(n)
                          /\ Version(n)' = Version(n)
  BY <1>1 DEF HasRow, HasTombstone, Version
<1>8. \A n \in W : HasRow(n)' /\ ~HasTombstone(n)'
  BY <1>1 DEF HasRow, HasTombstone
<1>9. \A a \in issued' \ issued : \E n \in W : a = Issue(n, rows'[n])
  BY <1>1, <1>5
<1>10. \A n \in W : /\ Issue(n, rows'[n]).note = n
                    /\ Issue(n, rows'[n]).version = Version(n) + 1
  <2>1. SUFFICES ASSUME NEW n \in W
                 PROVE  Issue(n, rows'[n]).version = Version(n) + 1
    BY DEF Issue
  <2>2. rows'[n] # None /\ Version(n)' = Version(n) + 1
    BY <1>1
  <2> QED
    BY <2>2 DEF Version, HasRow, Issue
<1>11. ServerTypeOK'
  <2>1. rows' \in [Note -> Row \union {None}]
    <3>1. rows' = [n \in Note |-> rows'[n]]
      BY DEF Push
    <3>2. \A n \in Note : rows'[n] \in Row \union {None}
      BY <1>1 DEF ServerInv, ServerTypeOK
    <3> QED
      BY <3>1, <3>2
  <2>2. tombs' \in [Note -> Tombstone \union {None}]
    <3>1. tombs' = [n \in Note |-> tombs'[n]]
      BY DEF Push
    <3>2. \A n \in Note : tombs'[n] \in Tombstone \union {None}
      BY <1>1 DEF ServerInv, ServerTypeOK
    <3> QED
      BY <3>1, <3>2
  <2>3. \A n \in W : Issue(n, rows'[n]) \in
            [note : Note, version : Nat \ {0}, content : Content, life : Life]
    BY <1>1 DEF Issue, Row
  <2> QED
    BY <1>4, <1>9, <2>1, <2>2, <2>3 DEF ServerTypeOK, ServerInv
<1>12. RowOrTombstone'
  BY <1>7, <1>8 DEF RowOrTombstone, ServerInv
<1>13. LogMatchesStore'
  <2>1. ASSUME NEW c \in changes', IsLatest(c, changes')
        PROVE  IF c.op = "upsert" THEN HasRow(c.note)' /\ ~HasTombstone(c.note)'
               ELSE HasTombstone(c.note)' /\ ~HasRow(c.note)'
    <3>1. c.note \in Note
      BY <1>4 DEF LogEntry
    <3>2. CASE c.note \in W
      BY <1>4, <1>8, <2>1, <3>2
    <3>3. CASE c.note \notin W
      BY <1>4, <1>7, <2>1, <3>1, <3>3 DEF ServerInv, LogMatchesStore
    <3> QED
      BY <3>2, <3>3
  <2>2. ASSUME NEW n \in Note, HasRow(n)' \/ HasTombstone(n)'
        PROVE  \E c \in changes' : c.note = n
    <3>1. CASE n \in W
      BY <1>4, <3>1
    <3>2. CASE n \notin W
      BY <1>2, <1>7, <2>2, <3>2 DEF ServerInv, LogMatchesStore
    <3> QED
      BY <3>1, <3>2
  <2> QED
    BY <2>1, <2>2 DEF LogMatchesStore
<1>14. IssuedSoFar'
  <2>1. SUFFICES ASSUME NEW a \in issued' PROVE a.version <= Version(a.note)'
    BY DEF IssuedSoFar
  <2>2. CASE a \in issued
    <3>1. /\ a.note \in Note /\ a.version \in Nat
          /\ a.version <= Version(a.note)
      BY <2>2 DEF ServerInv, ServerTypeOK, IssuedSoFar
    <3> QED
      BY <1>1, <1>6, <1>7, <3>1
  <2>3. CASE a \notin issued
    <3>1. PICK n \in W : a = Issue(n, rows'[n])
      BY <1>9, <2>3
    <3> QED
      BY <1>1, <1>6, <1>10, <3>1
  <2> QED
    BY <2>2, <2>3
<1>15. VersionNamesOneRecord'
  <2>1. \A a \in issued : /\ a.note \in Note /\ a.version \in Nat
                          /\ a.version <= Version(a.note)
    BY DEF ServerInv, ServerTypeOK, IssuedSoFar
  <2>2. ASSUME NEW a \in issued, NEW b \in issued' \ issued, a.note = b.note
        PROVE  a.version # b.version
    <3>1. PICK n \in W : b = Issue(n, rows'[n])
      BY <1>9, <2>2
    <3>2. a.note = n /\ b.version = Version(n) + 1
      BY <1>10, <2>2, <3>1
    <3> QED
      BY <1>1, <1>6, <2>1, <3>2
  <2>3. ASSUME NEW a \in issued' \ issued, NEW b \in issued' \ issued,
               a.note = b.note
        PROVE  a = b
    BY <1>9, <1>10, <2>3
  <2> QED
    BY <2>2, <2>3 DEF VersionNamesOneRecord, ServerInv
<1> QED
  BY <1>4, <1>11, <1>12, <1>13, <1>14, <1>15 DEF ServerInv

(* Running out of its retention changes nothing of a note but the mark. *)
LEMMA AgeInv ==
    ASSUME ServerInv, NEW n \in Note, Age(n)
    PROVE  /\ ServerInv'
           /\ \A m \in Note : /\ HasRow(m)' <=> HasRow(m)
                              /\ HasTombstone(m)' <=> HasTombstone(m)
                              /\ Version(m)' = Version(m)
                              /\ Visible(m)' = Visible(m)
<1>1. /\ rows' = [rows EXCEPT ![n].aged = TRUE]
      /\ rows[n] # None
      /\ UNCHANGED <<tombs, changes, lastRev, issued>>
  BY DEF Age, HasRow
<1>2. rows \in [Note -> Row \union {None}] /\ rows[n] \in Row
  BY <1>1 DEF ServerInv, ServerTypeOK
<1>3. rows'[n] = [rows[n] EXCEPT !.aged = TRUE]
  BY <1>1, <1>2
<1>4. /\ rows'[n] \in Row /\ rows'[n] # None
      /\ rows'[n].version = rows[n].version
      /\ rows'[n].content = rows[n].content /\ rows'[n].life = rows[n].life
  BY <1>2, <1>3 DEF Row
<1>5. \A m \in Note : m # n => rows'[m] = rows[m]
  BY <1>1, <1>2
<1>6. \A m \in Note : /\ HasRow(m)' <=> HasRow(m)
                      /\ HasTombstone(m)' <=> HasTombstone(m)
                      /\ Version(m)' = Version(m)
                      /\ Visible(m)' = Visible(m)
  BY <1>1, <1>4, <1>5 DEF HasRow, HasTombstone, Version, Visible
<1>7. rows' \in [Note -> Row \union {None}]
  BY <1>1, <1>2, <1>4, <1>5
<1>8. ServerTypeOK'
  BY <1>1, <1>7 DEF ServerInv, ServerTypeOK
<1>9. LogOrdered' /\ NewestKept' /\ VersionNamesOneRecord'
  BY <1>1 DEF ServerInv, LogOrdered, NewestKept, VersionNamesOneRecord, IsLatest
<1>10. RowOrTombstone'
  BY <1>6 DEF ServerInv, RowOrTombstone
<1>11. LogMatchesStore'
  <2>1. \A c \in changes : c.note \in Note
    BY DEF ServerInv, ServerTypeOK, LogEntry
  <2> QED
    BY <1>1, <1>6, <2>1 DEF ServerInv, LogMatchesStore, IsLatest
<1>12. IssuedSoFar'
  <2>1. \A a \in issued : a.note \in Note
    BY DEF ServerInv, ServerTypeOK
  <2> QED
    BY <1>1, <1>6, <2>1 DEF ServerInv, IssuedSoFar
<1> QED
  BY <1>6, <1>8, <1>9, <1>10, <1>11, <1>12 DEF ServerInv

(* The cleanup turns each expired note's row into a tombstone one version
   further on, and leaves every other note alone. *)
LEMMA CleanupEffect ==
    ASSUME ServerInv, CleanupTrash
    PROVE  /\ Expired \in SUBSET Note
           /\ \A n \in Expired : /\ HasRow(n) /\ rows'[n] = None
                                 /\ tombs'[n] \in Tombstone /\ tombs'[n] # None
                                 /\ Version(n)' = Version(n) + 1
           /\ \A n \in Note \ Expired :
                rows'[n] = rows[n] /\ tombs'[n] = tombs[n]
<1>1. Expired \in SUBSET Note
  BY DEF Expired
<1>2. /\ rows' = [n \in Note |-> IF n \in Expired THEN None ELSE rows[n]]
      /\ tombs' = [n \in Note |->
                     IF n \in Expired
                     THEN [device |-> rows[n].device,
                           version |-> NextVersionAfter(rows[n].version)]
                     ELSE tombs[n]]
  BY DEF CleanupTrash
<1>3. ASSUME NEW n \in Expired
      PROVE  /\ HasRow(n) /\ rows'[n] = None
             /\ tombs'[n] \in Tombstone /\ tombs'[n] # None
             /\ Version(n)' = Version(n) + 1
  <2>1. n \in Note /\ HasRow(n) /\ rows[n] \in Row
    BY DEF Expired, HasRow, ServerInv, ServerTypeOK
  <2>2. /\ rows'[n] = None
        /\ tombs'[n] = [device |-> rows[n].device,
                        version |-> rows[n].version + 1]
    BY <1>2, <2>1 DEF NextVersionAfter
  <2>3. tombs'[n] \in Tombstone
    BY <2>1, <2>2 DEF Row, Tombstone
  <2> QED
    BY <2>1, <2>2, <2>3 DEF Version, HasRow, HasTombstone
<1> QED
  BY <1>1, <1>2, <1>3

(* The cleanup preserves the invariant. *)
LEMMA CleanupInv ==
    ASSUME ServerInv, CleanupTrash
    PROVE  ServerInv'
<1>1. /\ Expired \in SUBSET Note
      /\ \A n \in Expired : /\ HasRow(n) /\ rows'[n] = None
                            /\ tombs'[n] \in Tombstone /\ tombs'[n] # None
                            /\ Version(n)' = Version(n) + 1
      /\ \A n \in Note \ Expired : rows'[n] = rows[n] /\ tombs'[n] = tombs[n]
  BY CleanupEffect
<1>2. PICK f \in Numberings(Expired) :
          changes' = changes \union Log(f, Expired, "delete")
  BY DEF CleanupTrash
<1>3. lastRev' = lastRev + Cardinality(Expired) /\ issued' = issued
  BY DEF CleanupTrash
<1>4. /\ changes' \subseteq LogEntry /\ lastRev' \in Nat
      /\ LogOrdered' /\ NewestKept'
      /\ \A c \in changes' : IsLatest(c, changes') =>
            IF c.note \in Expired THEN c.op = "delete"
            ELSE c \in changes /\ IsLatest(c, changes)
      /\ \A n \in Expired : \E c \in changes' : c.note = n
  BY <1>1, <1>2, <1>3, LogGrows DEF ServerInv, Operation
<1>5. \A n \in Note : Version(n) \in Nat
  BY VersionType DEF ServerInv
<1>6. \A n \in Note \ Expired : /\ HasRow(n)' <=> HasRow(n)
                                /\ HasTombstone(n)' <=> HasTombstone(n)
                                /\ Version(n)' = Version(n)
  BY <1>1 DEF HasRow, HasTombstone, Version
<1>7. \A n \in Expired : ~HasRow(n)' /\ HasTombstone(n)'
  BY <1>1 DEF HasRow, HasTombstone
<1>8. ServerTypeOK'
  <2>1. rows' \in [Note -> Row \union {None}]
    <3>1. rows' = [n \in Note |-> rows'[n]]
      BY DEF CleanupTrash
    <3> QED
      BY <1>1, <3>1 DEF ServerInv, ServerTypeOK
  <2>2. tombs' \in [Note -> Tombstone \union {None}]
    <3>1. tombs' = [n \in Note |-> tombs'[n]]
      BY DEF CleanupTrash
    <3>2. \A n \in Note : tombs'[n] \in Tombstone \union {None}
      BY <1>1 DEF ServerInv, ServerTypeOK
    <3> QED
      BY <3>1, <3>2
  <2> QED
    BY <1>3, <1>4, <2>1, <2>2 DEF ServerInv, ServerTypeOK
<1>9. RowOrTombstone'
  BY <1>6, <1>7 DEF ServerInv, RowOrTombstone
<1>10. LogMatchesStore'
  <2>1. ASSUME NEW c \in changes', IsLatest(c, changes')
        PROVE  IF c.op = "upsert" THEN HasRow(c.note)' /\ ~HasTombstone(c.note)'
               ELSE HasTombstone(c.note)' /\ ~HasRow(c.note)'
    <3>1. c.note \in Note
      BY <1>4 DEF LogEntry
    <3>2. CASE c.note \in Expired
      BY <1>4, <1>7, <2>1, <3>2
    <3>3. CASE c.note \notin Expired
      BY <1>4, <1>6, <2>1, <3>1, <3>3 DEF ServerInv, LogMatchesStore
    <3> QED
      BY <3>2, <3>3
  <2>2. ASSUME NEW n \in Note, HasRow(n)' \/ HasTombstone(n)'
        PROVE  \E c \in changes' : c.note = n
    <3>1. CASE n \in Expired
      BY <1>4, <3>1
    <3>2. CASE n \notin Expired
      BY <1>2, <1>6, <2>2, <3>2 DEF ServerInv, LogMatchesStore
    <3> QED
      BY <3>1, <3>2
  <2> QED
    BY <2>1, <2>2 DEF LogMatchesStore
<1>11. IssuedSoFar'
  <2>1. \A a \in issued : /\ a.note \in Note /\ a.version \in Nat
                          /\ a.version <= Version(a.note)
    BY DEF ServerInv, ServerTypeOK, IssuedSoFar
  <2> QED
    BY <1>1, <1>3, <1>5, <1>6, <2>1 DEF IssuedSoFar
<1>12. VersionNamesOneRecord'
  BY <1>3 DEF ServerInv, VersionNamesOneRecord
<1> QED
  BY <1>4, <1>8, <1>9, <1>10, <1>11, <1>12 DEF ServerInv

(* Compaction keeps the newest entry of every note: afterwards the same
   entries are newest. *)
LEMMA CompactInv ==
    ASSUME ServerInv, CompactEntityChanges
    PROVE  /\ ServerInv'
           /\ \A n \in Note : /\ HasRow(n)' <=> HasRow(n)
                              /\ Version(n)' = Version(n)
                              /\ Visible(n)' = Visible(n)
<1>1. /\ changes' = {c \in changes : IsLatest(c, changes)}
      /\ UNCHANGED <<rows, tombs, lastRev, issued>>
  BY DEF CompactEntityChanges
<1>2. \A n : /\ HasRow(n)' <=> HasRow(n)
             /\ HasTombstone(n)' <=> HasTombstone(n)
             /\ Version(n)' = Version(n)
             /\ Visible(n)' = Visible(n)
  BY <1>1 DEF HasRow, HasTombstone, Version, Visible
<1>3. ServerTypeOK'
  BY <1>1 DEF ServerInv, ServerTypeOK
<1>4. LogOrdered' /\ RowOrTombstone' /\ IssuedSoFar' /\ VersionNamesOneRecord'
  BY <1>1, <1>2 DEF ServerInv, LogOrdered, RowOrTombstone, IssuedSoFar,
                    VersionNamesOneRecord
<1>5. \A c \in changes' : c \in changes /\ IsLatest(c, changes)
                          /\ IsLatest(c, changes')
  BY <1>1 DEF IsLatest
<1>6. NewestKept'
  BY <1>1, <1>5 DEF NewestKept
<1>7. LogMatchesStore'
  <2>1. ASSUME NEW n \in Note, HasRow(n)' \/ HasTombstone(n)'
        PROVE  \E c \in changes' : c.note = n
    <3>1. PICK c \in changes : c.note = n
      BY <1>2, <2>1 DEF ServerInv, LogMatchesStore
    <3>2. PICK e \in changes : e.note = c.note /\ IsLatest(e, changes)
      BY <3>1 DEF ServerInv, NewestKept
    <3> QED
      BY <1>1, <3>1, <3>2
  <2> QED
    BY <1>2, <1>5, <2>1 DEF ServerInv, LogMatchesStore
<1> QED
  BY <1>2, <1>3, <1>4, <1>6, <1>7 DEF ServerInv

(* Every step of the server preserves the invariant. *)
LEMMA ServerInvNext == ServerInv /\ [ServerNext]_serverVars => ServerInv'
<1> SUFFICES ASSUME ServerInv, [ServerNext]_serverVars
             PROVE  ServerInv'
  OBVIOUS
<1>1. ASSUME NEW d \in Device, NEW batch \in Batch, Push(d, batch)
      PROVE  ServerInv'
  BY <1>1, BatchIsRequest, PushInv
<1>2. ASSUME NEW n \in Note, Age(n)
      PROVE  ServerInv'
  BY <1>2, AgeInv
<1>3. CASE CleanupTrash
  BY <1>3, CleanupInv
<1>4. CASE CompactEntityChanges
  BY <1>4, CompactInv
<1>5. CASE UNCHANGED serverVars
  BY <1>5 DEF serverVars, ServerInv, ServerTypeOK, LogOrdered, NewestKept,
              RowOrTombstone, LogMatchesStore, IssuedSoFar,
              VersionNamesOneRecord, HasRow, HasTombstone, Version, IsLatest
<1> QED
  BY <1>1, <1>2, <1>3, <1>4, <1>5 DEF ServerNext

(* The inductive invariant holds in every state of the server. *)
THEOREM ServerInvariant == ServerSpec => []ServerInv
BY ServerInvInit, ServerInvNext, PTL DEF ServerSpec

(***************************************************************************)
(* The theorems a reader should know of.                                   *)
(***************************************************************************)
(* The tables keep their types, whatever is pushed, purged or compacted. *)
THEOREM ServerTypeCorrect == ServerSpec => []ServerTypeOK
<1>1. ServerInv => ServerTypeOK
  BY DEF ServerInv
<1> QED
  BY <1>1, ServerInvariant, PTL

(* One version of a note never names two records. *)
THEOREM VersionIdentity == ServerSpec => []VersionNamesOneRecord
<1>1. ServerInv => VersionNamesOneRecord
  BY DEF ServerInv
<1> QED
  BY <1>1, ServerInvariant, PTL

(* The newest log entry of a note always tells what the tables hold of it. *)
THEOREM LogAgreement == ServerSpec => []LogMatchesStore
<1>1. ServerInv => LogMatchesStore
  BY DEF ServerInv
<1> QED
  BY <1>1, ServerInvariant, PTL

(* No transaction moves a note's version back, or changes the note without
   moving its version forward. *)
LEMMA VersionStepHolds ==
    ServerInv /\ [ServerNext]_serverVars => VersionStep
<1> SUFFICES ASSUME ServerInv, [ServerNext]_serverVars, NEW n \in Note
             PROVE  /\ Version(n)' >= Version(n)
                    /\ Visible(n)' # Visible(n) => Version(n)' > Version(n)
  BY DEF VersionStep
<1>1. Version(n) \in Nat
  BY VersionType DEF ServerInv
<1>2. ASSUME rows'[n] = rows[n], tombs'[n] = tombs[n]
      PROVE  Version(n)' = Version(n) /\ Visible(n)' = Visible(n)
  BY <1>2 DEF Version, Visible, HasRow, HasTombstone
<1>3. ASSUME NEW d \in Device, NEW batch \in Batch, Push(d, batch)
      PROVE  \/ Version(n)' = Version(n) /\ Visible(n)' = Visible(n)
             \/ Version(n)' = Version(n) + 1
  BY <1>2, <1>3, BatchIsRequest, PushEffect
<1>4. ASSUME CleanupTrash
      PROVE  \/ Version(n)' = Version(n) /\ Visible(n)' = Visible(n)
             \/ Version(n)' = Version(n) + 1
  BY <1>2, <1>4, CleanupEffect
<1>5. ASSUME NEW m \in Note, Age(m)
      PROVE  Version(n)' = Version(n) /\ Visible(n)' = Visible(n)
  BY <1>5, AgeInv
<1>6. CASE CompactEntityChanges
  BY <1>1, <1>6, CompactInv
<1>7. CASE UNCHANGED serverVars
  BY <1>1, <1>2, <1>7 DEF serverVars
<1> QED
  BY <1>1, <1>3, <1>4, <1>5, <1>6, <1>7 DEF ServerNext

(* The version a client has to name only moves forward, and moves with every
   change of the note or of its existence. *)
THEOREM VersionsForward == ServerSpec => VersionsMoveForward
<1>1. ServerInv /\ [ServerNext]_serverVars => [VersionStep]_serverVars
  BY VersionStepHolds
<1> QED
  BY <1>1, ServerInvariant, PTL DEF ServerSpec, VersionsMoveForward
=============================================================================
