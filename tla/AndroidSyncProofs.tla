------------------------- MODULE AndroidSyncProofs -------------------------
(***************************************************************************)
(* What holds of AndroidSync for any notes, edits and bounds, as long as   *)
(* none of its windows is open (Closed): no edit is lost wherever a sync,  *)
(* an operation or a resolution is cut off, the server's text is never     *)
(* silently overwritten, the dialog shows a note in conflict as it is, and *)
(* what is marked as synced is the server's.                               *)
(*                                                                         *)
(* The invariant says what every copy of a note the phone has under way    *)
(* claims about the server (InView), as in NoteSyncProofs; but here an     *)
(* operation may write a row it read long ago (UsingInv), a note in        *)
(* conflict may be edited and pushed again, so that it gets another        *)
(* conflict, and a resolution may be cut off between its writes and be     *)
(* made again (ResolvingInv).                                              *)
(***************************************************************************)
EXTENDS AndroidSync, NoteServerProofs

Closed == Loose = {}

(***************************************************************************)
(* The server as the phone depends on it.                                  *)
(***************************************************************************)
Text(n) == IF HasRow(n) THEN rows[n].content ELSE {}
Ours(n) == HasRow(n) /\ rows[n].device = Phone

Seen(n, v, text) ==
    /\ v <= Version(n)
    /\ HasRow(n) /\ v = Version(n) => Text(n) \subseteq text \union dropped

(* Whoever names the version v of a note has seen what it holds, and what the
   phone wrote itself. *)
InView(n, v, text) ==
    /\ Seen(n, v, text)
    /\ Ours(n) => Text(n) \subseteq text \union dropped

InServer(n, text) == text \subseteq Text(n) \union dropped

(* A record the server gave out: an answer to a pull or a refusal. *)
Known(n, t) ==
    /\ t.version >= 1
    /\ Seen(n, t.version, t.content)
    /\ HasRow(n) /\ Version(n) = t.version => rows[n].device = t.device
    /\ t.life # "deleted" => InServer(n, t.content)

(***************************************************************************)
(* The phone.                                                              *)
(***************************************************************************)
Open == {conflicts[i] : i \in DOMAIN conflicts}

Held(n) == IF Has(n) THEN local[n].content ELSE {}
Unsynced(n) == Has(n) /\ local[n].status # "synced"

InRefused(n) == \E c \in refused : c.note = n
Unsettled(n) ==
    /\ n \in DOMAIN sent
    /\ step \in {"prepare", "push"} \/ n \in DOMAIN accepted \/ InRefused(n)

(* What a sync holds at each of its steps.  What it has read is still there:
   nobody writes to it in between. *)
Phase ==
    /\ step \notin {"prepare", "push", "answered"} => DOMAIN sent = {}
    /\ step # "answered" => DOMAIN accepted = {} /\ refused = {}
    /\ step # "pulled" => DOMAIN page.notes = {} /\ page.deletes = {}
    /\ step = "prepare" => \A n \in DOMAIN sent : local[n] = sent[n]
    /\ reading # None =>
          /\ reading.seen = local[reading.note]
          /\ reading.where = "mark" =>
                step = "answered" /\ reading.note \in DOMAIN accepted
          /\ reading.where = "absorb" =>
                /\ step = "answered"
                /\ \E c \in refused : OwnEcho(c) /\ c.note = reading.note
          /\ reading.where = "delete" =>
                step = "pulled" /\ reading.note \in page.deletes
          /\ reading.where = "merge" =>
                step = "pulled" /\ reading.note \in DOMAIN page.notes

LocalInv(n) ==
    /\ Has(n) => InView(n, local[n].base, local[n].content)
    /\ ~Has(n) /\ Ours(n) => Text(n) \subseteq dropped

(* What was sent is still there, or has grown, until its answer is handled. *)
SentInv(n) ==
    Unsettled(n) =>
        /\ sent[n].status = "pending"
        /\ Seen(n, sent[n].base, sent[n].content)
        /\ Has(n) => Unsynced(n)
        /\ sent[n].content \subseteq Held(n) \union dropped

AnswerInv(n) ==
    n \in DOMAIN accepted =>
        /\ n \in DOMAIN sent
        /\ Seen(n, accepted[n], sent[n].content)
        /\ InServer(n, sent[n].content)

RefusedInv(n) ==
    \A c \in refused : c.note = n =>
        /\ n \in DOMAIN sent /\ n \notin DOMAIN accepted
        /\ Known(n, c.theirs)
        /\ c.theirs.content \subseteq sent[n].content \union Text(n) \union dropped
        /\ c.mine = Side(sent[n])
        /\ \A b \in refused : b.note = n => b = c

ConflictInv(n) ==
    \A c \in Open : c.note = n =>
        /\ Known(n, c.theirs)
        /\ c.reason = "remote_changed" => c.theirs.device # Phone
        /\ c.theirs.content \subseteq c.mine.content \union Text(n) \union dropped

PageInv(n) ==
    /\ n \in DOMAIN page.notes =>
          /\ Known(n, page.notes[n])
          /\ InServer(n, page.notes[n].content)
          /\ Ours(n) => Version(n) <= page.notes[n].version
    /\ n \in page.deletes => ~HasRow(n) /\ HasTombstone(n)

(* An operation under way has in view what its note will be replaced by. *)
UsingInv(n) ==
    using # None /\ using.note = n =>
        /\ InView(n, using.seen.base, using.seen.content)
        /\ Unsynced(n) => local[n].content
                             \subseteq using.seen.content \union dropped

(* A resolution that has not yet written its record will replace nothing that
   is not on one of the sides, or was given up with the choice. *)
ResolvingInv(n) ==
    resolving # None /\ resolving.of.note = n =>
        LET c == resolving.of IN
        /\ using # None => using.note # n
        /\ resolving.left = "record" =>
              /\ Unsynced(n) => local[n].content \subseteq
                    c.mine.content \union c.theirs.content \union dropped
              /\ resolving.choice = "keep-local" =>
                    /\ c.theirs.content \subseteq c.mine.content \union dropped
                    /\ Ours(n) => Text(n) \subseteq c.mine.content \union dropped
              /\ resolving.choice = "keep-remote" =>
                    c.mine.content \subseteq dropped \union
                       IF c.theirs.life = "deleted" THEN {} ELSE c.theirs.content
        /\ resolving.left = "copy" => resolving.choice = "duplicate-both"

(* The first conflict is being resolved, and its record is written. *)
Answered == resolving # None /\ resolving.left # "record"

ShownInv(n) ==
    Has(n) /\ local[n].status = "conflict" =>
        \E i \in DOMAIN conflicts : /\ conflicts[i].note = n
                                    /\ conflicts[i].mine = Side(local[n])
                                    /\ Answered => i > 1

NoteInv(n) ==
    /\ LocalInv(n) /\ SentInv(n) /\ AnswerInv(n) /\ RefusedInv(n)
    /\ ConflictInv(n) /\ PageInv(n) /\ UsingInv(n) /\ ResolvingInv(n)
    /\ ShownInv(n)

(* Where the phone keeps an edit that the server need not have. *)
Holds(e) ==
    \/ \E n \in Note : Unsynced(n) /\ e \in local[n].content
    \/ \E i \in DOMAIN conflicts :
          /\ e \in conflicts[i].mine.content
          /\ resolving # None /\ resolving.left = "status" => i > 1

OnServer(e) == \E n \in Note : e \in Text(n)

Kept == \A e \in used : e \in dropped \/ OnServer(e) \/ Holds(e)

PhoneInv ==
    /\ ServerInv
    /\ AndroidTypeOK /\ Phase
    /\ \A n \in Note : NoteInv(n)
    /\ Kept

USE AndroidAssumption, UnderWayAssumption
USE NoteAssumption, NoneAssumption, LifeAssumption, BoundAssumption

(***************************************************************************)
(* The server goes on.                                                     *)
(***************************************************************************)
SameSide(a, b) == a.content = b.content /\ a.life = b.life

NoteSame(n) ==
    /\ Version(n)' = Version(n) /\ (HasRow(n)' <=> HasRow(n))
    /\ (HasTombstone(n)' <=> HasTombstone(n))
    /\ HasRow(n) => SameSide(rows'[n], rows[n]) /\ rows'[n].device = rows[n].device

NoteMoved(n) ==
    /\ Version(n)' \in Nat /\ Version(n)' > Version(n)
    /\ \E c \in changes' : c.note = n /\ c.rev > lastRev

(* A note is left alone, or somebody else moves it and keeps its text. *)
Onward ==
    /\ changes \subseteq changes' /\ dropped \subseteq dropped'
    /\ lastRev' \in Nat /\ lastRev' >= lastRev
    /\ \A n \in Note :
          /\ Text(n) \subseteq Text(n)' \union dropped'
          /\ \/ NoteSame(n)
             \/ NoteMoved(n) /\ ~Ours(n)' /\ (HasRow(n) \/ ~HasTombstone(n))

LEMMA SameStore ==
    ASSUME UNCHANGED serverVars
    PROVE  \A n : /\ NoteSame(n) /\ Version(n)' = Version(n)
                  /\ (HasRow(n)' <=> HasRow(n)) /\ Text(n)' = Text(n)
                  /\ (HasTombstone(n)' <=> HasTombstone(n))
                  /\ (Ours(n)' <=> Ours(n)) /\ rows'[n] = rows[n]
BY DEF serverVars, NoteSame, Version, HasRow, HasTombstone, SameSide, Text, Ours

LEMMA SameIsOnward ==
    ASSUME UNCHANGED serverVars, dropped \subseteq dropped', ServerTypeOK
    PROVE  Onward
<1>1. \A n : NoteSame(n) /\ Text(n)' = Text(n)
  BY SameStore
<1>2. changes' = changes /\ lastRev' = lastRev /\ lastRev \in Nat
  BY DEF serverVars, ServerTypeOK
<1> QED
  BY <1>1, <1>2 DEF Onward

LEMMA SameStoreInv ==
    ASSUME UNCHANGED serverVars, ServerInv
    PROVE  ServerInv'
BY ServerInvNext

(* A row is at the version 1 at least. *)
LEMMA RowFacts ==
    ASSUME ServerTypeOK, NEW n \in Note
    PROVE  /\ Version(n) \in Nat
           /\ HasRow(n) => /\ rows[n] \in Row /\ rows[n].version = Version(n)
                           /\ Version(n) >= 1
           /\ HasTombstone(n) => tombs[n] \in Tombstone
           /\ ~HasRow(n) /\ HasTombstone(n) => Version(n) = tombs[n].version
                                               /\ Version(n) >= 1
<1>1. Version(n) \in Nat
  BY VersionType
<1>2. /\ HasRow(n) => rows[n] \in Row
      /\ HasTombstone(n) => tombs[n] \in Tombstone
  BY DEF ServerTypeOK, HasRow, HasTombstone
<1> QED
  BY <1>1, <1>2 DEF Version, Row, Tombstone

(* What one push of any batch does to the notes it writes. *)
LEMMA PushFacts ==
    ASSUME ServerInv, NEW d \in Device, NEW batch, Request(batch), Push(d, batch)
    PROVE  /\ ServerInv' /\ changes \subseteq changes'
           /\ lastRev' \in Nat /\ lastRev' >= lastRev
           /\ Written(batch) \subseteq DOMAIN batch
           /\ \A n \in Written(batch) :
                 /\ n \in Note /\ NoteMoved(n) /\ HasRow(n)'
                 /\ Version(n)' = Version(n) + 1
                 /\ rows'[n].device = d /\ SameSide(rows'[n], batch[n])
                 /\ Text(n)' = batch[n].content
           /\ \A n \in Note \ Written(batch) : NoteSame(n) /\ Text(n)' = Text(n)
<1>0. ServerTypeOK /\ lastRev \in Nat
  BY DEF ServerInv, ServerTypeOK
<1> DEFINE W == Written(batch)
<1>1. /\ W \in SUBSET Note
      /\ \A n \in W : /\ rows'[n] = NewRow(d, n, batch[n])
                      /\ rows'[n] \in Row /\ rows'[n] # None
                      /\ tombs'[n] = None
                      /\ Version(n)' = Version(n) + 1
      /\ \A n \in Note \ W : rows'[n] = rows[n] /\ tombs'[n] = tombs[n]
  BY PushEffect
<1>2. W \subseteq DOMAIN batch
  BY DEF Written
<1>3. PICK f \in Numberings(W) : changes' = changes \union Log(f, W, "upsert")
  BY DEF Push
<1>4. lastRev' = lastRev + Cardinality(W)
  BY DEF Push
<1>5. ServerInv'
  BY PushInv
<1> HIDE DEF W
<1>6. Cardinality(W) \in Nat /\ \A n \in W : f[n] > lastRev
  BY <1>0, <1>1, <1>3, NumberingFacts
<1>7. ASSUME NEW n \in W
      PROVE  /\ n \in Note /\ NoteMoved(n) /\ HasRow(n)'
             /\ rows'[n].device = d /\ SameSide(rows'[n], batch[n])
             /\ Text(n)' = batch[n].content
  <2>1. [rev |-> f[n], note |-> n, op |-> "upsert"] \in changes'
    BY <1>3 DEF Log
  <2>2. \E c \in changes' : c.note = n /\ c.rev > lastRev
    BY <1>6, <2>1
  <2>3. n \in Note /\ Version(n) \in Nat
    BY <1>0, <1>1, RowFacts
  <2>4. NoteMoved(n)
    BY <1>1, <2>2, <2>3 DEF NoteMoved
  <2>5. /\ rows'[n].content = batch[n].content /\ rows'[n].life = batch[n].life
        /\ rows'[n].device = d
    <3>1. /\ NewRow(d, n, batch[n]).content = batch[n].content
          /\ NewRow(d, n, batch[n]).life = batch[n].life
          /\ NewRow(d, n, batch[n]).device = d
      BY DEF NewRow
    <3> QED
      BY <1>1, <3>1
  <2> QED
    BY <1>1, <2>3, <2>4, <2>5 DEF HasRow, SameSide, Text
<1>8. ASSUME NEW n \in Note \ W
      PROVE  NoteSame(n) /\ Text(n)' = Text(n)
  BY <1>1 DEF NoteSame, Version, HasRow, HasTombstone, SameSide, Text
<1>9. changes \subseteq changes' /\ lastRev' \in Nat /\ lastRev' >= lastRev
  BY <1>0, <1>3, <1>4, <1>6
<1> QED
  BY <1>1, <1>2, <1>5, <1>7, <1>8, <1>9 DEF W

(* The other device writes with the server's text in view. *)
LEMMA OtherOnward ==
    ASSUME ServerInv, used \subseteq Edit,
           NEW n \in Note, NEW life \in Life, NEW e \in Edit, OtherPushes(n, life, e)
    PROVE  /\ Onward /\ ServerInv' /\ OnServer(e)'
           /\ \A m \in Note : Version(m) = 0 /\ Has(m) => NoteSame(m)
<1> DEFINE text == {e} \union (IF HasRow(n) THEN rows[n].content ELSE {})
           ch == [content |-> text, life |-> life, base |-> Version(n), stripped |-> FALSE]
           batch == [m \in {n} |-> ch]
<1>1. Push(Other, batch) /\ dropped' = dropped
  BY DEF OtherPushes
<1>2. Version(n) \in Nat /\ (HasRow(n) => rows[n] \in Row)
  BY RowFacts DEF ServerInv
<1>3. text \in Content /\ e \in text /\ Text(n) \subseteq text
  <2>1. HasRow(n) => rows[n].content \in Content
    BY <1>2 DEF Row
  <2> QED
    BY <2>1 DEF Text
<1> HIDE DEF text
<1>4. ch.content = text /\ ch.life = life /\ ch.base = Version(n) /\ ch.stripped = FALSE
  OBVIOUS
<1> HIDE DEF ch
<1>5. /\ DOMAIN batch = {n} /\ batch[n] = ch
      /\ Request(batch)
  BY <1>3, <1>4 DEF Request
<1> HIDE DEF batch
<1>6. /\ ServerInv' /\ changes \subseteq changes'
      /\ lastRev' \in Nat /\ lastRev' >= lastRev
      /\ Written(batch) \subseteq DOMAIN batch
      /\ \A m \in Written(batch) :
            /\ NoteMoved(m) /\ HasRow(m)'
            /\ rows'[m].device = Other
            /\ Text(m)' = batch[m].content
      /\ \A m \in Note \ Written(batch) : NoteSame(m) /\ Text(m)' = Text(m)
  <2>1. Other \in Device
    OBVIOUS
  <2> QED
    BY <1>1, <1>5, <2>1, PushFacts
<1>7. \A m \in Note : Text(m) \subseteq Text(m)'
  BY <1>3, <1>4, <1>5, <1>6
<1>8. ASSUME NEW m \in Written(batch)
      PROVE  /\ m = n /\ ~Ours(m)' /\ (HasRow(m) \/ ~HasTombstone(m))
             /\ ~(Version(m) = 0 /\ Has(m))
  <2>1. m = n /\ rows'[m].device = Other
    BY <1>5, <1>6
  <2>2. ~Ours(m)'
    BY <2>1 DEF Ours
  <2>3. ~HasRow(n) => Version(n) = 0 /\ ~Has(n)
    BY DEF OtherPushes, Fresh
  <2>4. /\ HasRow(n) => Version(n) >= 1
        /\ ~HasRow(n) /\ HasTombstone(n) => Version(n) >= 1
    BY RowFacts DEF ServerInv
  <2> QED
    BY <2>1, <2>2, <2>3, <2>4
<1>9. OnServer(e)'
  <2>1. e \in Text(n)'
    <3>1. CASE n \in Written(batch)
      BY <1>3, <1>4, <1>5, <1>6, <3>1
    <3>2. CASE n \notin Written(batch)
      <4>1. ~Writes(n, ch)
        BY <1>5, <3>2 DEF Written
      <4>2. ~Refused(n, ch)
        <5>1. ~HasRow(n) => Version(n) = 0
          BY DEF OtherPushes, Fresh
        <5>2. HasTombstone(n) /\ ~HasRow(n) => Version(n) >= 1
          BY RowFacts DEF ServerInv
        <5>3. HasRow(n) => Version(n) = rows[n].version
          BY DEF Version
        <5> QED
          BY <1>4, <5>1, <5>2, <5>3 DEF Refused, DeletedRemotely, RemoteChanged, ShouldConflict
      <4>3. HasRow(n) /\ rows[n].content = text
        BY <1>4, <4>1, <4>2 DEF Writes, AlreadyThere, RecordsDiffer
      <4> QED
        BY <1>3, <1>6, <3>2, <4>3 DEF Text
    <3> QED
      BY <3>1, <3>2
  <2> QED
    BY <2>1 DEF OnServer
<1> QED
  BY <1>1, <1>6, <1>7, <1>8, <1>9 DEF Onward

(* The retention drops what it purges, and ages the rest. *)
LEMMA RetentionOnward ==
    ASSUME ServerInv, Retention
    PROVE  Onward /\ ServerInv' /\ \A m \in Note : Version(m) = 0 => NoteSame(m)
<1>0. /\ ServerTypeOK /\ lastRev \in Nat
      /\ \A n \in Note : Version(n) \in Nat
  BY RowFacts DEF ServerInv, ServerTypeOK
<1>1. CASE (\E n \in Note : Age(n)) /\ UNCHANGED dropped
  <2>1. PICK n \in Note : Age(n)
    BY <1>1
  <2>2. /\ ServerInv'
        /\ \A m \in Note : /\ HasRow(m)' <=> HasRow(m)
                           /\ HasTombstone(m)' <=> HasTombstone(m)
                           /\ Version(m)' = Version(m)
    BY <2>1, AgeInv
  <2>3. rows' = [rows EXCEPT ![n].aged = TRUE] /\ changes' = changes /\ lastRev' = lastRev
    BY <2>1 DEF Age
  <2>4. ASSUME NEW m \in Note, HasRow(m)
        PROVE  SameSide(rows'[m], rows[m]) /\ rows'[m].device = rows[m].device
    <3>1. rows[m] \in Row
      BY <1>0, <2>4 DEF ServerTypeOK, HasRow
    <3> QED
      BY <1>0, <2>3, <3>1 DEF Row, ServerTypeOK, SameSide
  <2>5. \A m \in Note : NoteSame(m)
    BY <2>2, <2>4 DEF NoteSame
  <2>6. \A m \in Note : Text(m)' = Text(m)
    BY <2>2, <2>4 DEF Text, SameSide
  <2> QED
    BY <1>0, <1>1, <2>2, <2>3, <2>5, <2>6 DEF Onward
<1>2. CASE CleanupTrash /\ dropped' = dropped \union UNION {rows[n].content : n \in Expired}
  <2>1. /\ Expired \in SUBSET Note
        /\ \A n \in Expired : /\ HasRow(n) /\ rows'[n] = None
                              /\ Version(n)' = Version(n) + 1
        /\ \A n \in Note \ Expired : rows'[n] = rows[n] /\ tombs'[n] = tombs[n]
    BY <1>0, <1>2, CleanupEffect
  <2>2. PICK f \in Numberings(Expired) : changes' = changes \union Log(f, Expired, "delete")
    BY <1>2 DEF CleanupTrash
  <2>3. Cardinality(Expired) \in Nat /\ \A n \in Expired : f[n] > lastRev
    BY <1>0, <2>1, <2>2, NumberingFacts
  <2>4. lastRev' = lastRev + Cardinality(Expired)
    BY <1>2 DEF CleanupTrash
  <2>5. ASSUME NEW n \in Expired
        PROVE  NoteMoved(n) /\ ~Ours(n)' /\ HasRow(n) /\ Text(n) \subseteq dropped'
    <3>1. [rev |-> f[n], note |-> n, op |-> "delete"] \in changes'
      BY <2>2 DEF Log
    <3>2. \E c \in changes' : c.note = n /\ c.rev > lastRev
      BY <2>3, <3>1
    <3>3. Version(n)' > Version(n) /\ Version(n)' \in Nat
      BY <1>0, <2>1
    <3>4. rows[n].content \subseteq dropped'
      BY <1>2
    <3> QED
      BY <2>1, <3>2, <3>3, <3>4 DEF NoteMoved, Ours, HasRow, Text
  <2>6. ASSUME NEW n \in Note \ Expired
        PROVE  NoteSame(n) /\ Text(n)' = Text(n)
    BY <2>1 DEF NoteSame, Version, HasRow, HasTombstone, SameSide, Text
  <2>7. \A n \in Expired : Version(n) # 0
    BY <1>0, <2>1, RowFacts
  <2>8. ServerInv'
    BY <1>2, CleanupInv
  <2>9. changes \subseteq changes' /\ lastRev' \in Nat /\ lastRev' >= lastRev /\ dropped \subseteq dropped'
    BY <1>0, <1>2, <2>2, <2>3, <2>4
  <2> QED
    BY <2>1, <2>5, <2>6, <2>7, <2>8, <2>9 DEF Onward
<1> QED
  BY <1>1, <1>2 DEF Retention


(***************************************************************************)
(* What was said of the server stays true while it goes on.                *)
(***************************************************************************)
LEMMA StaysSeen ==
    ASSUME ServerTypeOK, Onward, NEW n \in Note, NEW v \in Nat, NEW text
    PROVE  /\ Seen(n, v, text) => Seen(n, v, text)'
           /\ InView(n, v, text) => InView(n, v, text)'
           /\ InServer(n, text) => InServer(n, text)'
<1>1. Version(n) \in Nat
  BY VersionType
<1>2. NoteSame(n) => /\ Text(n)' = Text(n) /\ Version(n)' = Version(n)
                     /\ (Ours(n)' <=> Ours(n)) /\ (HasRow(n)' <=> HasRow(n))
  BY DEF NoteSame, Text, Ours, SameSide
<1>3. dropped \subseteq dropped' /\ Text(n) \subseteq Text(n)' \union dropped'
  BY DEF Onward
<1>4. NoteSame(n) \/ (Version(n)' \in Nat /\ Version(n)' > Version(n) /\ ~Ours(n)')
  BY DEF Onward, NoteMoved
<1>5. Seen(n, v, text) => Seen(n, v, text)'
  BY <1>1, <1>2, <1>3, <1>4 DEF Seen
<1>6. InView(n, v, text) => InView(n, v, text)'
  BY <1>2, <1>3, <1>4, <1>5 DEF InView
<1>7. InServer(n, text) => InServer(n, text)'
  BY <1>3 DEF InServer
<1> QED
  BY <1>5, <1>6, <1>7

LEMMA StaysKnown ==
    ASSUME ServerTypeOK, Onward, NEW n \in Note, NEW t \in Remote, Known(n, t)
    PROVE  Known(n, t)'
<1>1. Version(n) \in Nat
  BY VersionType
<1>2. t.version \in Nat /\ t.content \in Content
  BY DEF Remote
<1>3. NoteSame(n) => /\ Version(n)' = Version(n) /\ (HasRow(n)' <=> HasRow(n))
                     /\ HasRow(n) => rows'[n].device = rows[n].device
  BY DEF NoteSame
<1>4. NoteSame(n) \/ (Version(n)' \in Nat /\ Version(n)' > Version(n))
  BY DEF Onward, NoteMoved
<1>5. PICK v \in Nat, x \in Content : v = t.version /\ x = t.content
  BY <1>2
<1>6. Seen(n, v, x)' /\ (t.life # "deleted" => InServer(n, x)')
  BY <1>5, StaysSeen DEF Known
<1>7. v <= Version(n)
  BY <1>5 DEF Known, Seen
<1> QED
  BY <1>1, <1>2, <1>3, <1>4, <1>5, <1>6, <1>7 DEF Known, Seen, InServer

(***************************************************************************)
(* The parts of the invariant, one by one.                                 *)
(***************************************************************************)
LEMMA LocalTypes ==
    ASSUME AndroidTypeOK, NEW n \in Note
    PROVE  /\ ServerTypeOK /\ lastRev \in Nat
           /\ Has(n) => /\ local[n] \in LocalNote /\ local[n].base \in Nat
                        /\ local[n].version \in Nat /\ local[n].content \in Content
                        /\ local[n].life \in Life /\ local[n].status \in Status
           /\ n \in DOMAIN sent =>
                 /\ sent[n] \in LocalNote /\ sent[n].base \in Nat /\ sent[n].version \in Nat
                 /\ sent[n].content \in Content /\ sent[n].life \in Life
           /\ n \in DOMAIN accepted => accepted[n] \in Nat /\ accepted[n] >= 1
<1>1. /\ local \in [Note -> LocalNote \union {None}]
      /\ NoteMap(sent, LocalNote) /\ NoteMap(accepted, Nat \ {0})
      /\ ServerTypeOK /\ lastRev \in Nat
  BY DEF AndroidTypeOK, ServerTypeOK
<1>2. Has(n) => local[n] \in LocalNote
  BY <1>1 DEF Has
<1>3. n \in DOMAIN sent => sent[n] \in LocalNote
  BY <1>1 DEF NoteMap
<1>4. n \in DOMAIN accepted => accepted[n] \in Nat \ {0}
  BY <1>1 DEF NoteMap
<1> QED
  BY <1>1, <1>2, <1>3, <1>4 DEF LocalNote

LEMMA ConflictTypes ==
    ASSUME AndroidTypeOK
    PROVE  /\ \A c \in Open \union refused :
                 /\ c \in Conflict /\ c.note \in Note
                 /\ c.mine \in Record /\ c.theirs \in Remote
                 /\ c.theirs.version \in Nat /\ c.theirs.content \in Content
                 /\ c.mine.content \in Content /\ c.mine.life \in Life
           /\ conflicts \in Seq(Conflict)
           /\ \A n \in DOMAIN page.notes : /\ n \in Note /\ page.notes[n] \in Remote
                                           /\ page.notes[n].version \in Nat
<1>1. conflicts \in Seq(Conflict) /\ refused \subseteq Conflict /\ NoteMap(page.notes, Remote)
  BY DEF AndroidTypeOK
<1>2. Open \subseteq Conflict
  BY <1>1 DEF Open
<1>3. \A c \in Conflict : /\ c.note \in Note /\ c.mine \in Record /\ c.theirs \in Remote
                          /\ c.theirs.version \in Nat /\ c.theirs.content \in Content
                          /\ c.mine.content \in Content /\ c.mine.life \in Life
  BY DEF Conflict, Record, Remote
<1>4. \A n \in DOMAIN page.notes : /\ n \in Note /\ page.notes[n] \in Remote
                                   /\ page.notes[n].version \in Nat
  BY <1>1 DEF NoteMap, Remote
<1> QED
  BY <1>1, <1>2, <1>3, <1>4

LEMMA UserTypes ==
    ASSUME AndroidTypeOK
    PROVE  /\ using # None => /\ using \in Using /\ using.note \in Note
                              /\ using.seen \in LocalNote /\ using.seen.base \in Nat
                              /\ using.seen.content \in Content
                              /\ using.op \in UserOp
           /\ resolving # None =>
                 /\ resolving \in Resolving /\ resolving.of \in Conflict
                 /\ resolving.of.note \in Note /\ resolving.of \in Open
                 /\ resolving.choice \in Choice
                 /\ resolving.left \in {"record", "copy", "status"}
                 /\ conflicts # <<>> /\ resolving.of = Head(conflicts)
           /\ reading # None =>
                 /\ reading \in Reading /\ reading.note \in Note
                 /\ reading.where \in {"mark", "absorb", "delete", "merge"}
<1>1. /\ using \in Using \union {None} /\ resolving \in Resolving \union {None}
      /\ reading \in Reading \union {None} /\ conflicts \in Seq(Conflict)
      /\ resolving # None => conflicts # <<>> /\ resolving.of = Head(conflicts)
  BY DEF AndroidTypeOK
<1>2. conflicts # <<>> => Head(conflicts) \in Open
  BY <1>1 DEF Open
<1>3. using # None => /\ using \in Using /\ using.note \in Note
                      /\ using.seen \in LocalNote /\ using.seen.base \in Nat
                      /\ using.seen.content \in Content
                      /\ using.op \in UserOp
  BY <1>1 DEF Using, LocalNote
<1>4. resolving # None => /\ resolving \in Resolving /\ resolving.of \in Conflict
                          /\ resolving.of.note \in Note
                          /\ resolving.choice \in Choice
                          /\ resolving.left \in {"record", "copy", "status"}
  BY <1>1 DEF Resolving, Conflict
<1>5. reading # None => /\ reading \in Reading /\ reading.note \in Note
                        /\ reading.where \in {"mark", "absorb", "delete", "merge"}
  BY <1>1 DEF Reading
<1> QED
  BY <1>1, <1>2, <1>3, <1>4, <1>5

LEMMA LocalStays ==
    ASSUME AndroidTypeOK, Onward, NEW n \in Note, LocalInv(n), local'[n] = local[n]
    PROVE  LocalInv(n)'
<1>1. Has(n)' <=> Has(n)
  BY DEF Has
<1>3. ASSUME Has(n)
      PROVE  InView(n, local[n].base, local[n].content)'
  <2>1. PICK b \in Nat, x \in Content : b = local[n].base /\ x = local[n].content
    BY <1>3, LocalTypes
  <2>2. InView(n, b, x)'
    BY <1>3, <2>1, StaysSeen, LocalTypes DEF LocalInv
  <2> QED
    BY <2>1, <2>2 DEF InView, Seen
<1>4. ~Has(n) /\ Ours(n)' => Text(n)' \subseteq dropped'
  <2>1. ~Has(n) => LocalInv(n) /\ (Ours(n) => Text(n) \subseteq dropped)
    BY DEF LocalInv
  <2>2. Ours(n)' => Ours(n) /\ Text(n)' = Text(n)
    BY DEF Onward, NoteSame, Ours, Text, SameSide
  <2> QED
    BY <2>1, <2>2 DEF Onward
<1> QED
  BY <1>1, <1>3, <1>4 DEF LocalInv, InView, Seen

LEMMA SentStays ==
    ASSUME AndroidTypeOK, Onward, NEW n \in Note, SentInv(n),
           Unsettled(n)' => /\ Unsettled(n) /\ sent'[n] = sent[n]
                            /\ Has(n)' => Unsynced(n)'
                            /\ Held(n) \subseteq Held(n)' \union dropped'
    PROVE  SentInv(n)'
<1> SUFFICES ASSUME Unsettled(n)'
             PROVE  /\ sent'[n].status = "pending"
                    /\ Seen(n, sent[n].base, sent[n].content)'
                    /\ Has(n)' => Unsynced(n)'
                    /\ sent'[n].content \subseteq Held(n)' \union dropped'
  BY DEF SentInv
<1>1. /\ Unsettled(n) /\ n \in DOMAIN sent /\ sent'[n] = sent[n]
      /\ Has(n)' => Unsynced(n)' /\ Held(n) \subseteq Held(n)' \union dropped'
  BY DEF Unsettled
<1>2. Seen(n, sent[n].base, sent[n].content)
  BY <1>1 DEF SentInv
<1>3. PICK b \in Nat, x \in Content : b = sent[n].base /\ x = sent[n].content
  BY <1>1, LocalTypes
<1>4. Seen(n, b, x)'
  BY <1>2, <1>3, StaysSeen, LocalTypes
<1>5. dropped \subseteq dropped'
  BY DEF Onward
<1> QED
  BY <1>1, <1>3, <1>4, <1>5 DEF SentInv, Seen

LEMMA AnswerStays ==
    ASSUME AndroidTypeOK, Onward, NEW n \in Note, AnswerInv(n),
           n \in DOMAIN accepted' =>
              /\ n \in DOMAIN accepted /\ accepted'[n] = accepted[n]
              /\ n \in DOMAIN sent' /\ sent'[n] = sent[n]
    PROVE  AnswerInv(n)'
<1> SUFFICES ASSUME n \in DOMAIN accepted'
             PROVE  /\ n \in DOMAIN sent'
                    /\ Seen(n, accepted[n], sent[n].content)'
                    /\ InServer(n, sent[n].content)'
  BY DEF AnswerInv
<1>1. /\ n \in DOMAIN accepted /\ accepted'[n] = accepted[n]
      /\ n \in DOMAIN sent' /\ sent'[n] = sent[n]
  OBVIOUS
<1>2. PICK b \in Nat, x \in Content : b = accepted[n] /\ x = sent[n].content
  BY <1>1, LocalTypes DEF AnswerInv
<1>3. Seen(n, b, x)' /\ InServer(n, x)'
  BY <1>1, <1>2, StaysSeen, LocalTypes DEF AnswerInv
<1> QED
  BY <1>1, <1>2, <1>3 DEF Seen, InServer

LEMMA RefusedStays ==
    ASSUME AndroidTypeOK, Onward, NEW n \in Note, RefusedInv(n),
           \A c \in refused' : c.note = n =>
              /\ c \in refused /\ n \in DOMAIN sent' /\ sent'[n] = sent[n]
              /\ n \in DOMAIN accepted' => n \in DOMAIN accepted
    PROVE  RefusedInv(n)'
<1> SUFFICES ASSUME NEW c \in refused', c.note = n
             PROVE  /\ n \in DOMAIN sent' /\ n \notin DOMAIN accepted'
                    /\ Known(n, c.theirs)'
                    /\ c.theirs.content \subseteq sent'[n].content \union Text(n)' \union dropped'
                    /\ c.mine = Side(sent'[n])
                    /\ \A b \in refused' : b.note = n => b = c
  BY DEF RefusedInv
<1>1. /\ c \in refused /\ n \in DOMAIN sent' /\ sent'[n] = sent[n]
      /\ n \notin DOMAIN accepted' /\ Known(n, c.theirs)
      /\ c.theirs.content \subseteq sent[n].content \union Text(n) \union dropped
      /\ c.mine = Side(sent[n])
  BY DEF RefusedInv
<1>2. Known(n, c.theirs)'
  <2>1. c.theirs \in Remote /\ ServerTypeOK
    BY <1>1, ConflictTypes, LocalTypes
  <2> QED
    BY <1>1, <2>1, StaysKnown
<1>3. dropped \subseteq dropped' /\ Text(n) \subseteq Text(n)' \union dropped'
  BY DEF Onward
<1>4. \A b \in refused' : b.note = n => b = c
  BY <1>1 DEF RefusedInv
<1> QED
  BY <1>1, <1>2, <1>3, <1>4

LEMMA ConflictStays ==
    ASSUME AndroidTypeOK, Onward, NEW n \in Note, ConflictInv(n),
           \A c \in Open' : c.note = n => c \in Open
    PROVE  ConflictInv(n)'
<1> SUFFICES ASSUME NEW c \in Open', c.note = n
             PROVE  /\ Known(n, c.theirs)'
                    /\ c.reason = "remote_changed" => c.theirs.device # Phone
                    /\ c.theirs.content \subseteq c.mine.content \union Text(n)' \union dropped'
  BY DEF ConflictInv
<1>1. /\ c \in Open /\ Known(n, c.theirs)
      /\ c.reason = "remote_changed" => c.theirs.device # Phone
      /\ c.theirs.content \subseteq c.mine.content \union Text(n) \union dropped
  BY DEF ConflictInv
<1>2. Known(n, c.theirs)'
  <2>1. c.theirs \in Remote /\ ServerTypeOK
    BY <1>1, ConflictTypes, LocalTypes
  <2> QED
    BY <1>1, <2>1, StaysKnown
<1>3. dropped \subseteq dropped' /\ Text(n) \subseteq Text(n)' \union dropped'
  BY DEF Onward
<1> QED
  BY <1>1, <1>2, <1>3

LEMMA PageStays ==
    ASSUME AndroidTypeOK, Onward, NEW n \in Note, PageInv(n),
           n \in DOMAIN page'.notes =>
              n \in DOMAIN page.notes /\ page'.notes[n] = page.notes[n],
           n \in page'.deletes => n \in page.deletes
    PROVE  PageInv(n)'
<1>1. ASSUME n \in DOMAIN page'.notes
      PROVE  /\ Known(n, page.notes[n])'
             /\ InServer(n, page.notes[n].content)'
             /\ Ours(n)' => Version(n)' <= page'.notes[n].version
  <2>1. n \in DOMAIN page.notes /\ page'.notes[n] = page.notes[n]
    BY <1>1
  <2>2. PICK t \in Remote : t = page.notes[n]
    BY <2>1, ConflictTypes
  <2>3. Known(n, t) /\ InServer(n, t.content) /\ (Ours(n) => Version(n) <= t.version)
    BY <2>1, <2>2 DEF PageInv
  <2>4. Known(n, t)'
    BY <2>3, StaysKnown, LocalTypes
  <2>5. dropped \subseteq dropped' /\ Text(n) \subseteq Text(n)' \union dropped'
    BY DEF Onward
  <2>6. Ours(n)' => Ours(n) /\ Version(n)' = Version(n)
    BY DEF Onward, NoteSame, Ours
  <2> QED
    BY <2>1, <2>2, <2>3, <2>4, <2>5, <2>6 DEF InServer, Known, Seen
<1>2. ASSUME n \in page'.deletes
      PROVE  ~HasRow(n)' /\ HasTombstone(n)'
  BY <1>2 DEF PageInv, Onward, NoteSame
<1> QED
  BY <1>1, <1>2 DEF PageInv, Known, Seen, InServer

(* A step of the sync adds nothing to a note that is not synced. *)
TextStill(n) ==
    Unsynced(n)' => Unsynced(n) /\ local'[n].content = local[n].content

LEMMA UsingStays ==
    ASSUME AndroidTypeOK, Onward, NEW n \in Note, UsingInv(n), TextStill(n),
           using' # None /\ using'.note = n => using' = using
    PROVE  UsingInv(n)'
<1> SUFFICES ASSUME using' # None, using'.note = n
             PROVE  /\ InView(n, using.seen.base, using.seen.content)'
                    /\ Unsynced(n)' => local'[n].content
                                         \subseteq using'.seen.content \union dropped'
  BY DEF UsingInv
<1>1. using' = using /\ using # None /\ using.note = n
  OBVIOUS
<1>2. PICK b \in Nat, x \in Content : b = using.seen.base /\ x = using.seen.content
  BY <1>1, UserTypes
<1>3. InView(n, b, x)' /\ dropped \subseteq dropped'
  BY <1>1, <1>2, StaysSeen, LocalTypes DEF UsingInv, Onward
<1> QED
  BY <1>1, <1>2, <1>3 DEF InView, Seen, UsingInv, TextStill

(* The resolution of the note, if any, is where it was, or has written all. *)
ResolvingFades(n) ==
    resolving' # None /\ resolving'.of.note = n =>
        \/ resolving' = resolving
        \/ /\ resolving # None /\ resolving'.of = resolving.of
           /\ resolving'.left = "status"

LEMMA ResolvingStays ==
    ASSUME AndroidTypeOK, Onward, NEW n \in Note, ResolvingInv(n), TextStill(n),
           using' # None /\ using'.note = n => using' = using, ResolvingFades(n)
    PROVE  ResolvingInv(n)'
<1> SUFFICES ASSUME resolving' # None, resolving'.of.note = n
             PROVE  ResolvingInv(n)'
  BY DEF ResolvingInv
<1>1. resolving # None /\ resolving'.of = resolving.of
  BY DEF ResolvingFades
<1>2. dropped \subseteq dropped' /\ (Ours(n)' => Ours(n) /\ Text(n)' = Text(n))
  BY DEF Onward, NoteSame, Ours, Text, SameSide
<1>3. using' # None => using'.note # n
  BY <1>1 DEF ResolvingInv
<1>4. CASE resolving' = resolving
  <2>1. resolving.left = "record" /\ Unsynced(n)' => local'[n].content \subseteq
            resolving.of.mine.content \union resolving.of.theirs.content \union dropped'
    BY <1>1, <1>2, <1>4 DEF ResolvingInv, TextStill
  <2> QED
    BY <1>1, <1>2, <1>3, <1>4, <2>1 DEF ResolvingInv
<1>5. CASE resolving'.left = "status"
  BY <1>1, <1>3, <1>5 DEF ResolvingInv
<1> QED
  BY <1>4, <1>5 DEF ResolvingFades


(***************************************************************************)
(* A note the step leaves alone.                                           *)
(***************************************************************************)
NoteStill(n) ==
    /\ local'[n] = local[n]
    /\ Unsettled(n)' => Unsettled(n) /\ sent'[n] = sent[n]
    /\ n \in DOMAIN accepted' =>
          /\ n \in DOMAIN accepted /\ accepted'[n] = accepted[n]
          /\ n \in DOMAIN sent' /\ sent'[n] = sent[n]
    /\ \A c \in refused' : c.note = n =>
          /\ c \in refused /\ n \in DOMAIN sent' /\ sent'[n] = sent[n]
          /\ n \in DOMAIN accepted' => n \in DOMAIN accepted
    /\ \A c \in Open' : c.note = n => c \in Open
    /\ n \in DOMAIN page'.notes =>
          n \in DOMAIN page.notes /\ page'.notes[n] = page.notes[n]
    /\ n \in page'.deletes => n \in page.deletes
    /\ using' # None /\ using'.note = n => using' = using
    /\ ResolvingFades(n)

LEMMA NoteStays ==
    ASSUME AndroidTypeOK, Onward, NEW n \in Note, NoteInv(n), NoteStill(n),
           ShownInv(n)'
    PROVE  NoteInv(n)'
<1>1. /\ local'[n] = local[n]
      /\ Unsettled(n)' => Unsettled(n) /\ sent'[n] = sent[n]
      /\ Has(n)' = Has(n) /\ Unsynced(n)' = Unsynced(n) /\ Held(n)' = Held(n)
  BY DEF NoteStill, Has, Unsynced, Held
<1>2. LocalInv(n)'
  BY <1>1, LocalStays DEF NoteInv
<1>3. SentInv(n)'
  <2>1. Unsettled(n)' => (Has(n)' => Unsynced(n)')
    BY <1>1 DEF NoteInv, SentInv
  <2> QED
    BY <1>1, <2>1, SentStays DEF NoteInv
<1>4. AnswerInv(n)'
  BY AnswerStays DEF NoteInv, NoteStill
<1>5. RefusedInv(n)'
  BY RefusedStays DEF NoteInv, NoteStill
<1>6. ConflictInv(n)'
  BY ConflictStays DEF NoteInv, NoteStill
<1>7. PageInv(n)'
  BY PageStays DEF NoteInv, NoteStill
<1>8. TextStill(n)
  BY <1>1 DEF TextStill
<1>9. UsingInv(n)'
  BY <1>8, UsingStays DEF NoteInv, NoteStill
<1>10. ResolvingInv(n)'
  BY <1>8, ResolvingStays DEF NoteInv, NoteStill
<1> QED
  BY <1>2, <1>3, <1>4, <1>5, <1>6, <1>7, <1>9, <1>10 DEF NoteInv

LEMMA ShownStays ==
    ASSUME NEW n, ShownInv(n), local'[n] = local[n],
           \A i \in DOMAIN conflicts : /\ i \in DOMAIN conflicts'
                                       /\ conflicts'[i] = conflicts[i],
           Answered' => Answered
    PROVE  ShownInv(n)'
BY DEF ShownInv, Has

(* Edits are kept if each record and each conflict that gives one up leaves it
   to something else. *)
Leaves(n) ==
    Unsynced(n) => \A e \in local[n].content :
                       e \in dropped' \/ OnServer(e)' \/ Holds(e)'

LEMMA TextLeaves ==
    ASSUME NEW n \in Note,
           Unsynced(n) => local[n].content \subseteq dropped' \union Text(n)' \union
                             IF Unsynced(n)' THEN local'[n].content ELSE {}
    PROVE  Leaves(n)
<1> SUFFICES ASSUME Unsynced(n), NEW e \in local[n].content
             PROVE  e \in dropped' \/ OnServer(e)' \/ Holds(e)'
  BY DEF Leaves
<1>1. e \in dropped' \/ e \in Text(n)' \/ (Unsynced(n)' /\ e \in local'[n].content)
  OBVIOUS
<1> QED
  BY <1>1 DEF OnServer, Holds

ConflictsLeave ==
    \A i \in DOMAIN conflicts :
        (resolving # None /\ resolving.left = "status" => i > 1) =>
            \A e \in conflicts[i].mine.content :
                e \in dropped' \/ OnServer(e)' \/ Holds(e)'

ConflictsStay ==
    /\ \A i \in DOMAIN conflicts : i \in DOMAIN conflicts' /\ conflicts'[i] = conflicts[i]
    /\ resolving' # None /\ resolving'.left = "status"
          => resolving # None /\ resolving.left = "status"

LEMMA ConflictsStayHeld ==
    ASSUME ConflictsStay
    PROVE  ConflictsLeave
BY DEF ConflictsStay, ConflictsLeave, Holds

LEMMA KeptNext ==
    ASSUME Kept, Onward, \A n \in Note : Leaves(n), ConflictsLeave,
           \A e \in used' \ used : e \in dropped' \/ OnServer(e)' \/ Holds(e)'
    PROVE  Kept'
<1> SUFFICES ASSUME NEW e \in used
             PROVE  e \in dropped' \/ OnServer(e)' \/ Holds(e)'
  BY DEF Kept
<1>1. CASE e \in dropped
  BY <1>1 DEF Onward
<1>2. CASE OnServer(e)
  <2>1. PICK n \in Note : e \in Text(n)
    BY <1>2 DEF OnServer
  <2>2. e \in Text(n)' \union dropped'
    BY <2>1 DEF Onward
  <2> QED
    BY <2>2 DEF OnServer
<1>3. ASSUME NEW n \in Note, Unsynced(n), e \in local[n].content
      PROVE  e \in dropped' \/ OnServer(e)' \/ Holds(e)'
  BY <1>3 DEF Leaves
<1>4. ASSUME NEW i \in DOMAIN conflicts, e \in conflicts[i].mine.content,
             resolving # None /\ resolving.left = "status" => i > 1
      PROVE  e \in dropped' \/ OnServer(e)' \/ Holds(e)'
  BY <1>4 DEF ConflictsLeave
<1> QED
  BY <1>1, <1>2, <1>3, <1>4 DEF Kept, Holds

(***************************************************************************)
(* The server goes on beside the phone.                                    *)
(***************************************************************************)
PhoneSame ==
    /\ UNCHANGED <<local, conflicts, cursor, userVars, syncVars>>
    /\ UNCHANGED deaths

LEMMA BesideInv ==
    ASSUME PhoneInv, ServerInv', Onward, PhoneSame,
           used' \subseteq Edit, dropped' \subseteq Edit,
           \A e \in used' \ used : OnServer(e)'
    PROVE  PhoneInv'
<1>1. AndroidTypeOK /\ Kept
  BY DEF PhoneInv
<1>2. /\ UNCHANGED <<local, conflicts, cursor, using, resolving, step, sent>>
      /\ UNCHANGED <<accepted, refused, page, reading>>
  BY DEF PhoneSame, userVars, syncVars, answerVars
<1>3. AndroidTypeOK'
  <2>1. ServerTypeOK' /\ lastRev \in Nat /\ lastRev' \in Nat /\ lastRev' >= lastRev
    BY <1>1 DEF ServerInv, Onward, AndroidTypeOK, ServerTypeOK
  <2>2. cursor' \in 0..lastRev' /\ page'.revision \in 0..lastRev'
    BY <1>1, <1>2, <2>1 DEF AndroidTypeOK
  <2> QED
    BY <1>1, <1>2, <2>1, <2>2 DEF AndroidTypeOK, Has
<1>4. Phase'
  BY <1>2 DEF PhoneInv, Phase
<1>5. ASSUME NEW n \in Note
      PROVE  NoteInv(n)'
  <2>1. NoteInv(n)
    BY DEF PhoneInv
  <2>2. ShownInv(n)'
    BY <1>2, <2>1 DEF NoteInv, ShownInv, Has, Answered
  <2>3. n \in DOMAIN accepted => n \in DOMAIN sent
    BY <2>1 DEF NoteInv, AnswerInv
  <2>4. InRefused(n) => n \in DOMAIN sent
    BY <2>1 DEF NoteInv, RefusedInv, InRefused
  <2>5. NoteStill(n)
    BY <1>2, <2>3, <2>4 DEF NoteStill, Unsettled, InRefused, Open, ResolvingFades
  <2> QED
    BY <1>1, <2>1, <2>2, <2>5, NoteStays
<1>6. Kept'
  <2>1. \A n \in Note : Leaves(n)
    BY <1>2, TextLeaves DEF Unsynced, Has
  <2>2. ConflictsStay
    BY <1>2 DEF ConflictsStay
  <2> QED
    BY <1>1, <2>1, <2>2, ConflictsStayHeld, KeptNext
<1> QED
  BY <1>3, <1>4, <1>5, <1>6 DEF PhoneInv

LEMMA OtherPushesInv ==
    ASSUME PhoneInv, NEW n \in Note, NEW life \in Life, NEW e \in Edit,
           OtherPushes(n, life, e)
    PROVE  PhoneInv'
<1>1. ServerInv /\ AndroidTypeOK /\ used \subseteq Edit /\ dropped \subseteq Edit
  BY DEF PhoneInv, AndroidTypeOK
<1>2. Onward /\ ServerInv' /\ OnServer(e)'
  BY <1>1, OtherOnward
<1>3. PhoneSame /\ used' = used \union {e} /\ dropped' = dropped
  BY DEF OtherPushes, PhoneSame
<1> QED
  BY <1>1, <1>2, <1>3, BesideInv

LEMMA RetentionInv ==
    ASSUME PhoneInv, Retention
    PROVE  PhoneInv'
<1>1. ServerInv /\ AndroidTypeOK /\ used \subseteq Edit /\ dropped \subseteq Edit
  BY DEF PhoneInv, AndroidTypeOK
<1>2. Onward /\ ServerInv'
  BY <1>1, RetentionOnward
<1>3. PhoneSame /\ used' = used
  BY DEF Retention, PhoneSame
<1>4. dropped' \subseteq Edit
  <2>1. \A n \in Expired : rows[n].content \subseteq Edit
    <3>1. \A n \in Note : HasRow(n) => rows[n] \in Row
      BY <1>1, RowFacts DEF ServerInv
    <3> QED
      BY <3>1 DEF Expired, Row
  <2>2. dropped' = dropped \/ dropped' = dropped \union UNION {rows[n].content : n \in Expired}
    BY DEF Retention
  <2>3. UNION {rows[n].content : n \in Expired} \subseteq Edit
    BY <2>1
  <2> QED
    BY <1>1, <2>2, <2>3
<1> QED
  BY <1>1, <1>2, <1>3, <1>4, BesideInv

LEMMA StutterInv ==
    ASSUME PhoneInv, UNCHANGED androidVars
    PROVE  PhoneInv'
<1>1. /\ UNCHANGED serverVars /\ PhoneSame /\ UNCHANGED <<used, dropped>>
  BY DEF androidVars, PhoneSame, historyVars
<1>2. ServerInv /\ ServerTypeOK /\ used \subseteq Edit /\ dropped \subseteq Edit
  BY DEF PhoneInv, AndroidTypeOK, ServerInv
<1>3. Onward
  BY <1>1, <1>2, SameIsOnward
<1>4. ServerInv'
  BY <1>1, <1>2, SameStoreInv
<1> QED
  BY <1>1, <1>2, <1>3, <1>4, BesideInv


(***************************************************************************)
(* The user's writes.                                                      *)
(***************************************************************************)
LEMMA MayWriteFacts ==
    ASSUME Closed, NEW n, MayWrite(n)
    PROVE  /\ reading # None => reading.note # n
           /\ step = "prepare" => n \notin DOMAIN sent
<1>1. \A h \in InHand : h[2] # n
  BY DEF Closed, MayWrite
<1>2. reading # None => <<reading.where, reading.note>> \in InHand
  BY DEF InHand
<1>3. step = "prepare" => \A m \in DOMAIN sent : <<"prepare", m>> \in InHand
  BY DEF InHand
<1> QED
  BY <1>1, <1>2, <1>3

(* The server, the sync and the conflicts know nothing of a fresh note. *)
LEMMA FreshFacts ==
    ASSUME PhoneInv, NEW n \in Note, Fresh(n)
    PROVE  /\ Version(n) = 0 /\ ~HasRow(n) /\ ~HasTombstone(n) /\ ~Has(n)
           /\ n \notin DOMAIN sent /\ n \notin DOMAIN accepted /\ ~InRefused(n)
           /\ n \notin DOMAIN page.notes /\ n \notin page.deletes
           /\ \A c \in Open : c.note # n
           /\ reading # None => reading.note # n
           /\ using # None => using.note # n
           /\ resolving # None => resolving.of.note # n
<1>1. /\ AndroidTypeOK /\ ServerTypeOK /\ NoteInv(n) /\ Phase
  BY DEF PhoneInv, AndroidTypeOK
<1>2. /\ Version(n) = 0 /\ ~Has(n) /\ n \notin DOMAIN sent
      /\ using # None => using.note # n
  BY DEF Fresh
<1>3. ~HasRow(n) /\ ~HasTombstone(n)
  BY <1>1, <1>2, RowFacts
<1>4. \A t : Known(n, t) => ~(t.version \in Nat)
  BY <1>2 DEF Known, Seen
<1>5. \A c \in Open : c.note # n
  BY <1>1, <1>4, ConflictTypes DEF NoteInv, ConflictInv
<1>6. n \notin DOMAIN page.notes /\ n \notin page.deletes
  BY <1>1, <1>3, <1>4, ConflictTypes DEF NoteInv, PageInv
<1>7. n \notin DOMAIN accepted /\ ~InRefused(n)
  BY <1>1, <1>2 DEF NoteInv, AnswerInv, RefusedInv, InRefused
<1>8. reading # None => reading.note # n
  BY <1>1, <1>6, <1>7, UserTypes DEF Phase, InRefused
<1>9. resolving # None => resolving.of.note # n
  BY <1>1, <1>5, UserTypes
<1> QED
  BY <1>2, <1>3, <1>5, <1>6, <1>7, <1>8, <1>9

(* A write of the user's to one note, beside a sync and the other notes. *)
LEMMA PutInv ==
    ASSUME PhoneInv, UNCHANGED <<serverVars, conflicts, cursor, syncVars>>,
           NEW n \in Note, NEW r \in LocalNote \union {None},
           r # None /\ r.status = "synced" => r.version = r.base,
           Put(n, r),
           using' \in {using, None},
           resolving' \in Resolving \union {None},
           resolving' # None => resolving # None /\ resolving'.of = resolving.of,
           used' \subseteq Edit, dropped' \subseteq Edit, dropped \subseteq dropped',
           reading # None => reading.note # n,
           step = "prepare" => n \notin DOMAIN sent,
           LocalInv(n)', SentInv(n)', UsingInv(n)', ResolvingInv(n)',
           \A m \in Note : ShownInv(m)',
           \A m \in Note \ {n} : ResolvingFades(m),
           Leaves(n), ConflictsLeave,
           \A e \in used' \ used : e \in dropped' \/ OnServer(e)' \/ Holds(e)'
    PROVE  PhoneInv'
<1>1. AndroidTypeOK /\ Kept /\ ServerInv /\ ServerTypeOK /\ Phase
  BY DEF PhoneInv, AndroidTypeOK
<1>2. /\ UNCHANGED <<conflicts, cursor, step, sent, accepted, refused, page, reading>>
      /\ UNCHANGED serverVars /\ Open' = Open /\ lastRev' = lastRev
  BY DEF syncVars, answerVars, serverVars, Open
<1>3. Onward /\ ServerInv'
  BY <1>1, <1>2, SameIsOnward, SameStoreInv
<1>4. /\ local' \in [Note -> LocalNote \union {None}] /\ local'[n] = r
      /\ \A m \in Note \ {n} : local'[m] = local[m]
  <2>1. local \in [Note -> LocalNote \union {None}]
    BY <1>1 DEF AndroidTypeOK
  <2>2. local' = [local EXCEPT ![n] = r]
    BY DEF Put
  <2> QED
    BY <2>1, <2>2
<1>5. AndroidTypeOK'
  <2>1. ServerTypeOK'
    BY <1>3 DEF ServerInv
  <2>2. \A m \in Note : Has(m)' /\ local'[m].status = "synced"
                          => local'[m].version = local'[m].base
    BY <1>1, <1>4 DEF AndroidTypeOK, Has
  <2>3. using' \in Using \union {None}
    BY <1>1 DEF AndroidTypeOK
  <2> QED
    BY <1>1, <1>2, <1>4, <2>1, <2>2, <2>3 DEF AndroidTypeOK
<1>6. Phase'
  BY <1>1, <1>2, <1>4, UserTypes DEF Phase, AndroidTypeOK, NoteMap
<1>7. ASSUME NEW m \in Note \ {n}
      PROVE  NoteInv(m)'
  <2>1. NoteInv(m)
    BY DEF PhoneInv
  <2>2. m \in DOMAIN accepted => m \in DOMAIN sent
    BY <2>1 DEF NoteInv, AnswerInv
  <2>3. InRefused(m) => m \in DOMAIN sent
    BY <2>1 DEF NoteInv, RefusedInv, InRefused
  <2>4. NoteStill(m)
    BY <1>2, <1>4, <2>2, <2>3 DEF NoteStill, Unsettled, InRefused
  <2> QED
    BY <1>1, <1>3, <2>1, <2>4, NoteStays
<1>8. NoteInv(n)'
  <2>1. NoteInv(n)
    BY DEF PhoneInv
  <2>2. AnswerInv(n)'
    BY <1>1, <1>2, <1>3, <2>1, AnswerStays DEF NoteInv, AnswerInv
  <2>3. RefusedInv(n)'
    BY <1>1, <1>2, <1>3, <2>1, RefusedStays DEF NoteInv, RefusedInv
  <2>4. ConflictInv(n)'
    BY <1>1, <1>2, <1>3, <2>1, ConflictStays DEF NoteInv
  <2>5. PageInv(n)'
    BY <1>1, <1>2, <1>3, <2>1, PageStays DEF NoteInv
  <2> QED
    BY <2>2, <2>3, <2>4, <2>5 DEF NoteInv
<1>9. Kept'
  <2>1. \A m \in Note : Leaves(m)
    <3>1. ASSUME NEW m \in Note \ {n}
          PROVE  Leaves(m)
      BY <1>4, TextLeaves DEF Unsynced, Has
    <3> QED
      BY <3>1
  <2> QED
    BY <1>1, <1>3, <2>1, KeptNext
<1> QED
  BY <1>3, <1>5, <1>6, <1>7, <1>8, <1>9 DEF PhoneInv

(* A note no one has seen yet is put. *)
LEMMA NewNoteInv ==
    ASSUME PhoneInv, NEW n \in Note, Fresh(n),
           UNCHANGED <<serverVars, conflicts, cursor, syncVars, using, dropped>>,
           NEW content \in Content, NEW life \in Life,
           Put(n, NewNote(content, life)),
           resolving' \in Resolving \union {None},
           resolving' # None => /\ resolving # None /\ resolving'.of = resolving.of
                                /\ resolving' = resolving \/ resolving'.left = "status",
           Answered' => Answered,
           ConflictsStay \/ (/\ resolving # None
                             /\ resolving.of.mine.content \subseteq content),
           used' \subseteq Edit, \A e \in used' \ used : e \in content
    PROVE  PhoneInv'
<1> DEFINE r == NewNote(content, life)
<1>1. /\ r \in LocalNote /\ r # None /\ r.content = content /\ r.base = 0
      /\ r.status = "pending"
  <2>1. r \in LocalNote
    BY DEF NewNote, LocalNote, Status
  <2>2. r.content = content /\ r.base = 0 /\ r.status = "pending"
    BY DEF NewNote
  <2>3. r # None
    BY <2>1
  <2> QED
    BY <2>1, <2>2, <2>3
<1> HIDE DEF r
<1>2. AndroidTypeOK /\ ServerTypeOK /\ Onward /\ dropped \subseteq Edit
  BY SameIsOnward DEF PhoneInv, AndroidTypeOK
<1>3. local'[n] = r
  BY <1>2 DEF Put, r, AndroidTypeOK
<1>4. Has(n)' /\ Unsynced(n)' /\ n \notin DOMAIN sent /\ sent' = sent
  BY <1>1, <1>3, FreshFacts DEF Has, Unsynced, syncVars
<1>5. ~HasRow(n)' /\ Version(n)' = 0 /\ ~Ours(n)'
  BY SameStore, FreshFacts DEF Ours
<1>6. LocalInv(n)'
  BY <1>1, <1>3, <1>4, <1>5 DEF LocalInv, InView, Seen
<1>7. SentInv(n)'
  BY <1>4 DEF SentInv, Unsettled
<1>8. UsingInv(n)' /\ ResolvingInv(n)'
  BY FreshFacts DEF UsingInv, ResolvingInv
<1>9. ASSUME NEW m \in Note
      PROVE  ShownInv(m)'
  <2>1. CASE m = n
    BY <1>1, <1>3, <2>1 DEF ShownInv
  <2>2. CASE m # n
    <3>1. local'[m] = local[m] /\ conflicts' = conflicts /\ ShownInv(m)
      BY <1>2, <2>2 DEF Put, PhoneInv, NoteInv, AndroidTypeOK
    <3> QED
      BY <3>1, ShownStays
  <2> QED
    BY <2>1, <2>2
<1>10. \A m \in Note \ {n} : ResolvingFades(m)
  BY DEF ResolvingFades
<1>11. Leaves(n)
  BY FreshFacts DEF Leaves, Unsynced
<1>12. \A e \in content : Holds(e)'
  BY <1>1, <1>3, <1>4 DEF Holds
<1>13. ConflictsLeave
  <2>1. CASE ConflictsStay
    BY <2>1, ConflictsStayHeld
  <2>2. CASE resolving # None /\ resolving.of.mine.content \subseteq content
    <3>1. conflicts \in Seq(Conflict) /\ conflicts # <<>> /\ resolving.of = Head(conflicts)
      BY <1>2, <2>2 DEF AndroidTypeOK
    <3>2. conflicts[1] = resolving.of
      BY <3>1
    <3>3. \A i \in DOMAIN conflicts : i # 1 => i > 1
      BY <3>1
    <3> QED
      BY <1>12, <2>2, <3>2, <3>3 DEF ConflictsLeave, Holds
  <2> QED
    BY <2>1, <2>2
<1> QED
  BY <1>1, <1>2, <1>6, <1>7, <1>8, <1>9, <1>10, <1>11, <1>12, <1>13, FreshFacts, PutInv
     DEF r, syncVars

LEMMA CreateInv ==
    ASSUME PhoneInv, NEW n \in Note, NEW e \in Edit, CreateBlankNote(n, e)
    PROVE  PhoneInv'
<1>1. /\ Fresh(n) /\ Put(n, NewNote({e}, "active")) /\ used' = used \union {e}
      /\ UNCHANGED <<serverVars, conflicts, cursor, syncVars, using, resolving, dropped>>
  BY DEF CreateBlankNote, userVars
<1>2. AndroidTypeOK /\ resolving \in Resolving \union {None} /\ used \subseteq Edit
  BY DEF PhoneInv, AndroidTypeOK
<1>3. ConflictsStay /\ (Answered' => Answered)
  BY <1>1 DEF ConflictsStay, Answered
<1>4. {e} \in Content /\ "active" \in Life
  OBVIOUS
<1> QED
  BY <1>1, <1>2, <1>3, <1>4, NewNoteInv


LEMMA BeginInv ==
    ASSUME Closed, PhoneInv, NEW n \in Note,
           NEW op \in UserOp, NEW lives,
           Begin(op, n, lives)
    PROVE  PhoneInv'
<1>1. /\ using = None /\ Has(n) /\ (resolving # None => resolving.of.note # n)
      /\ using' = [op |-> op, note |-> n, seen |-> local[n]]
      /\ UNCHANGED <<serverVars, local, conflicts, cursor, resolving, syncVars,
                     used, dropped>>
  BY DEF Begin, Closed, historyVars
<1>2. AndroidTypeOK /\ ServerInv /\ ServerTypeOK /\ Kept /\ local[n] \in LocalNote
  BY <1>1, LocalTypes DEF PhoneInv, AndroidTypeOK
<1>3. /\ UNCHANGED <<step, sent, accepted, refused, page, reading>>
      /\ lastRev' = lastRev /\ Open' = Open
  BY <1>1 DEF syncVars, answerVars, serverVars, Open
<1>4. Onward /\ ServerInv'
  BY <1>1, <1>2, SameIsOnward, SameStoreInv
<1>5. using' \in Using /\ using'.note = n /\ using'.seen = local[n]
  BY <1>1, <1>2 DEF Using
<1>6. AndroidTypeOK'
  BY <1>1, <1>2, <1>3, <1>4, <1>5 DEF AndroidTypeOK, ServerInv, Has
<1>7. Phase'
  BY <1>1, <1>3 DEF PhoneInv, Phase
<1>8. ASSUME NEW m \in Note
      PROVE  NoteInv(m)'
  <2>1. NoteInv(m) /\ local'[m] = local[m]
    BY <1>1 DEF PhoneInv
  <2>2. /\ Has(m)' = Has(m) /\ Unsynced(m)' = Unsynced(m) /\ Held(m)' = Held(m)
        /\ Unsettled(m)' = Unsettled(m)
    BY <1>1, <1>3 DEF Has, Unsynced, Held, Unsettled, InRefused
  <2>3. ShownInv(m)'
    BY <1>1, <2>1, ShownStays DEF NoteInv, Answered
  <2>4. CASE m # n
    <3>1. m \in DOMAIN accepted => m \in DOMAIN sent
      BY <2>1 DEF NoteInv, AnswerInv
    <3>2. InRefused(m) => m \in DOMAIN sent
      BY <2>1 DEF NoteInv, RefusedInv, InRefused
    <3>3. NoteStill(m)
      BY <1>1, <1>3, <1>5, <2>2, <2>4, <3>1, <3>2 DEF NoteStill, InRefused, ResolvingFades
    <3> QED
      BY <1>2, <1>4, <2>1, <2>3, <3>3, NoteStays
  <2>5. CASE m = n
    <3>1. LocalInv(n)' /\ SentInv(n)'
      <4>1. LocalInv(n)'
        BY <1>2, <1>4, <2>1, <2>5, LocalStays DEF NoteInv
      <4>2. SentInv(n)'
        BY <1>2, <1>3, <1>4, <2>1, <2>2, <2>5, SentStays DEF NoteInv, SentInv
      <4> QED
        BY <4>1, <4>2
    <3>2. AnswerInv(n)'
      BY <1>2, <1>3, <1>4, <2>1, <2>5, AnswerStays DEF NoteInv, AnswerInv
    <3>3. RefusedInv(n)'
      BY <1>2, <1>3, <1>4, <2>1, <2>5, RefusedStays DEF NoteInv, RefusedInv
    <3>4. ConflictInv(n)'
      BY <1>2, <1>3, <1>4, <2>1, <2>5, ConflictStays DEF NoteInv
    <3>5. PageInv(n)'
      BY <1>2, <1>3, <1>4, <2>1, <2>5, PageStays DEF NoteInv
    <3>6. UsingInv(n)'
      BY <1>1, <1>5, <3>1 DEF UsingInv, LocalInv, InView, Seen, Has
    <3>7. ResolvingInv(n)'
      BY <1>1 DEF ResolvingInv
    <3> QED
      BY <2>3, <2>5, <3>1, <3>2, <3>3, <3>4, <3>5, <3>6, <3>7 DEF NoteInv
  <2> QED
    BY <2>4, <2>5
<1>9. Kept'
  <2>1. \A m \in Note : Leaves(m)
    BY <1>1, TextLeaves DEF Unsynced, Has
  <2>2. ConflictsStay
    BY <1>1 DEF ConflictsStay
  <2> QED
    BY <1>1, <1>2, <1>4, <2>1, <2>2, ConflictsStayHeld, KeptNext
<1> QED
  BY <1>4, <1>6, <1>7, <1>8, <1>9 DEF PhoneInv

LEMMA EditedFacts ==
    ASSUME NEW u \in LocalNote, NEW op \in UserOp,
           NEW e \in Edit
    PROVE  /\ Edited(u, op, e) \in LocalNote
           /\ Edited(u, op, e).content = u.content \union {e}
           /\ Edited(u, op, e).base = u.base /\ Edited(u, op, e).status = "pending"
           /\ Edited(u, op, e).life = LifeAfter(op, u)
<1>1. /\ u = [content |-> u.content, life |-> u.life, version |-> u.version,
              base |-> u.base, status |-> u.status]
      /\ u.content \in Content /\ u.life \in Life /\ u.version \in Nat /\ u.base \in Nat
  BY DEF LocalNote
<1>2. LifeAfter(op, u) \in Life
  BY <1>1 DEF LifeAfter, UserOp
<1>3. /\ u.content \union {e} \in Content /\ NextVersionAfter(u.version) \in Nat
      /\ "pending" \in Status
  BY <1>1 DEF NextVersionAfter, Status
<1>4. Edited(u, op, e) =
         [content |-> u.content \union {e}, life |-> LifeAfter(op, u),
          version |-> NextVersionAfter(u.version), base |-> u.base,
          status |-> "pending"]
  <2>1. PICK x \in Content, l \in Life, v \in Nat, b \in Nat, s \in Status :
           u = [content |-> x, life |-> l, version |-> v, base |-> b, status |-> s]
    BY DEF LocalNote
  <2>2. PICK k \in Life : k = LifeAfter(op, u)
    BY <1>2
  <2>3. Edited(u, op, e) = [u EXCEPT !.content = @ \union {e}, !.life = k,
                                    !.version = NextVersionAfter(@), !.status = "pending"]
    BY <2>2 DEF Edited
  <2> QED
    BY <2>1, <2>2, <2>3
<1> QED
  BY <1>1, <1>2, <1>3, <1>4 DEF LocalNote

LEMMA FinishInv ==
    ASSUME Closed, PhoneInv, NEW e \in Edit, Finish(e)
    PROVE  PhoneInv'
<1> DEFINE n == using.note
           u == using.seen
           gone == using.op = "delete" /\ u.base = 0
           r == IF gone THEN None ELSE Edited(u, using.op, e)
<1>0. AndroidTypeOK /\ ServerTypeOK /\ using # None
  BY DEF PhoneInv, AndroidTypeOK, Finish
<1>1. /\ n \in Note /\ u \in LocalNote /\ u.base \in Nat
      /\ using.op \in UserOp
  BY <1>0, UserTypes
<1>2. /\ MayWrite(n) /\ (gone => Version(n) = 0) /\ Put(n, r)
      /\ used' = used \union {e} /\ using' = None
      /\ dropped' = IF gone /\ Has(n) THEN dropped \union local[n].content \union {e}
                    ELSE IF gone THEN dropped \union {e} ELSE dropped
      /\ UNCHANGED <<serverVars, conflicts, cursor, resolving, syncVars>>
  BY DEF Finish, Closed
<1>3. PICK m \in Note, q \in LocalNote : m = n /\ q = u
  BY <1>1
<1>4. /\ ~gone => /\ r \in LocalNote /\ r # None /\ r.base = u.base
                  /\ r.content = u.content \union {e} /\ r.status = "pending"
      /\ gone => r = None
  <2>1. /\ Edited(u, using.op, e) \in LocalNote
        /\ Edited(u, using.op, e).content = u.content \union {e}
        /\ Edited(u, using.op, e).base = u.base
        /\ Edited(u, using.op, e).status = "pending"
    BY <1>1, EditedFacts
  <2>2. Edited(u, using.op, e) # None
    BY <2>1
  <2> QED
    BY <2>1, <2>2
<1>5. dropped \subseteq dropped' /\ dropped' \subseteq Edit /\ used' \subseteq Edit
  <2>1. Has(n) => local[n].content \subseteq Edit
    BY <1>0, <1>1, LocalTypes
  <2> QED
    BY <1>0, <1>2, <2>1 DEF AndroidTypeOK
<1>6. /\ gone => e \in dropped' /\ (Has(n) => local[n].content \subseteq dropped')
      /\ ~gone => dropped' = dropped
  BY <1>2
<1> HIDE DEF r, gone, n, u
<1>7. Onward /\ NoteInv(m) /\ NoteInv(m)
  BY <1>0, <1>2, <1>5, SameIsOnward DEF PhoneInv
<1>8. /\ InView(m, q.base, q.content)
      /\ Unsynced(m) => local[m].content \subseteq q.content \union dropped
  BY <1>0, <1>3, <1>7 DEF NoteInv, UsingInv, n, u
<1>9. local'[m] = r
  BY <1>0, <1>1, <1>2, <1>3 DEF Put, AndroidTypeOK
<1>10. /\ gone => ~Has(m)' /\ ~Unsynced(m)' /\ Held(m)' = {}
       /\ ~gone => Has(m)' /\ Unsynced(m)' /\ Held(m)' = q.content \union {e}
  BY <1>3, <1>4, <1>9 DEF Has, Unsynced, Held
<1>11. LocalInv(m)'
  <2>1. CASE gone
    <3>1. ~HasRow(m)
      BY <1>0, <1>2, <1>3, <2>1, RowFacts
    <3>2. ~Ours(m)'
      BY <1>2, <3>1, SameStore DEF Ours
    <3> QED
      BY <1>10, <2>1, <3>2 DEF LocalInv
  <2>2. CASE ~gone
    <3>1. InView(m, q.base, q.content)'
      <4>1. q.base \in Nat
        BY <1>1, <1>3
      <4> QED
        BY <1>0, <1>7, <1>8, <4>1, StaysSeen
    <3>2. local'[m].base = q.base /\ local'[m].content = q.content \union {e}
      BY <1>3, <1>4, <1>9, <2>2
    <3> QED
      BY <1>10, <2>2, <3>1, <3>2 DEF LocalInv, InView, Seen
  <2> QED
    BY <2>1, <2>2
<1>12. SentInv(m)'
  <2>1. Unsettled(m)' => /\ Unsettled(m) /\ sent' = sent
    BY <1>2 DEF Unsettled, InRefused, syncVars, answerVars
  <2>2. Unsettled(m) => Held(m) \subseteq Held(m)' \union dropped'
    <3>1. Unsettled(m) /\ Has(m) => Unsynced(m)
      BY <1>7 DEF NoteInv, SentInv
    <3> QED
      BY <1>3, <1>5, <1>6, <1>8, <1>10, <3>1 DEF Held
  <2> QED
    BY <1>0, <1>7, <1>10, <2>1, <2>2, SentStays DEF NoteInv
<1>13. UsingInv(m)' /\ ResolvingInv(m)'
  <2>1. resolving # None => resolving.of.note # m
    BY <1>0, <1>3, <1>7 DEF NoteInv, ResolvingInv, n
  <2> QED
    BY <1>2, <2>1 DEF UsingInv, ResolvingInv
<1>14. ASSUME NEW k \in Note
       PROVE  ShownInv(k)'
  <2>1. CASE k = m
    BY <1>3, <1>4, <1>9, <1>10, <2>1 DEF ShownInv
  <2>2. CASE k # m
    <3>1. local'[k] = local[k] /\ ShownInv(k) /\ conflicts' = conflicts
      BY <1>0, <1>2, <1>3, <2>2 DEF Put, PhoneInv, NoteInv, AndroidTypeOK
    <3>2. Answered' => Answered
      BY <1>2 DEF Answered
    <3> QED
      BY <3>1, <3>2, ShownStays
  <2> QED
    BY <2>1, <2>2
<1>15. Leaves(m)
  <2>1. Unsynced(m) => local[m].content \subseteq dropped' \union
                          IF Unsynced(m)' THEN local'[m].content ELSE {}
    BY <1>3, <1>4, <1>5, <1>6, <1>8, <1>9, <1>10 DEF Unsynced
  <2> QED
    BY <2>1, TextLeaves
<1>16. ConflictsLeave
  BY <1>2, ConflictsStayHeld DEF ConflictsStay
<1>17. e \in dropped' \/ Holds(e)'
  BY <1>3, <1>4, <1>6, <1>9, <1>10 DEF Holds
<1>18. /\ reading # None => reading.note # m
       /\ step = "prepare" => m \notin DOMAIN sent
  BY <1>2, <1>3, MayWriteFacts
<1>19. /\ Put(m, r) /\ r \in LocalNote \union {None}
       /\ r # None /\ r.status = "synced" => r.version = r.base
  BY <1>2, <1>3, <1>4
<1>20. /\ resolving' \in Resolving \union {None}
       /\ resolving' # None => resolving # None /\ resolving'.of = resolving.of
       /\ \A k \in Note \ {m} : ResolvingFades(k)
  BY <1>0, <1>2 DEF AndroidTypeOK, ResolvingFades
<1> QED
  BY <1>2, <1>5, <1>11, <1>12, <1>13, <1>14, <1>15, <1>16, <1>17, <1>18, <1>19,
     <1>20, PutInv


(***************************************************************************)
(* Resolving a conflict.                                                   *)
(***************************************************************************)
(* A choice, or its end, writes no note. *)
LEMMA NoWriteInv ==
    ASSUME PhoneInv, UNCHANGED <<serverVars, local, cursor, syncVars, using, used>>,
           conflicts' \in Seq(Conflict), Open' \subseteq Open,
           resolving' \in Resolving \union {None},
           resolving' # None => conflicts' # <<>> /\ resolving'.of = Head(conflicts'),
           dropped \subseteq dropped', dropped' \subseteq Edit,
           \A m \in Note : ResolvingInv(m)' /\ ShownInv(m)',
           ConflictsLeave
    PROVE  PhoneInv'
<1>1. AndroidTypeOK /\ ServerInv /\ ServerTypeOK /\ Kept
  BY DEF PhoneInv, AndroidTypeOK
<1>2. /\ UNCHANGED <<step, sent, accepted, refused, page, reading, local, using>>
      /\ lastRev' = lastRev
  BY DEF syncVars, answerVars, serverVars
<1>3. Onward /\ ServerInv'
  BY <1>1, SameIsOnward, SameStoreInv
<1>4. AndroidTypeOK'
  BY <1>1, <1>2, <1>3 DEF AndroidTypeOK, ServerInv, Has
<1>5. Phase'
  BY <1>2 DEF PhoneInv, Phase
<1>6. ASSUME NEW m \in Note
      PROVE  NoteInv(m)'
  <2>1. NoteInv(m)
    BY DEF PhoneInv
  <2>2. /\ local'[m] = local[m] /\ Has(m)' = Has(m) /\ Unsynced(m)' = Unsynced(m)
        /\ Held(m)' = Held(m) /\ Unsettled(m)' = Unsettled(m)
    BY <1>2 DEF Has, Unsynced, Held, Unsettled, InRefused
  <2>3. LocalInv(m)'
    BY <1>1, <1>3, <2>1, <2>2, LocalStays DEF NoteInv
  <2>4. SentInv(m)'
    BY <1>1, <1>2, <1>3, <2>1, <2>2, SentStays DEF NoteInv, SentInv
  <2>5. AnswerInv(m)'
    BY <1>1, <1>2, <1>3, <2>1, AnswerStays DEF NoteInv, AnswerInv
  <2>6. RefusedInv(m)'
    BY <1>1, <1>2, <1>3, <2>1, RefusedStays DEF NoteInv, RefusedInv
  <2>7. ConflictInv(m)'
    BY <1>1, <1>3, <2>1, ConflictStays DEF NoteInv
  <2>8. PageInv(m)'
    BY <1>1, <1>2, <1>3, <2>1, PageStays DEF NoteInv
  <2>9. UsingInv(m)'
    BY <1>1, <1>2, <1>3, <2>1, <2>2, UsingStays DEF NoteInv, TextStill
  <2> QED
    BY <2>3, <2>4, <2>5, <2>6, <2>7, <2>8, <2>9 DEF NoteInv
<1>7. Kept'
  <2>1. \A m \in Note : Leaves(m)
    BY <1>2, TextLeaves DEF Unsynced, Has
  <2> QED
    BY <1>1, <1>3, <2>1, KeptNext
<1> QED
  BY <1>3, <1>4, <1>5, <1>6, <1>7 DEF PhoneInv

LEMMA ChooseInv ==
    ASSUME Closed, PhoneInv, NEW choice \in Choice, ChooseSide(choice)
    PROVE  PhoneInv'
<1> DEFINE gave(c) == CASE choice = "keep-local" -> c.theirs.content \ c.mine.content
                        [] choice = "keep-remote" ->
                             IF c.theirs.life = "deleted" THEN c.mine.content
                             ELSE c.mine.content \ c.theirs.content
                        [] OTHER -> {}
<1>0. AndroidTypeOK /\ ServerTypeOK
  BY DEF PhoneInv, AndroidTypeOK
<1>1. /\ resolving = None /\ conflicts # <<>> /\ conflicts \in Seq(Conflict)
      /\ UNCHANGED <<serverVars, local, conflicts, cursor, using, syncVars, used>>
  BY <1>0 DEF ChooseSide, AndroidTypeOK
<1>2. PICK c \in Conflict : c = Head(conflicts) /\ c \in Open
  BY <1>1 DEF Open
<1>3. /\ NothingNewer(c)
      /\ dropped' = dropped \union gave(c)
      /\ resolving' = [of |-> c, choice |-> choice, left |-> "record"]
  BY <1>2 DEF ChooseSide, Closed
<1>4. /\ gave(c) \subseteq c.theirs.content \union c.mine.content
      /\ choice = "keep-local" => gave(c) = c.theirs.content \ c.mine.content
      /\ choice = "keep-remote" => gave(c) = IF c.theirs.life = "deleted" THEN c.mine.content
                                             ELSE c.mine.content \ c.theirs.content
  OBVIOUS
<1> HIDE DEF gave
<1>5. /\ c.note \in Note /\ c.theirs.content \subseteq Edit /\ c.mine.content \subseteq Edit
  BY <1>0, <1>2, ConflictTypes
<1>6. /\ dropped \subseteq dropped' /\ dropped' \subseteq Edit
      /\ resolving' \in Resolving \union {None}
      /\ conflicts' # <<>> /\ resolving'.of = Head(conflicts')
      /\ Open' = Open
  <2>1. dropped \subseteq Edit
    BY <1>0 DEF AndroidTypeOK
  <2>2. resolving' \in Resolving
    BY <1>2, <1>3 DEF Resolving
  <2> QED
    BY <1>1, <1>2, <1>3, <1>4, <1>5, <2>1, <2>2 DEF Open
<1>7. ASSUME NEW m \in Note
      PROVE  ResolvingInv(m)' /\ ShownInv(m)'
  <2>1. NoteInv(m) /\ local' = local
    BY <1>1 DEF PhoneInv
  <2>2. ShownInv(m)'
    BY <1>1, <1>3, <2>1, ShownStays DEF NoteInv, Answered
  <2>3. CASE m = c.note
    <3>1. using' # None => using'.note # m
      BY <1>1, <1>3, <2>3 DEF NothingNewer
    <3>2. Has(m) => local[m].content \subseteq c.mine.content \union c.theirs.content
      BY <1>3, <2>3 DEF NothingNewer
    <3>3. Ours(m) => Text(m) \subseteq c.mine.content \union c.theirs.content \union dropped
      BY <2>1, <3>2 DEF NoteInv, LocalInv, InView
    <3>4. Text(m)' = Text(m) /\ (Ours(m)' <=> Ours(m)) /\ (Unsynced(m)' => Has(m))
      BY <1>1, SameStore DEF Unsynced, Has
    <3>5. Unsynced(m)' => local'[m].content \subseteq
                             c.mine.content \union c.theirs.content \union dropped'
      BY <2>1, <3>2, <3>4
    <3>6. choice = "keep-local" =>
             /\ c.theirs.content \subseteq c.mine.content \union dropped'
             /\ Ours(m)' => Text(m)' \subseteq c.mine.content \union dropped'
      BY <1>3, <1>4, <3>3, <3>4
    <3>7. choice = "keep-remote" =>
             c.mine.content \subseteq dropped' \union
                IF c.theirs.life = "deleted" THEN {} ELSE c.theirs.content
      BY <1>3, <1>4
    <3>8. resolving'.of = c /\ resolving'.choice = choice /\ resolving'.left = "record"
      BY <1>3
    <3> QED
      BY <2>2, <2>3, <3>1, <3>5, <3>6, <3>7, <3>8 DEF ResolvingInv
  <2>4. CASE m # c.note
    BY <1>3, <2>2, <2>4 DEF ResolvingInv
  <2> QED
    BY <2>3, <2>4
<1>8. ConflictsLeave
  BY <1>1, <1>3, ConflictsStayHeld DEF ConflictsStay
<1> QED
  BY <1>1, <1>6, <1>7, <1>8, NoWriteInv

LEMMA MarkResolvedInv ==
    ASSUME PhoneInv, MarkResolved
    PROVE  PhoneInv'
<1>1. /\ resolving # None /\ resolving.left = "status"
      /\ conflicts' = Tail(conflicts) /\ resolving' = None
      /\ UNCHANGED <<serverVars, local, cursor, using, syncVars, used, dropped>>
  BY DEF MarkResolved, historyVars
<1>2. conflicts \in Seq(Conflict) /\ conflicts # <<>> /\ dropped \subseteq Edit
  BY <1>1 DEF PhoneInv, AndroidTypeOK
<1>3. /\ conflicts' \in Seq(Conflict)
      /\ \A i \in DOMAIN conflicts : i > 1 =>
            i - 1 \in DOMAIN conflicts' /\ conflicts'[i - 1] = conflicts[i]
      /\ \A i \in DOMAIN conflicts' :
            i + 1 \in DOMAIN conflicts /\ conflicts'[i] = conflicts[i + 1]
  BY <1>1, <1>2
<1>4. Open' \subseteq Open
  BY <1>3 DEF Open
<1>5. ASSUME NEW m \in Note
      PROVE  ResolvingInv(m)' /\ ShownInv(m)'
  <2>1. ShownInv(m)
    BY DEF PhoneInv, NoteInv
  <2>2. ASSUME Has(m)', local'[m].status = "conflict"
        PROVE  ShownInv(m)'
    <3>1. PICK i \in DOMAIN conflicts : /\ conflicts[i].note = m
                                        /\ conflicts[i].mine = Side(local[m]) /\ i > 1
      <4>1. Has(m) /\ local[m].status = "conflict"
        BY <1>1, <2>2 DEF Has
      <4>2. Answered
        BY <1>1 DEF Answered
      <4> QED
        BY <2>1, <4>1, <4>2 DEF ShownInv
    <3>2. PICK j : j = i - 1
      OBVIOUS
    <3>3. j \in DOMAIN conflicts' /\ conflicts'[j] = conflicts[i] /\ local' = local
      BY <1>1, <1>3, <3>1, <3>2
    <3> QED
      BY <1>1, <3>1, <3>3 DEF ShownInv, Answered
  <2>3. ShownInv(m)'
    BY <2>2 DEF ShownInv
  <2> QED
    BY <1>1, <2>3 DEF ResolvingInv
<1>6. ConflictsLeave
  <2> SUFFICES ASSUME NEW i \in DOMAIN conflicts, i > 1,
                      NEW e \in conflicts[i].mine.content
               PROVE  Holds(e)'
    BY <1>1 DEF ConflictsLeave
  <2>1. PICK j : j = i - 1
    OBVIOUS
  <2>2. j \in DOMAIN conflicts' /\ conflicts'[j] = conflicts[i]
    BY <1>3, <2>1
  <2> QED
    BY <1>1, <2>2 DEF Holds
<1> QED
  BY <1>1, <1>2, <1>3, <1>4, <1>5, <1>6, NoWriteInv

LEMMA SyncedFacts ==
    ASSUME NEW t \in Remote
    PROVE  /\ Synced(t) \in LocalNote /\ Synced(t) # None
           /\ Synced(t).content = t.content /\ Synced(t).life = t.life
           /\ Synced(t).base = t.version /\ Synced(t).version = t.version
           /\ Synced(t).status = "synced"
<1>1. Synced(t) \in LocalNote
  BY DEF Synced, LocalNote, Remote, Status
<1>2. Synced(t) # None
  BY <1>1
<1> QED
  BY <1>1, <1>2 DEF Synced

LEMMA ChosenFacts ==
    ASSUME NEW c \in Conflict
    PROVE  /\ ChosenRecord(c, "keep-local") \in LocalNote
           /\ ChosenRecord(c, "keep-local") # None
           /\ ChosenRecord(c, "keep-local").content = c.mine.content
           /\ ChosenRecord(c, "keep-local").base = c.theirs.version
           /\ ChosenRecord(c, "keep-local").status = "pending"
           /\ \A x : x # "keep-local" => ChosenRecord(c, x) = Synced(c.theirs)
<1>1. /\ c.mine.content \in Content /\ c.mine.life \in Life /\ c.theirs.version \in Nat
  BY DEF Conflict, Record, Remote
<1> DEFINE r == [content |-> c.mine.content, life |-> c.mine.life,
                 version |-> NextVersionAfter(c.theirs.version),
                 base |-> c.theirs.version, status |-> "pending"]
<1>2. ChosenRecord(c, "keep-local") = r
  BY DEF ChosenRecord
<1>3. r \in LocalNote
  BY <1>1 DEF LocalNote, Status, NextVersionAfter
<1>4. r.content = c.mine.content /\ r.base = c.theirs.version /\ r.status = "pending"
  OBVIOUS
<1> HIDE DEF r
<1>5. r # None
  BY <1>3
<1>6. \A x : x # "keep-local" => ChosenRecord(c, x) = Synced(c.theirs)
  BY DEF ChosenRecord
<1> QED
  BY <1>2, <1>3, <1>4, <1>5, <1>6


LEMMA ResolvingStep ==
    ASSUME AndroidTypeOK, resolving # None,
           NEW left \in {"record", "copy", "status"},
           resolving' = [resolving EXCEPT !.left = left]
    PROVE  /\ resolving' \in Resolving /\ resolving'.of = resolving.of
           /\ resolving'.choice = resolving.choice /\ resolving'.left = left
           /\ resolving' # None
<1>1. resolving \in Resolving
  BY UserTypes
<1>2. PICK c \in Conflict, ch \in Choice, l \in {"record", "copy", "status"} :
         resolving = [of |-> c, choice |-> ch, left |-> l]
  BY <1>1 DEF Resolving
<1>3. resolving' = [of |-> c, choice |-> ch, left |-> left]
  BY <1>2
<1>4. resolving' \in Resolving
  <2>1. [of |-> c, choice |-> ch, left |-> left] \in Resolving
    BY DEF Resolving
  <2> QED
    BY <1>3, <2>1
<1>5. resolving' # None
  BY <1>4
<1> QED
  BY <1>2, <1>3, <1>4, <1>5

(* The conflict that is being resolved is the first. *)
LEMMA FirstConflict ==
    ASSUME AndroidTypeOK, resolving # None
    PROVE  /\ 1 \in DOMAIN conflicts /\ conflicts[1] = resolving.of
           /\ \A i \in DOMAIN conflicts : i = 1 \/ i > 1
           /\ resolving.of \in Conflict
<1>1. /\ conflicts \in Seq(Conflict) /\ conflicts # <<>>
      /\ resolving.of = Head(conflicts) /\ resolving.of \in Conflict
  BY UserTypes, ConflictTypes
<1> QED
  BY <1>1

LEMMA PutChosenInv ==
    ASSUME Closed, PhoneInv, PutChosen
    PROVE  PhoneInv'
<1>0. AndroidTypeOK /\ ServerTypeOK
  BY DEF PhoneInv, AndroidTypeOK
<1>1. /\ resolving # None /\ resolving.left = "record"
      /\ MayWrite(resolving.of.note) /\ InTime(resolving.of, resolving.choice)
      /\ Put(resolving.of.note, ChosenRecord(resolving.of, resolving.choice))
      /\ resolving' = [resolving EXCEPT !.left = AfterRecord(resolving.choice)]
      /\ UNCHANGED <<serverVars, conflicts, cursor, using, syncVars, used, dropped>>
  BY DEF PutChosen, historyVars
<1>2. PICK c \in Conflict, ch \in Choice : c = resolving.of /\ ch = resolving.choice
  BY <1>0, <1>1, UserTypes
<1>3. PICK n \in Note : n = c.note
  BY DEF Conflict
<1>4. PICK r \in LocalNote : r = ChosenRecord(c, ch)
  <2>1. c.theirs \in Remote
    BY DEF Conflict
  <2>2. CASE ch = "keep-local"
    BY <2>2, ChosenFacts
  <2>3. CASE ch # "keep-local"
    BY <2>1, <2>3, ChosenFacts, SyncedFacts
  <2> QED
    BY <2>2, <2>3
<1>5. /\ c.theirs \in Remote /\ c.theirs.version \in Nat /\ c \in Open
      /\ 1 \in DOMAIN conflicts /\ conflicts[1] = c
      /\ \A i \in DOMAIN conflicts : i = 1 \/ i > 1
      /\ used \subseteq Edit /\ dropped \subseteq Edit
  BY <1>0, <1>1, <1>2, FirstConflict DEF Conflict, Remote, Open, AndroidTypeOK
<1>6. /\ resolving' \in Resolving /\ resolving'.of = c /\ resolving'.choice = ch
      /\ resolving'.left = AfterRecord(ch) /\ resolving' # None
  <2>1. AfterRecord(ch) \in {"record", "copy", "status"}
    BY DEF AfterRecord
  <2> QED
    BY <1>0, <1>1, <1>2, <2>1, ResolvingStep
<1>7. NoteInv(n)
  BY DEF PhoneInv
<1>8. /\ using # None => using.note # n
      /\ Unsynced(n) => local[n].content \subseteq
            c.mine.content \union c.theirs.content \union dropped
      /\ ch = "keep-local" =>
            /\ c.theirs.content \subseteq c.mine.content \union dropped
            /\ Ours(n) => Text(n) \subseteq c.mine.content \union dropped
      /\ ch = "keep-remote" =>
            c.mine.content \subseteq dropped \union
               IF c.theirs.life = "deleted" THEN {} ELSE c.theirs.content
  BY <1>1, <1>2, <1>3, <1>7 DEF NoteInv, ResolvingInv
<1>9. /\ Known(n, c.theirs)
      /\ c.theirs.content \subseteq c.mine.content \union Text(n) \union dropped
  BY <1>3, <1>5, <1>7 DEF NoteInv, ConflictInv
<1>10. local'[n] = r /\ Put(n, r)
  BY <1>0, <1>1, <1>2, <1>3, <1>4 DEF Put, AndroidTypeOK
<1>11. r # None /\ Has(n)'
  BY <1>10 DEF Has
<1>12. /\ Version(n)' = Version(n) /\ (HasRow(n)' <=> HasRow(n)) /\ Text(n)' = Text(n)
       /\ (Ours(n)' <=> Ours(n)) /\ dropped' = dropped /\ Onward
  BY <1>0, <1>1, SameStore, SameIsOnward
<1>13. /\ UNCHANGED <<step, sent, accepted, refused>>
       /\ (Unsettled(n)' <=> Unsettled(n))
  BY <1>1 DEF Unsettled, InRefused, syncVars, answerVars
<1>14. ASSUME ch = "keep-local"
       PROVE  /\ LocalInv(n)' /\ SentInv(n)' /\ Leaves(n) /\ ConflictsLeave
              /\ r.status \in {"pending", "synced"} /\ r.status # "synced"
  <2>1. r.content = c.mine.content /\ r.base = c.theirs.version /\ r.status = "pending"
    BY <1>4, <1>14, ChosenFacts
  <2>2. LocalInv(n)'
    BY <1>8, <1>9, <1>10, <1>11, <1>12, <1>14, <2>1 DEF LocalInv, InView, Seen, Known
  <2>3. Unsynced(n)' /\ Held(n)' = c.mine.content
    BY <1>10, <1>11, <2>1 DEF Unsynced, Held
  <2>4. Unsynced(n) => local[n].content \subseteq c.mine.content \union dropped
    BY <1>8, <1>14
  <2>5. SentInv(n)'
    <3>1. Unsettled(n) => Held(n) \subseteq Held(n)' \union dropped'
      BY <1>7, <1>12, <2>3, <2>4 DEF NoteInv, SentInv, Held
    <3> QED
      BY <1>0, <1>7, <1>12, <1>13, <2>3, <3>1, SentStays DEF NoteInv
  <2>6. Leaves(n)
    BY <1>10, <1>12, <2>1, <2>3, <2>4, TextLeaves
  <2>7. ConflictsLeave
    <3>1. \A e \in c.mine.content : Holds(e)'
      BY <1>10, <2>1, <2>3 DEF Holds
    <3>2. \A i \in DOMAIN conflicts : i > 1 =>
             \A e \in conflicts[i].mine.content : Holds(e)'
      BY <1>1 DEF Holds
    <3> QED
      BY <1>5, <3>1, <3>2 DEF ConflictsLeave
  <2> QED
    BY <2>1, <2>2, <2>5, <2>6, <2>7
<1>15. ASSUME ch # "keep-local"
       PROVE  /\ LocalInv(n)' /\ SentInv(n)' /\ Leaves(n) /\ ConflictsLeave
              /\ r.status = "synced" /\ r.version = r.base
  <2>1. /\ r.content = c.theirs.content /\ r.base = c.theirs.version
        /\ r.version = c.theirs.version /\ r.status = "synced"
    BY <1>4, <1>5, <1>15, ChosenFacts, SyncedFacts
  <2>2. c.theirs.version = Version(n) /\ n \notin DOMAIN sent
    BY <1>1, <1>2, <1>3, <1>15 DEF InTime, Closed
  <2>3. LocalInv(n)'
    BY <1>9, <1>10, <1>11, <1>12, <2>1, <2>2 DEF LocalInv, InView, Seen, Known, Ours
  <2>4. SentInv(n)'
    BY <1>13, <2>2 DEF SentInv, Unsettled
  <2>5. c.theirs.life # "deleted" => c.theirs.content \subseteq Text(n)' \union dropped'
    BY <1>9, <1>12 DEF Known, InServer
  <2>6. CASE ch = "keep-remote"
    <3>1. c.mine.content \subseteq dropped' \union Text(n)'
      BY <1>8, <1>12, <2>5, <2>6
    <3>2. c.theirs.content \subseteq dropped' \union Text(n)'
      BY <1>9, <1>12, <3>1
    <3>3. Leaves(n)
      BY <1>8, <1>12, <3>1, <3>2, TextLeaves
    <3>4. ConflictsLeave
      <4>1. \A e \in c.mine.content : e \in dropped' \/ OnServer(e)'
        BY <3>1 DEF OnServer
      <4>2. \A i \in DOMAIN conflicts : i > 1 =>
               \A e \in conflicts[i].mine.content : Holds(e)'
        BY <1>1 DEF Holds
      <4> QED
        BY <1>5, <4>1, <4>2 DEF ConflictsLeave
    <3> QED
      BY <2>1, <2>3, <2>4, <3>3, <3>4
  <2>7. CASE ch = "duplicate-both"
    <3>1. resolving'.left = "copy" /\ conflicts' = conflicts
      BY <1>1, <1>6, <2>7 DEF AfterRecord
    <3>2. \A e \in c.mine.content : Holds(e)'
      BY <1>5, <3>1 DEF Holds
    <3>3. Leaves(n)
      <4>1. ASSUME Unsynced(n), NEW e \in local[n].content
            PROVE  e \in dropped' \/ OnServer(e)' \/ Holds(e)'
        <5>1. e \in c.mine.content \/ e \in Text(n)' \/ e \in dropped'
          BY <1>8, <1>9, <1>12, <4>1
        <5> QED
          BY <3>2, <5>1 DEF OnServer
      <4> QED
        BY <4>1 DEF Leaves
    <3>4. ConflictsLeave
      BY <1>1, <3>1, ConflictsStayHeld DEF ConflictsStay
    <3> QED
      BY <2>1, <2>3, <2>4, <3>3, <3>4
  <2> QED
    BY <1>15, <2>6, <2>7 DEF Choice
<1>16. /\ LocalInv(n)' /\ SentInv(n)' /\ Leaves(n) /\ ConflictsLeave
       /\ r.status \in {"pending", "synced"} /\ (r.status = "synced" => r.version = r.base)
  BY <1>14, <1>15
<1>17. UsingInv(n)' /\ ResolvingInv(n)'
  <2>1. UsingInv(n)' /\ (using' # None => using'.note # n)
    BY <1>1, <1>8 DEF UsingInv
  <2>2. resolving'.left # "record" /\ (resolving'.left = "copy" => ch = "duplicate-both")
    BY <1>6 DEF AfterRecord
  <2> QED
    BY <1>6, <2>1, <2>2 DEF ResolvingInv
<1>18. ASSUME NEW m \in Note
       PROVE  ShownInv(m)'
  <2>1. CASE m = n
    BY <1>10, <1>16, <2>1 DEF ShownInv
  <2>2. CASE m # n
    <3>1. local'[m] = local[m] /\ ShownInv(m) /\ conflicts' = conflicts
      BY <1>0, <1>1, <1>10, <2>2 DEF Put, PhoneInv, NoteInv, AndroidTypeOK
    <3>2. \A i \in DOMAIN conflicts : conflicts[i].note = m => i > 1
      BY <1>3, <1>5, <2>2
    <3> QED
      BY <3>1, <3>2 DEF ShownInv, Has
  <2> QED
    BY <2>1, <2>2
<1>19. \A m \in Note \ {n} : ResolvingFades(m)
  BY <1>3, <1>6 DEF ResolvingFades
<1>20. /\ reading # None => reading.note # n
       /\ step = "prepare" => n \notin DOMAIN sent
  BY <1>1, <1>2, <1>3, MayWriteFacts
<1>21. /\ UNCHANGED <<serverVars, conflicts, cursor, syncVars>>
       /\ using' \in {using, None} /\ resolving' \in Resolving \union {None}
       /\ resolving' # None => resolving # None /\ resolving'.of = resolving.of
       /\ used' = used /\ used' \subseteq Edit /\ dropped' \subseteq Edit
       /\ dropped \subseteq dropped'
  BY <1>1, <1>2, <1>5, <1>6
<1> QED
  BY <1>10, <1>16, <1>17, <1>18, <1>19, <1>20, <1>21, PutInv

LEMMA PutCopyInv ==
    ASSUME PhoneInv, NEW n \in Note, PutCopy(n)
    PROVE  PhoneInv'
<1>0. AndroidTypeOK
  BY DEF PhoneInv
<1>1. /\ resolving # None /\ resolving.left = "copy" /\ Fresh(n)
      /\ Put(n, NewNote(resolving.of.mine.content, resolving.of.mine.life))
      /\ resolving' = [resolving EXCEPT !.left = "status"]
      /\ UNCHANGED <<serverVars, conflicts, cursor, syncVars, using, used, dropped>>
  BY DEF PutCopy, historyVars
<1>2. /\ resolving' \in Resolving /\ resolving'.of = resolving.of
      /\ resolving'.left = "status"
  BY <1>0, <1>1, ResolvingStep
<1>3. Answered
  BY <1>1 DEF Answered
<1>4. PICK x \in Content, l \in Life :
         x = resolving.of.mine.content /\ l = resolving.of.mine.life
  BY <1>0, <1>1, UserTypes, ConflictTypes
<1>5. Put(n, NewNote(x, l)) /\ used' \subseteq Edit /\ resolving.of.mine.content \subseteq x
  BY <1>0, <1>1, <1>4 DEF AndroidTypeOK
<1> QED
  BY <1>1, <1>2, <1>3, <1>5, NewNoteInv


(***************************************************************************)
(* The steps of a sync.                                                    *)
(***************************************************************************)
SyncTypes ==
    /\ step \in Step
    /\ NoteMap(sent, LocalNote) /\ NoteMap(accepted, Nat \ {0})
    /\ refused \subseteq Conflict
    /\ DOMAIN page = DOMAIN NoPage
    /\ NoteMap(page.notes, Remote) /\ page.deletes \subseteq Note
    /\ page.revision \in 0..lastRev
    /\ reading \in Reading \union {None}

(* What a step of a sync has to keep of each note. *)
SyncNote(n) ==
    /\ LocalInv(n) /\ SentInv(n) /\ AnswerInv(n) /\ RefusedInv(n)
    /\ ConflictInv(n) /\ PageInv(n) /\ ShownInv(n)

LEMMA SyncStepInv ==
    ASSUME PhoneInv, UNCHANGED <<serverVars, used>>,
           using' \in {using, None}, resolving' \in {resolving, None},
           dropped \subseteq dropped', dropped' \subseteq Edit,
           local' \in [Note -> LocalNote \union {None}],
           \A n \in Note : Has(n)' /\ local'[n].status = "synced"
                             => local'[n].version = local'[n].base,
           conflicts' \in Seq(Conflict),
           \A i \in DOMAIN conflicts : /\ i \in DOMAIN conflicts'
                                       /\ conflicts'[i] = conflicts[i],
           cursor' \in 0..lastRev, SyncTypes', Phase',
           \A n \in Note : TextStill(n) /\ Leaves(n) /\ SyncNote(n)'
    PROVE  PhoneInv'
<1>1. AndroidTypeOK /\ ServerInv /\ ServerTypeOK /\ Kept
  BY DEF PhoneInv, AndroidTypeOK
<1>2. Onward /\ ServerInv' /\ lastRev' = lastRev
  BY <1>1, SameIsOnward, SameStoreInv DEF serverVars
<1>3. resolving' # None => conflicts' # <<>> /\ resolving'.of = Head(conflicts')
  <2> SUFFICES ASSUME resolving' # None
               PROVE  conflicts' # <<>> /\ resolving'.of = Head(conflicts')
    OBVIOUS
  <2>1. resolving' = resolving /\ resolving # None
    OBVIOUS
  <2>2. 1 \in DOMAIN conflicts /\ conflicts[1] = resolving.of
    BY <1>1, <2>1, FirstConflict
  <2>3. 1 \in DOMAIN conflicts' /\ conflicts'[1] = resolving.of
    BY <2>2
  <2> QED
    BY <2>1, <2>3
<1>4. AndroidTypeOK'
  <2>1. ServerTypeOK' /\ used' \subseteq Edit
    BY <1>1, <1>2 DEF ServerInv, AndroidTypeOK
  <2>2. using' \in Using \union {None} /\ resolving' \in Resolving \union {None}
    BY <1>1 DEF AndroidTypeOK
  <2> QED
    BY <1>2, <1>3, <2>1, <2>2 DEF AndroidTypeOK, SyncTypes
<1>5. ASSUME NEW n \in Note
      PROVE  NoteInv(n)'
  <2>1. NoteInv(n) /\ TextStill(n) /\ SyncNote(n)'
    BY DEF PhoneInv
  <2>2. UsingInv(n)'
    BY <1>1, <1>2, <2>1, UsingStays DEF NoteInv
  <2>3. ResolvingInv(n)'
    BY <1>1, <1>2, <2>1, ResolvingStays DEF NoteInv, ResolvingFades
  <2> QED
    BY <2>1, <2>2, <2>3 DEF NoteInv, SyncNote
<1>6. Kept'
  <2>1. ConflictsStay
    BY DEF ConflictsStay
  <2> QED
    BY <1>1, <1>2, <2>1, ConflictsStayHeld, KeptNext
<1> QED
  BY <1>2, <1>4, <1>5, <1>6 DEF PhoneInv

(* A step that writes no note and no conflict. *)
LEMMA MoveOnInv ==
    ASSUME PhoneInv, UNCHANGED <<serverVars, local, conflicts, historyVars>>,
           using' \in {using, None}, resolving' \in {resolving, None},
           cursor' \in 0..lastRev, SyncTypes', Phase',
           \A n \in Note : SentInv(n)' /\ AnswerInv(n)' /\ RefusedInv(n)' /\ PageInv(n)'
    PROVE  PhoneInv'
<1>1. AndroidTypeOK /\ ServerTypeOK /\ Onward
  BY SameIsOnward DEF PhoneInv, AndroidTypeOK, historyVars
<1>2. ASSUME NEW n \in Note
      PROVE  TextStill(n) /\ Leaves(n) /\ SyncNote(n)'
  <2>1. NoteInv(n)
    BY DEF PhoneInv
  <2>2. TextStill(n) /\ Leaves(n)
    BY TextLeaves DEF TextStill, Unsynced, Has
  <2>3. LocalInv(n)'
    BY <1>1, <2>1, LocalStays DEF NoteInv
  <2>4. ConflictInv(n)'
    BY <1>1, <2>1, ConflictStays DEF NoteInv, Open
  <2>5. ShownInv(n)'
    BY <2>1, ShownStays DEF NoteInv, Answered
  <2> QED
    BY <2>2, <2>3, <2>4, <2>5 DEF SyncNote
<1>3. /\ \A n \in Note : Has(n)' /\ local'[n].status = "synced"
                             => local'[n].version = local'[n].base
      /\ local' \in [Note -> LocalNote \union {None}] /\ conflicts' \in Seq(Conflict)
      /\ dropped' \subseteq Edit /\ dropped' = dropped /\ used' = used
  BY <1>1 DEF AndroidTypeOK, Has, historyVars
<1> QED
  BY <1>2, <1>3, SyncStepInv

(* A step that handles one note of an answer. *)
LEMMA OneNoteInv ==
    ASSUME PhoneInv,
           UNCHANGED <<serverVars, cursor, userVars, step, sent, historyVars>>,
           step \in {"answered", "pulled"},
           NEW n \in Note, NEW r \in LocalNote \union {None},
           r # None /\ r.status = "synced" => r.version = r.base,
           local' = [local EXCEPT ![n] = r],
           conflicts' = conflicts \/ \E c \in Conflict :
                                        c.note = n /\ conflicts' = Append(conflicts, c),
           accepted' = accepted \/ accepted' = Without(accepted, n),
           refused' \subseteq refused,
           \A m \in Note \ {n} : \A c \in refused : c.note = m => c \in refused',
           DOMAIN page' = DOMAIN page, page'.revision = page.revision,
           page'.notes = page.notes \/ page'.notes = Without(page.notes, n),
           page'.deletes \subseteq page.deletes, reading' = None,
           TextStill(n), Leaves(n),
           LocalInv(n)', SentInv(n)', ConflictInv(n)', ShownInv(n)'
    PROVE  PhoneInv'
<1>1. AndroidTypeOK /\ ServerTypeOK /\ Onward /\ Phase
  BY SameIsOnward DEF PhoneInv, AndroidTypeOK, historyVars
<1>2. /\ local' \in [Note -> LocalNote \union {None}] /\ local'[n] = r
      /\ \A m \in Note \ {n} : local'[m] = local[m]
      /\ \A m \in Note : Has(m)' /\ local'[m].status = "synced"
                             => local'[m].version = local'[m].base
  BY <1>1 DEF AndroidTypeOK, Has
<1>3. /\ conflicts' \in Seq(Conflict)
      /\ \A i \in DOMAIN conflicts : i \in DOMAIN conflicts' /\ conflicts'[i] = conflicts[i]
      /\ \A m \in Note \ {n} : \A c \in Open' : c.note = m => c \in Open
  <2>1. conflicts \in Seq(Conflict)
    BY <1>1 DEF AndroidTypeOK
  <2>2. CASE conflicts' = conflicts
    BY <2>1, <2>2 DEF Open
  <2>3. ASSUME NEW c \in Conflict, c.note = n, conflicts' = Append(conflicts, c)
        PROVE  <1>3!1 /\ <1>3!2 /\ <1>3!3
    BY <2>1, <2>3 DEF Open
  <2> QED
    BY <2>2, <2>3
<1>4. SyncTypes'
  <2>1. /\ DOMAIN accepted' \subseteq DOMAIN accepted
        /\ \A m \in DOMAIN accepted' : accepted'[m] = accepted[m]
        /\ DOMAIN page'.notes \subseteq DOMAIN page.notes
        /\ \A m \in DOMAIN page'.notes : page'.notes[m] = page.notes[m]
    BY DEF Without
  <2>2. lastRev' = lastRev
    BY DEF serverVars
  <2>3. None \in Reading \union {None}
    OBVIOUS
  <2> QED
    BY <1>1, <2>1, <2>2, <2>3 DEF AndroidTypeOK, SyncTypes, NoteMap
<1>5. Phase'
  <2>1. DOMAIN accepted' \subseteq DOMAIN accepted /\ DOMAIN page'.notes \subseteq DOMAIN page.notes
    BY DEF Without
  <2>2. sent' = sent /\ step' = step
    OBVIOUS
  <2> QED
    <3>1. step' # "pulled" => DOMAIN page'.notes = {} /\ page'.deletes = {}
      BY <1>1, <2>1, <2>2 DEF Phase
    <3>2. step' # "answered" => DOMAIN accepted' = {} /\ refused' = {}
      BY <1>1, <2>1, <2>2 DEF Phase
    <3>3. step' \notin {"prepare", "push", "answered"} => DOMAIN sent' = {}
      BY <1>1, <2>2 DEF Phase
    <3> QED
      BY <2>2, <3>1, <3>2, <3>3 DEF Phase
<1>6. ASSUME NEW m \in Note
      PROVE  AnswerInv(m)' /\ RefusedInv(m)' /\ PageInv(m)'
  <2>1. NoteInv(m)
    BY DEF PhoneInv
  <2>2. AnswerInv(m)'
    BY <1>1, <2>1, AnswerStays DEF NoteInv, AnswerInv, Without
  <2>3. RefusedInv(m)'
    BY <1>1, <2>1, RefusedStays DEF NoteInv, RefusedInv, Without
  <2>4. PageInv(m)'
    BY <1>1, <2>1, PageStays DEF NoteInv, Without
  <2> QED
    BY <2>2, <2>3, <2>4
<1>7. ASSUME NEW m \in Note
      PROVE  TextStill(m) /\ Leaves(m) /\ SyncNote(m)'
  <2>1. NoteInv(m)
    BY DEF PhoneInv
  <2>2. CASE m = n
    BY <1>6, <2>2 DEF SyncNote
  <2>3. CASE m # n
    <3>1. /\ local'[m] = local[m] /\ Has(m)' = Has(m) /\ Unsynced(m)' = Unsynced(m)
          /\ Held(m)' = Held(m)
      BY <1>2, <2>3 DEF Has, Unsynced, Held
    <3>2. TextStill(m) /\ Leaves(m)
      BY <3>1, TextLeaves DEF TextStill, Unsynced
    <3>3. LocalInv(m)'
      BY <1>1, <2>1, <3>1, LocalStays DEF NoteInv
    <3>4. Unsettled(m)' => Unsettled(m)
      BY DEF Unsettled, InRefused, Without
    <3>5. SentInv(m)'
      BY <1>1, <2>1, <3>1, <3>4, SentStays DEF NoteInv, SentInv
    <3>6. ConflictInv(m)'
      BY <1>1, <1>3, <2>1, <2>3, ConflictStays DEF NoteInv
    <3>7. ShownInv(m)'
      BY <1>3, <2>1, <3>1, ShownStays DEF NoteInv, Answered, userVars
    <3> QED
      BY <1>6, <3>2, <3>3, <3>5, <3>6, <3>7 DEF SyncNote
  <2> QED
    BY <2>2, <2>3
<1>8. /\ cursor' \in 0..lastRev /\ used' = used /\ dropped' = dropped
      /\ dropped' \subseteq Edit /\ using' = using /\ resolving' = resolving
  BY <1>1 DEF AndroidTypeOK, historyVars, userVars
<1> QED
  BY <1>2, <1>3, <1>4, <1>5, <1>7, <1>8, SyncStepInv


LEMMA NothingRead ==
    ASSUME AndroidTypeOK, Phase, step \notin {"answered", "pulled"}
    PROVE  reading = None
BY UserTypes DEF Phase

LEMMA NothingFacts ==
    /\ DOMAIN Nothing = {} /\ DOMAIN NoPage = {"notes", "deletes", "revision"}
    /\ NoPage.notes = Nothing /\ NoPage.deletes = {} /\ NoPage.revision = 0
    /\ \A S : NoteMap(Nothing, S)
<1>1. DOMAIN Nothing = {}
  BY DEF Nothing
<1> QED
  BY <1>1 DEF NoPage, NoteMap

LEMMA ReadPendingInv ==
    ASSUME PhoneInv, ReadPending
    PROVE  PhoneInv'
<1>0. AndroidTypeOK /\ ServerTypeOK /\ Phase
  BY DEF PhoneInv, AndroidTypeOK
<1>1. /\ step = "idle" /\ sent' = [n \in Pending |-> local[n]]
      /\ step' = IF Pending = {} THEN "pull" ELSE "prepare"
      /\ UNCHANGED <<serverVars, local, conflicts, cursor, userVars, historyVars>>
      /\ UNCHANGED <<accepted, refused, page, reading, using, resolving>>
  BY DEF ReadPending, Goto, answerVars, userVars
<1>2. /\ reading = None /\ DOMAIN accepted = {} /\ refused = {}
      /\ DOMAIN page.notes = {} /\ page.deletes = {}
  BY <1>0, <1>1, NothingRead DEF Phase
<1>3. /\ DOMAIN sent' = Pending /\ Pending \subseteq Note
      /\ \A n \in Pending : sent'[n] = local[n] /\ local[n] \in LocalNote
  BY <1>0, <1>1, LocalTypes DEF Pending
<1>4. SyncTypes'
  <2>1. NoteMap(sent, LocalNote)' /\ step' \in Step /\ lastRev' = lastRev
    BY <1>1, <1>3 DEF NoteMap, Step, serverVars
  <2> QED
    BY <1>0, <1>1, <2>1 DEF AndroidTypeOK, SyncTypes
<1>5. Phase'
  BY <1>1, <1>2, <1>3 DEF Phase
<1>6. ASSUME NEW n \in Note
      PROVE  SentInv(n)' /\ AnswerInv(n)' /\ RefusedInv(n)' /\ PageInv(n)'
  <2>1. AnswerInv(n)' /\ RefusedInv(n)' /\ PageInv(n)'
    BY <1>1, <1>2 DEF AnswerInv, RefusedInv, PageInv
  <2>2. ASSUME n \in Pending
        PROVE  SentInv(n)'
    <3>1. Has(n) /\ local[n].status = "pending" /\ LocalInv(n)
      BY <2>2 DEF Pending, PhoneInv, NoteInv
    <3>2. Seen(n, local[n].base, local[n].content)
      BY <3>1 DEF LocalInv, InView
    <3>3. Seen(n, local[n].base, local[n].content)'
      BY <1>1, <3>2, SameStore DEF Seen, historyVars
    <3>4. sent'[n] = local'[n] /\ local' = local
      BY <1>1, <1>3, <2>2
    <3>5. Has(n)' /\ Unsynced(n)' /\ Held(n)' = local[n].content
      BY <3>1, <3>4 DEF Has, Unsynced, Held
    <3> QED
      BY <1>3, <2>2, <3>1, <3>3, <3>4, <3>5 DEF SentInv, Seen
  <2>3. n \notin Pending => SentInv(n)'
    BY <1>3 DEF SentInv, Unsettled
  <2> QED
    BY <2>1, <2>2, <2>3
<1> QED
  BY <1>0, <1>1, <1>4, <1>5, <1>6, MoveOnInv DEF AndroidTypeOK, serverVars

LEMMA ReadInv ==
    ASSUME PhoneInv, NEW n \in Note,
           NEW where \in {"mark", "absorb", "delete", "merge"}, Read(where, n),
           where = "mark" => step = "answered" /\ n \in DOMAIN accepted,
           where = "absorb" => /\ step = "answered"
                               /\ \E c \in refused : OwnEcho(c) /\ c.note = n,
           where = "delete" => step = "pulled" /\ n \in page.deletes,
           where = "merge" => step = "pulled" /\ n \in DOMAIN page.notes
    PROVE  PhoneInv'
<1>0. AndroidTypeOK /\ ServerTypeOK /\ Phase
  BY DEF PhoneInv, AndroidTypeOK
<1>1. /\ reading' = [where |-> where, note |-> n, seen |-> local[n]]
      /\ UNCHANGED <<serverVars, local, conflicts, cursor, userVars, historyVars>>
      /\ UNCHANGED <<step, sent, accepted, refused, page, using, resolving>>
  BY DEF Read, answerVars, userVars
<1>2. reading' \in Reading
  <2>1. local[n] \in LocalNote \union {None}
    BY <1>0 DEF AndroidTypeOK
  <2> QED
    BY <1>1, <2>1 DEF Reading
<1>3. SyncTypes'
  BY <1>0, <1>1, <1>2 DEF AndroidTypeOK, SyncTypes, serverVars
<1>4. /\ reading'.seen = local'[reading'.note] /\ reading'.note = n
      /\ reading'.where = where
  BY <1>1
<1>5. Phase'
  BY <1>0, <1>1, <1>4 DEF Phase
<1>6. ASSUME NEW m \in Note
      PROVE  SentInv(m)' /\ AnswerInv(m)' /\ RefusedInv(m)' /\ PageInv(m)'
  <2>1. NoteInv(m) /\ Onward
    BY <1>0, <1>1, SameIsOnward DEF PhoneInv, historyVars
  <2>2. SentInv(m)'
    BY <1>0, <1>1, <2>1, SentStays DEF NoteInv, SentInv, Unsettled, InRefused, Has,
       Unsynced, Held
  <2>3. AnswerInv(m)'
    BY <1>0, <1>1, <2>1, AnswerStays DEF NoteInv, AnswerInv
  <2>4. RefusedInv(m)'
    BY <1>0, <1>1, <2>1, RefusedStays DEF NoteInv, RefusedInv
  <2>5. PageInv(m)'
    BY <1>0, <1>1, <2>1, PageStays DEF NoteInv
  <2> QED
    BY <2>2, <2>3, <2>4, <2>5
<1> QED
  BY <1>0, <1>1, <1>3, <1>5, <1>6, MoveOnInv DEF AndroidTypeOK

LEMMA ReadsInv ==
    ASSUME PhoneInv, ReadAccepted \/ ReadEcho \/ ReadDeleted \/ ReadMerged
    PROVE  PhoneInv'
<1>0. AndroidTypeOK
  BY DEF PhoneInv
<1>1. CASE ReadAccepted
  <2>1. PICK n \in DOMAIN accepted : Read("mark", n) /\ step = "answered"
    BY <1>1 DEF ReadAccepted
  <2>2. n \in Note
    BY <1>0 DEF AndroidTypeOK, NoteMap
  <2> QED
    BY <2>1, <2>2, ReadInv
<1>2. CASE ReadEcho
  <2>1. PICK c \in refused : OwnEcho(c) /\ Read("absorb", c.note) /\ step = "answered"
    BY <1>2 DEF ReadEcho
  <2>2. PICK n \in Note : n = c.note
    BY <1>0, ConflictTypes
  <2>3. /\ Read("absorb", n) /\ step = "answered"
        /\ \E b \in refused : OwnEcho(b) /\ b.note = n
    BY <2>1, <2>2
  <2> QED
    BY <2>3, ReadInv
<1>3. CASE ReadDeleted
  <2>1. PICK n \in page.deletes : Read("delete", n) /\ step = "pulled"
    BY <1>3 DEF ReadDeleted
  <2>2. n \in Note
    BY <1>0 DEF AndroidTypeOK
  <2> QED
    BY <2>1, <2>2, ReadInv
<1>4. CASE ReadMerged
  <2>1. PICK n \in DOMAIN page.notes : Read("merge", n) /\ step = "pulled"
    BY <1>4 DEF ReadMerged
  <2>2. n \in Note
    BY <1>0, ConflictTypes
  <2> QED
    BY <2>1, <2>2, ReadInv
<1> QED
  BY <1>1, <1>2, <1>3, <1>4

(* Whatever the sync forgets, nothing of it is under way any more. *)
LEMMA ForgottenInv ==
    ASSUME PhoneInv, UNCHANGED <<serverVars, local, conflicts, historyVars>>,
           using' \in {using, None}, resolving' \in {resolving, None},
           cursor' \in 0..lastRev, step' \in {"idle", "pull"},
           DOMAIN sent' = {}, DOMAIN accepted' = {}, refused' = {},
           DOMAIN page' = DOMAIN NoPage, DOMAIN page'.notes = {}, page'.deletes = {},
           page'.revision \in 0..lastRev, reading' = None
    PROVE  PhoneInv'
<1>1. SyncTypes'
  BY DEF SyncTypes, NoteMap, Step, serverVars
<1>2. Phase'
  BY DEF Phase
<1>3. ASSUME NEW n \in Note
      PROVE  SentInv(n)' /\ AnswerInv(n)' /\ RefusedInv(n)' /\ PageInv(n)'
  BY DEF SentInv, Unsettled, AnswerInv, RefusedInv, PageInv
<1> QED
  BY <1>1, <1>2, <1>3, MoveOnInv

LEMMA PushDoneInv ==
    ASSUME PhoneInv, PushDone
    PROVE  PhoneInv'
<1>0. AndroidTypeOK /\ Phase
  BY DEF PhoneInv
<1>1. /\ step = "answered" /\ accepted = Nothing /\ refused = {} /\ reading = None
      /\ sent' = Nothing /\ step' = "pull"
      /\ UNCHANGED <<serverVars, local, conflicts, cursor, historyVars>>
      /\ UNCHANGED <<accepted, refused, page, reading, using, resolving>>
  BY DEF PushDone, Goto, answerVars, userVars
<1>2. DOMAIN page.notes = {} /\ page.deletes = {}
  BY <1>0, <1>1 DEF Phase
<1> QED
  BY <1>0, <1>1, <1>2, NothingFacts, ForgottenInv DEF AndroidTypeOK

LEMMA SaveCursorInv ==
    ASSUME PhoneInv, SaveCursor
    PROVE  PhoneInv'
<1>0. AndroidTypeOK /\ Phase
  BY DEF PhoneInv
<1>1. /\ step = "pulled" /\ reading = None
      /\ cursor' = page.revision /\ page' = NoPage /\ step' = "idle"
      /\ UNCHANGED <<serverVars, local, conflicts, historyVars>>
      /\ UNCHANGED <<sent, accepted, refused, reading, using, resolving>>
  BY DEF SaveCursor, Goto, answerVars, userVars, NextCursor
<1>2. DOMAIN sent = {} /\ DOMAIN accepted = {} /\ refused = {}
  BY <1>0, <1>1 DEF Phase
<1>3. lastRev \in Nat /\ page.revision \in 0..lastRev
  BY <1>0, LocalTypes DEF AndroidTypeOK, ServerTypeOK
<1> QED
  BY <1>1, <1>2, <1>3, NothingFacts, ForgottenInv

LEMMA ForgetInv ==
    ASSUME PhoneInv, SyncFails \/ ProcessDies
    PROVE  PhoneInv'
<1>0. AndroidTypeOK
  BY DEF PhoneInv
<1>1. /\ Forget
      /\ using' \in {using, None} /\ resolving' \in {resolving, None}
  BY DEF SyncFails, ProcessDies, userVars
<1>2. /\ sent' = Nothing /\ accepted' = Nothing /\ refused' = {} /\ page' = NoPage
      /\ reading' = None /\ step' = "idle"
      /\ UNCHANGED <<serverVars, local, conflicts, cursor, historyVars>>
  BY <1>1 DEF Forget, Goto
<1>3. lastRev \in Nat /\ cursor \in 0..lastRev
  BY <1>0 DEF AndroidTypeOK, ServerTypeOK
<1> QED
  BY <1>1, <1>2, <1>3, NothingFacts, ForgottenInv

LEMMA HandlePullInv ==
    ASSUME PhoneInv, HandlePull
    PROVE  PhoneInv'
<1>0. AndroidTypeOK /\ ServerTypeOK /\ Phase /\ ServerInv /\ lastRev \in Nat
  BY DEF PhoneInv, AndroidTypeOK, ServerTypeOK
<1>1. /\ step = "pull" /\ step' = "pulled"
      /\ page' = [notes |-> [n \in {m \in LoggedPast : HasRow(m)} |-> RemoteOf(rows[n])],
                  deletes |-> {n \in LoggedPast : ~HasRow(n)},
                  revision |-> lastRev]
      /\ UNCHANGED <<serverVars, local, conflicts, cursor, historyVars>>
      /\ UNCHANGED <<sent, accepted, refused, reading, using, resolving>>
  BY DEF HandlePull, Goto, answerVars, userVars
<1>2. /\ reading = None /\ DOMAIN accepted = {} /\ refused = {} /\ DOMAIN sent = {}
  BY <1>0, <1>1, NothingRead DEF Phase
<1>3. /\ DOMAIN page' = {"notes", "deletes", "revision"} /\ page'.revision = lastRev
      /\ DOMAIN page'.notes = {m \in LoggedPast : HasRow(m)}
      /\ \A n \in DOMAIN page'.notes : page'.notes[n] = RemoteOf(rows[n])
      /\ page'.deletes = {n \in LoggedPast : ~HasRow(n)}
  BY <1>1
<1>4. LoggedPast \subseteq Note /\ \A n \in LoggedPast : \E c \in changes : c.note = n
  BY DEF LoggedPast
<1>5. ASSUME NEW n \in Note, HasRow(n)
      PROVE  /\ RemoteOf(rows[n]) \in Remote
             /\ RemoteOf(rows[n]).content = Text(n)
             /\ RemoteOf(rows[n]).device = rows[n].device
             /\ RemoteOf(rows[n]).version = Version(n) /\ Version(n) \in Nat
             /\ Version(n) >= 1
  <2>1. rows[n] \in Row /\ rows[n].version = Version(n) /\ Version(n) >= 1 /\ Version(n) \in Nat
    BY <1>0, <1>5, RowFacts
  <2>2. RemoteOf(rows[n]) \in Remote
    BY <2>1 DEF RemoteOf, Row, Remote
  <2> QED
    BY <1>5, <2>1, <2>2 DEF RemoteOf, Text
<1>6. ASSUME NEW n \in LoggedPast, ~HasRow(n)
      PROVE  HasTombstone(n)
  <2>1. PICK c \in changes : c.note = n
    BY <1>4
  <2>2. PICK d \in changes : d.note = n /\ IsLatest(d, changes)
    BY <1>0, <2>1 DEF ServerInv, NewestKept
  <2> QED
    BY <1>0, <1>6, <2>2 DEF ServerInv, LogMatchesStore
<1>7. SyncTypes'
  <2>1. NoteMap(page.notes, Remote)' /\ page'.deletes \subseteq Note
    BY <1>3, <1>4, <1>5 DEF NoteMap
  <2>2. page'.revision \in 0..lastRev' /\ DOMAIN page' = DOMAIN NoPage
    BY <1>0, <1>1, <1>3, NothingFacts DEF serverVars
  <2> QED
    BY <1>0, <1>1, <2>1, <2>2 DEF AndroidTypeOK, SyncTypes, Step
<1>8. Phase'
  BY <1>1, <1>2 DEF Phase
<1>9. ASSUME NEW n \in Note
      PROVE  SentInv(n)' /\ AnswerInv(n)' /\ RefusedInv(n)' /\ PageInv(n)'
  <2>1. SentInv(n)' /\ AnswerInv(n)' /\ RefusedInv(n)'
    BY <1>1, <1>2 DEF SentInv, Unsettled, AnswerInv, RefusedInv
  <2>2. /\ Version(n)' = Version(n) /\ (HasRow(n)' <=> HasRow(n)) /\ Text(n)' = Text(n)
        /\ (HasTombstone(n)' <=> HasTombstone(n)) /\ rows'[n] = rows[n]
    BY <1>1, SameStore
  <2>3. ASSUME n \in DOMAIN page'.notes
        PROVE  /\ Known(n, page.notes[n])' /\ InServer(n, page.notes[n].content)'
               /\ Version(n)' <= page'.notes[n].version
    <3>1. HasRow(n) /\ page'.notes[n] = RemoteOf(rows[n])
      BY <1>3, <2>3
    <3>2. /\ page'.notes[n].content = Text(n) /\ page'.notes[n].version = Version(n)
          /\ page'.notes[n].device = rows[n].device
          /\ Version(n) \in Nat /\ Version(n) >= 1
      BY <1>5, <3>1
    <3> QED
      BY <2>2, <3>2 DEF Known, Seen, InServer
  <2>4. n \in page'.deletes => ~HasRow(n)' /\ HasTombstone(n)'
    BY <1>3, <1>6, <2>2
  <2> QED
    BY <2>1, <2>3, <2>4 DEF PageInv
<1> QED
  BY <1>0, <1>1, <1>7, <1>8, <1>9, MoveOnInv DEF AndroidTypeOK


(***************************************************************************)
(* One note of an answer is handled.                                       *)
(***************************************************************************)
Rewrites(n, r) ==
    /\ local' = [local EXCEPT ![n] = r]
    /\ r # None /\ r.status = "synced" => r.version = r.base

Handled(n) ==
    TextStill(n) /\ Leaves(n) /\ LocalInv(n)' /\ ConflictInv(n)' /\ ShownInv(n)'

LEMMA LeftAlone ==
    ASSUME PhoneInv, NEW n \in Note,
           UNCHANGED <<serverVars, local, conflicts, userVars, historyVars>>
    PROVE  /\ local[n] \in LocalNote \union {None} /\ Rewrites(n, local[n])
           /\ Handled(n)
<1>1. AndroidTypeOK /\ ServerTypeOK /\ NoteInv(n) /\ Onward
  BY SameIsOnward DEF PhoneInv, AndroidTypeOK, historyVars
<1>2. local[n] \in LocalNote \union {None} /\ Rewrites(n, local[n])
  BY <1>1 DEF AndroidTypeOK, Rewrites, Has
<1>3. TextStill(n) /\ Leaves(n)
  BY TextLeaves DEF TextStill, Unsynced, Has
<1>4. LocalInv(n)'
  BY <1>1, LocalStays DEF NoteInv
<1>5. ConflictInv(n)'
  BY <1>1, ConflictStays DEF NoteInv, Open
<1>6. ShownInv(n)'
  BY <1>1, ShownStays DEF NoteInv, Answered, userVars
<1> QED
  BY <1>2, <1>3, <1>4, <1>5, <1>6 DEF Handled

(* A record that is not in conflict takes the place of the one that was read. *)
LEMMA Replaced ==
    ASSUME PhoneInv, NEW n \in Note, NEW r \in LocalNote, Rewrites(n, r),
           UNCHANGED <<serverVars, conflicts, userVars, historyVars>>,
           r.status # "conflict", InView(n, r.base, r.content),
           r.status = "pending" => Unsynced(n) /\ r.content = local[n].content,
           r.status = "synced" /\ Unsynced(n) => InServer(n, local[n].content)
    PROVE  Handled(n)
<1>1. AndroidTypeOK /\ ServerTypeOK /\ NoteInv(n) /\ Onward
  BY SameIsOnward DEF PhoneInv, AndroidTypeOK, historyVars
<1>2. local'[n] = r /\ r # None
  BY <1>1 DEF Rewrites, AndroidTypeOK
<1>3. Has(n)' /\ (Unsynced(n)' <=> r.status = "pending")
  <2>1. r.status \in {"pending", "synced", "conflict"}
    BY DEF LocalNote, Status
  <2> QED
    BY <1>2, <2>1 DEF Has, Unsynced
<1>4. TextStill(n)
  BY <1>2, <1>3 DEF TextStill
<1>5. /\ Version(n)' = Version(n) /\ (HasRow(n)' <=> HasRow(n)) /\ Text(n)' = Text(n)
      /\ (Ours(n)' <=> Ours(n)) /\ dropped' = dropped
  BY SameStore DEF historyVars
<1>6. LocalInv(n)'
  BY <1>2, <1>3, <1>5 DEF LocalInv, InView, Seen
<1>7. ConflictInv(n)'
  BY <1>1, ConflictStays DEF NoteInv, Open
<1>8. ShownInv(n)'
  BY <1>2 DEF ShownInv
<1>9. Leaves(n)
  <2>1. r.status = "pending" \/ r.status = "synced"
    BY DEF LocalNote, Status
  <2>2. Unsynced(n) => local[n].content \subseteq dropped' \union Text(n)' \union
                          IF Unsynced(n)' THEN local'[n].content ELSE {}
    BY <1>2, <1>3, <1>5, <2>1 DEF InServer
  <2> QED
    BY <2>2, TextLeaves
<1> QED
  BY <1>4, <1>6, <1>7, <1>8, <1>9 DEF Handled

(* A conflict is stored with the local side as it is. *)
LEMMA ConflictSaved ==
    ASSUME PhoneInv, NEW n \in Note, NEW c \in Conflict, c.note = n,
           UNCHANGED <<serverVars, userVars, historyVars>>, SaveNoteConflict(c),
           Has(n) => Unsynced(n), Known(n, c.theirs),
           c.reason = "remote_changed" => c.theirs.device # Phone,
           c.theirs.content \subseteq Text(n) \union dropped \union
              IF Has(n) THEN local[n].content ELSE c.mine.content
    PROVE  /\ \E r \in LocalNote \union {None} : Rewrites(n, r)
           /\ \E d \in Conflict : d.note = n /\ conflicts' = Append(conflicts, d)
           /\ Handled(n)
<1>1. /\ AndroidTypeOK /\ ServerTypeOK /\ NoteInv(n) /\ Onward /\ dropped' = dropped
      /\ conflicts \in Seq(Conflict)
  BY SameIsOnward DEF PhoneInv, AndroidTypeOK, historyVars
<1>2. /\ Version(n)' = Version(n) /\ (HasRow(n)' <=> HasRow(n)) /\ Text(n)' = Text(n)
      /\ (Ours(n)' <=> Ours(n))
  BY SameStore
<1>3. /\ Answered' <=> Answered
      /\ Answered => Len(conflicts) >= 1
  <2>1. Answered => conflicts # <<>>
    BY <1>1, UserTypes DEF Answered
  <2> QED
    BY <1>1, <2>1 DEF Answered, userVars
<1>4. CASE Has(n)
  <2>1. PICK x \in Content, l \in Life, v \in Nat, b \in Nat, s \in Status :
           local[n] = [content |-> x, life |-> l, version |-> v, base |-> b, status |-> s]
    BY <1>1, <1>4, LocalTypes DEF LocalNote
  <2> DEFINE r == [content |-> x, life |-> l, version |-> v, base |-> b, status |-> "conflict"]
             side == [content |-> x, life |-> l]
  <2>2. /\ local' = [local EXCEPT ![n].status = "conflict"]
        /\ conflicts' = Append(conflicts, [c EXCEPT !.mine = Side(local[n])])
    BY <1>4 DEF SaveNoteConflict
  <2>3. local' = [local EXCEPT ![n] = r]
    <3>1. [local[n] EXCEPT !.status = "conflict"] = r
      BY <2>1
    <3> QED
      BY <2>2, <3>1
  <2>4. r \in LocalNote
    BY DEF LocalNote, Status
  <2>5. /\ r.content = x /\ r.life = l /\ r.base = b /\ r.status = "conflict"
        /\ side = Side(r)
    BY DEF Side
  <2>6. side \in Record /\ side.content = x
    BY DEF Record
  <2>7. Side(local[n]) = side
    BY <2>1 DEF Side
  <2> HIDE DEF r, side
  <2>8. PICK d : /\ d \in Conflict /\ d.note = n /\ d.mine = side
                 /\ d.theirs = c.theirs /\ d.reason = c.reason
                 /\ conflicts' = Append(conflicts, d)
    <3>1. PICK m \in Note, e \in {"remote_changed", "deleted_remotely"},
                w \in Record, t \in Remote :
             c = [note |-> m, reason |-> e, mine |-> w, theirs |-> t]
      BY DEF Conflict
    <3>2. [c EXCEPT !.mine = side] = [note |-> m, reason |-> e, mine |-> side, theirs |-> t]
      BY <3>1
    <3>3. [note |-> m, reason |-> e, mine |-> side, theirs |-> t] \in Conflict
      BY <2>6 DEF Conflict
    <3> QED
      BY <2>2, <2>7, <3>1, <3>2, <3>3
  <2>9. local'[n] = r /\ r # None /\ Has(n)' /\ Unsynced(n)' /\ Unsynced(n)
    BY <1>1, <1>4, <2>3, <2>4, <2>5 DEF AndroidTypeOK, Has, Unsynced
  <2>10. Rewrites(n, r)
    BY <2>3, <2>5 DEF Rewrites
  <2>11. local[n].content = x /\ local[n].base = b
    BY <2>1
  <2>12. TextStill(n) /\ Leaves(n)
    <3>1. local'[n].content = local[n].content
      BY <2>5, <2>9, <2>11
    <3> QED
      BY <2>9, <3>1, TextLeaves DEF TextStill
  <2>13. LocalInv(n)'
    BY <1>1, <1>2, <1>4, <2>5, <2>9, <2>11 DEF NoteInv, LocalInv, InView, Seen
  <2>14. /\ Open' = Open \union {d}
         /\ Len(conflicts) + 1 \in DOMAIN conflicts'
         /\ conflicts'[Len(conflicts) + 1] = d
    BY <1>1, <2>8 DEF Open
  <2>15. ConflictInv(n)'
    <3>1. Known(n, c.theirs)'
      <4>1. c.theirs \in Remote
        BY DEF Conflict
      <4> QED
        BY <1>1, <4>1, StaysKnown
    <3>2. ASSUME NEW e \in Open, e.note = n
          PROVE  /\ Known(n, e.theirs)'
                 /\ e.reason = "remote_changed" => e.theirs.device # Phone
                 /\ e.theirs.content \subseteq e.mine.content \union Text(n)' \union dropped'
      <4>1. e.theirs \in Remote
        BY <1>1, <3>2, ConflictTypes
      <4>2. Known(n, e.theirs)
        BY <1>1, <3>2 DEF NoteInv, ConflictInv
      <4>3. Known(n, e.theirs)'
        BY <1>1, <4>1, <4>2, StaysKnown
      <4> QED
        BY <1>1, <1>2, <3>2, <4>3 DEF NoteInv, ConflictInv
    <3>3. c.theirs.content \subseteq side.content \union Text(n)' \union dropped'
      BY <1>1, <1>2, <1>4, <2>6, <2>11
    <3> QED
      BY <2>8, <2>14, <3>1, <3>2, <3>3 DEF ConflictInv
  <2>16. ShownInv(n)'
    <3>1. PICK k : k = Len(conflicts) + 1
      OBVIOUS
    <3>2. /\ k \in DOMAIN conflicts' /\ conflicts'[k] = d /\ (Answered' => k > 1)
      BY <1>1, <1>3, <2>14, <3>1
    <3>3. conflicts'[k].note = n /\ conflicts'[k].mine = Side(local'[n])
      BY <2>5, <2>8, <2>9, <3>2
    <3> QED
      BY <3>2, <3>3 DEF ShownInv
  <2> QED
    BY <2>4, <2>8, <2>10, <2>12, <2>13, <2>15, <2>16 DEF Handled
<1>5. CASE ~Has(n)
  <2>1. local' = local /\ conflicts' = Append(conflicts, c) /\ local[n] = None
    BY <1>5 DEF SaveNoteConflict, Has
  <2>2. local' = [local EXCEPT ![n] = None]
    BY <1>1, <2>1 DEF AndroidTypeOK
  <2>3. TextStill(n) /\ Leaves(n) /\ ShownInv(n)'
    <3>1. ~Has(n)' /\ ~Has(n)
      BY <2>1 DEF Has
    <3> QED
      BY <3>1 DEF TextStill, Leaves, ShownInv, Unsynced
  <2>4. LocalInv(n)'
    BY <1>1, <2>1, LocalStays DEF NoteInv
  <2>5. Open' = Open \union {c}
    BY <1>1, <2>1 DEF Open
  <2>6. ConflictInv(n)'
    <3>1. c.theirs \in Remote
      BY DEF Conflict
    <3>2. Known(n, c.theirs)'
      BY <1>1, <3>1, StaysKnown
    <3>3. ASSUME NEW e \in Open, e.note = n
          PROVE  /\ Known(n, e.theirs)'
                 /\ e.reason = "remote_changed" => e.theirs.device # Phone
                 /\ e.theirs.content \subseteq e.mine.content \union Text(n)' \union dropped'
      <4>1. e.theirs \in Remote
        BY <1>1, <3>3, ConflictTypes
      <4>2. Known(n, e.theirs)
        BY <1>1, <3>3 DEF NoteInv, ConflictInv
      <4>3. Known(n, e.theirs)'
        BY <1>1, <4>1, <4>2, StaysKnown
      <4> QED
        BY <1>1, <1>2, <3>3, <4>3 DEF NoteInv, ConflictInv
    <3>4. c.theirs.content \subseteq c.mine.content \union Text(n)' \union dropped'
      BY <1>1, <1>2, <1>5
    <3> QED
      BY <2>5, <3>2, <3>3, <3>4 DEF ConflictInv
  <2>7. Rewrites(n, None)
    BY <2>2 DEF Rewrites
  <2> QED
    BY <2>1, <2>3, <2>4, <2>6, <2>7 DEF Handled
<1> QED
  BY <1>4, <1>5


LEMMA WithoutFacts ==
    \A f, n : /\ DOMAIN Without(f, n) = DOMAIN f \ {n}
              /\ \A m \in DOMAIN f \ {n} : Without(f, n)[m] = f[m]
BY DEF Without

LEMMA MarkedFacts ==
    ASSUME NEW n, NEW r \in LocalNote, NEW a \in Nat, a = accepted[n]
    PROVE  /\ Marked(n, r) \in LocalNote /\ Marked(n, r) # None
           /\ Marked(n, r).content = r.content /\ Marked(n, r).base = a
           /\ Marked(n, r).status \in {"synced", "pending"}
           /\ Marked(n, r).status = "synced" =>
                 Marked(n, r).version = a /\ r.content = sent[n].content
           /\ Marked(n, r).life = r.life
           /\ Marked(n, r).status = "synced" => SameSide(r, sent[n])
<1>1. CASE StillMatches(n, r)
  <2>1. Marked(n, r) = [r EXCEPT !.version = a, !.status = "synced", !.base = a]
    BY <1>1 DEF Marked
  <2>2. r.content = sent[n].content /\ SameSide(r, sent[n])
    BY <1>1 DEF StillMatches, Side, SameSide
  <2>3. "synced" \in Status
    BY DEF Status
  <2>4. /\ Marked(n, r).content = r.content /\ Marked(n, r).base = a
        /\ Marked(n, r).status = "synced" /\ Marked(n, r).version = a
        /\ Marked(n, r).life = r.life
    BY <2>1 DEF LocalNote
  <2>5. Marked(n, r) \in LocalNote
    BY <2>1, <2>3 DEF LocalNote
  <2>6. Marked(n, r) # None
    BY <2>5
  <2> QED
    BY <2>2, <2>4, <2>5, <2>6
<1>2. CASE ~StillMatches(n, r)
  <2>1. Marked(n, r) = [r EXCEPT !.version = r.version, !.status = "pending", !.base = a]
    BY <1>2 DEF Marked
  <2>2. "pending" \in Status
    BY DEF Status
  <2>4. /\ Marked(n, r).content = r.content /\ Marked(n, r).base = a
        /\ Marked(n, r).status = "pending" /\ Marked(n, r).life = r.life
    BY <2>1 DEF LocalNote
  <2>5. Marked(n, r) \in LocalNote
    BY <2>1, <2>2 DEF LocalNote
  <2>6. Marked(n, r) # None
    BY <2>5
  <2> QED
    BY <2>4, <2>5, <2>6
<1> QED
  BY <1>1, <1>2

Absorbed(r, a) == [r EXCEPT !.status = "pending", !.base = Later(@, a)]

LEMMA AbsorbedFacts ==
    ASSUME NEW r \in LocalNote, NEW a \in Nat
    PROVE  /\ Absorbed(r, a) \in LocalNote /\ Absorbed(r, a) # None
           /\ Absorbed(r, a).status = "pending" /\ Absorbed(r, a).content = r.content
           /\ Absorbed(r, a).base = r.base \/ Absorbed(r, a).base = a
           /\ Absorbed(r, a).base >= a
<1>1. /\ Later(r.base, a) \in Nat /\ Later(r.base, a) >= a
      /\ Later(r.base, a) = r.base \/ Later(r.base, a) = a
  BY DEF Later, LocalNote
<1>2. "pending" \in Status
  BY DEF Status
<1>3. Absorbed(r, a) = [r EXCEPT !.status = "pending", !.base = Later(r.base, a)]
  BY DEF Absorbed
<1>4. Absorbed(r, a) \in LocalNote
  BY <1>1, <1>2, <1>3 DEF LocalNote
<1>5. Absorbed(r, a) # None
  BY <1>4
<1>6. /\ Absorbed(r, a).status = "pending" /\ Absorbed(r, a).content = r.content
      /\ Absorbed(r, a).base = Later(r.base, a)
  BY <1>3 DEF LocalNote
<1> QED
  BY <1>1, <1>4, <1>5, <1>6

LEMMA MarkAcceptedInv ==
    ASSUME PhoneInv, MarkAccepted
    PROVE  PhoneInv'
<1>0. AndroidTypeOK /\ ServerTypeOK /\ Phase
  BY DEF PhoneInv, AndroidTypeOK
<1>1. PICK n \in Note : n = reading.note
  BY <1>0, UserTypes DEF MarkAccepted, At
<1>2. /\ reading # None /\ reading.where = "mark"
      /\ reading.seen = local[n] /\ step = "answered" /\ n \in DOMAIN accepted
  BY <1>0, <1>1 DEF MarkAccepted, At, Phase
<1>3. /\ IF local[n] = None THEN UNCHANGED local ELSE Put(n, Marked(n, local[n]))
      /\ accepted' = Without(accepted, n) /\ reading' = None
      /\ UNCHANGED <<serverVars, conflicts, cursor, userVars, step, sent, refused,
                     page, historyVars>>
  BY <1>1, <1>2 DEF MarkAccepted
<1>4. NoteInv(n)
  BY DEF PhoneInv
<1>5. SentInv(n)'
  <2>1. ~InRefused(n)
    BY <1>2, <1>4 DEF NoteInv, RefusedInv, InRefused
  <2>2. n \notin DOMAIN accepted'
    BY <1>3 DEF Without
  <2> QED
    BY <1>2, <1>3, <2>1, <2>2 DEF SentInv, Unsettled, InRefused
<1>6. \E r \in LocalNote \union {None} : Rewrites(n, r) /\ Handled(n)
  <2>1. CASE local[n] = None
    <3>1. local' = local
      BY <1>3, <2>1
    <3> QED
      BY <1>3, <3>1, LeftAlone
  <2>2. CASE local[n] # None
    <3>1. Has(n)
      BY <2>2 DEF Has
    <3>2. PICK x \in Content : local[n] \in LocalNote /\ x = local[n].content
      BY <1>0, <3>1, LocalTypes
    <3>3. PICK a \in Nat : a = accepted[n]
      BY <1>0, <1>2, LocalTypes
    <3>4. PICK r \in LocalNote : r = Marked(n, local[n])
      BY <3>2, <3>3, MarkedFacts
    <3>5. /\ r.content = x /\ r.base = a
          /\ \/ r.status = "pending"
             \/ /\ r.status = "synced" /\ r.version = r.base
                /\ local[n].content = sent[n].content
      BY <3>2, <3>3, <3>4, MarkedFacts
    <3>6. local' = [local EXCEPT ![n] = r]
      BY <1>3, <2>2, <3>4 DEF Put
    <3>7. Rewrites(n, r) /\ r.status # "conflict"
      BY <3>5, <3>6 DEF Rewrites
    <3>8. local[n].content = x
      BY <3>2
    <3>9. /\ Unsynced(n) /\ sent[n].content \subseteq x \union dropped
          /\ Seen(n, a, sent[n].content) /\ InServer(n, sent[n].content)
          /\ Ours(n) => Text(n) \subseteq x \union dropped
      <4>1. Unsettled(n)
        BY <1>2, <1>4 DEF NoteInv, AnswerInv, Unsettled
      <4> QED
        BY <1>2, <1>4, <3>1, <3>3, <3>8, <4>1
           DEF NoteInv, SentInv, AnswerInv, LocalInv, InView, Held
    <3>10. InView(n, r.base, r.content)
      BY <3>5, <3>9 DEF InView, Seen
    <3>11. r.status = "synced" => InServer(n, local[n].content)
      BY <3>5, <3>9
    <3>12. Handled(n)
      BY <1>3, <3>5, <3>7, <3>8, <3>9, <3>10, <3>11, Replaced
    <3> QED
      BY <3>5, <3>7, <3>12
  <2> QED
    BY <2>1, <2>2
<1>7. PICK r \in LocalNote \union {None} : Rewrites(n, r) /\ Handled(n)
  BY <1>6
<1> QED
  BY <1>2, <1>3, <1>5, <1>7, OneNoteInv DEF Rewrites, Handled

(* What an absorbed conflict does to its note. *)
LEMMA AbsorbsOne ==
    ASSUME PhoneInv, Absorb
    PROVE  \E n \in Note : \E c \in refused :
              /\ reading # None /\ reading.where = "absorb" /\ reading.note = n
              /\ reading.seen = local[n] /\ step = "answered"
              /\ \E b \in refused : OwnEcho(b) /\ b.note = n
              /\ c.note = n /\ refused' = refused \ {c}
              /\ local[n] = None => UNCHANGED local
              /\ local[n] # None => Put(n, Absorbed(local[n], c.theirs.version))
<1>0. AndroidTypeOK /\ ServerTypeOK /\ Phase
  BY DEF PhoneInv, AndroidTypeOK
<1>1. PICK n \in Note : n = reading.note
  BY <1>0, UserTypes DEF Absorb, At
<1>2. /\ reading # None /\ reading.where = "absorb"
      /\ reading.seen = local[n] /\ step = "answered"
      /\ \E b \in refused : OwnEcho(b) /\ b.note = n
  BY <1>0, <1>1 DEF Absorb, At, Phase
<1>3. PICK c \in refused :
         /\ c.note = n
         /\ IF local[n] = None THEN UNCHANGED local
            ELSE Put(n, [local[n] EXCEPT !.status = "pending",
                                         !.base = Later(@, c.theirs.version)])
         /\ refused' = refused \ {c}
  BY <1>1, <1>2 DEF Absorb
<1>4. local[n] # None => Put(n, Absorbed(local[n], c.theirs.version))
  BY <1>3 DEF Absorbed
<1> QED
  BY <1>1, <1>2, <1>3, <1>4

LEMMA AbsorbInv ==
    ASSUME PhoneInv, Absorb
    PROVE  PhoneInv'
<1>0. AndroidTypeOK /\ ServerTypeOK /\ Phase
  BY DEF PhoneInv, AndroidTypeOK
<1>1. PICK n \in Note : \E c \in refused :
         /\ reading # None /\ reading.where = "absorb" /\ reading.note = n
         /\ reading.seen = local[n] /\ step = "answered"
         /\ \E b \in refused : OwnEcho(b) /\ b.note = n
         /\ c.note = n /\ refused' = refused \ {c}
         /\ local[n] = None => UNCHANGED local
         /\ local[n] # None => Put(n, Absorbed(local[n], c.theirs.version))
  BY AbsorbsOne
<1>2. /\ reading # None /\ reading.where = "absorb"
      /\ reading.seen = local[n] /\ step = "answered"
      /\ \E b \in refused : OwnEcho(b) /\ b.note = n
  BY <1>1
<1>3. PICK c \in refused :
         /\ c.note = n /\ refused' = refused \ {c}
         /\ local[n] = None => UNCHANGED local
         /\ local[n] # None => Put(n, Absorbed(local[n], c.theirs.version))
  BY <1>1
<1>4. /\ reading' = None
      /\ UNCHANGED <<serverVars, conflicts, cursor, userVars, step, sent, accepted,
                     page, historyVars>>
  BY DEF Absorb
<1>5. NoteInv(n)
  BY DEF PhoneInv
<1>6. /\ OwnEcho(c) /\ n \in DOMAIN sent /\ n \notin DOMAIN accepted
      /\ Known(n, c.theirs) /\ \A b \in refused : b.note = n => b = c
  BY <1>2, <1>3, <1>5 DEF NoteInv, RefusedInv
<1>7. SentInv(n)'
  BY <1>2, <1>3, <1>4, <1>6 DEF SentInv, Unsettled, InRefused
<1>8. \E r \in LocalNote \union {None} : Rewrites(n, r) /\ Handled(n)
  <2>1. CASE local[n] = None
    <3>1. local' = local
      BY <1>3, <2>1
    <3> QED
      BY <1>4, <3>1, LeftAlone
  <2>2. CASE local[n] # None
    <3>1. Has(n)
      BY <2>2 DEF Has
    <3>2. PICK x \in Content, b \in Nat :
             local[n] \in LocalNote /\ x = local[n].content /\ b = local[n].base
      BY <1>0, <3>1, LocalTypes
    <3>3. PICK a \in Nat : a = c.theirs.version
      BY <1>0, ConflictTypes
    <3>4. PICK r \in LocalNote : r = Absorbed(local[n], a)
      BY <3>2, AbsorbedFacts
    <3>5. local' = [local EXCEPT ![n] = r]
      BY <1>3, <2>2, <3>3, <3>4 DEF Put
    <3>6. r \in LocalNote /\ r.content = x /\ r.status = "pending"
      BY <3>2, <3>4, AbsorbedFacts
    <3>7. r.base = b \/ r.base = a
      BY <3>2, <3>4, AbsorbedFacts
    <3>8. Rewrites(n, r)
      BY <3>5, <3>6 DEF Rewrites
    <3>9. local[n].content = x /\ local[n].base = b
      BY <3>2
    <3>10. Unsynced(n) /\ InView(n, b, x)
      <4>1. Unsettled(n)
        BY <1>2, <1>6 DEF Unsettled, InRefused
      <4> QED
        BY <1>5, <3>1, <3>9, <4>1 DEF NoteInv, SentInv, LocalInv
    <3>11. InView(n, a, x)
      <4>1. a <= Version(n)
        BY <1>6, <3>3 DEF Known, Seen
      <4>2. HasRow(n) /\ a = Version(n) => Ours(n)
        BY <1>6, <3>3 DEF Known, OwnEcho, Ours
      <4> QED
        BY <3>10, <4>1, <4>2 DEF InView, Seen
    <3>12. Handled(n)
      BY <1>4, <3>6, <3>7, <3>8, <3>9, <3>10, <3>11, Replaced
    <3> QED
      BY <3>6, <3>8, <3>12
  <2> QED
    BY <2>1, <2>2
<1>9. PICK r \in LocalNote \union {None} : Rewrites(n, r) /\ Handled(n)
  BY <1>8
<1>10. \A m \in Note \ {n} : \A b \in refused : b.note = m => b \in refused'
  BY <1>3
<1> QED
  BY <1>2, <1>3, <1>4, <1>7, <1>9, <1>10, OneNoteInv DEF Rewrites, Handled

LEMMA SaveRefusedInv ==
    ASSUME PhoneInv, SaveRefused
    PROVE  PhoneInv'
<1>0. AndroidTypeOK /\ ServerTypeOK /\ Phase
  BY DEF PhoneInv, AndroidTypeOK
<1>1. PICK c \in refused : /\ ~OwnEcho(c) /\ SaveNoteConflict(c)
                           /\ refused' = refused \ {c}
  BY DEF SaveRefused
<1>2. /\ step = "answered" /\ reading = None
      /\ UNCHANGED <<serverVars, cursor, userVars, step, sent, accepted, page,
                     reading, historyVars>>
  BY DEF SaveRefused
<1>3. PICK n \in Note : n = c.note
  BY <1>0, ConflictTypes
<1>4. NoteInv(n) /\ c \in Conflict /\ c.note = n
  BY <1>0, <1>3, ConflictTypes DEF PhoneInv
<1>5. /\ n \in DOMAIN sent /\ n \notin DOMAIN accepted
      /\ Known(n, c.theirs) /\ \A b \in refused : b.note = n => b = c
      /\ c.theirs.content \subseteq sent[n].content \union Text(n) \union dropped
      /\ c.mine.content = sent[n].content
  BY <1>3, <1>4 DEF NoteInv, RefusedInv, Side
<1>6. /\ Has(n) => Unsynced(n)
      /\ sent[n].content \subseteq Held(n) \union dropped
  <2>1. Unsettled(n)
    BY <1>2, <1>3, <1>5 DEF Unsettled, InRefused
  <2> QED
    BY <1>4, <2>1 DEF NoteInv, SentInv
<1>7. SentInv(n)'
  BY <1>1, <1>2, <1>5 DEF SentInv, Unsettled, InRefused
<1>8. c.reason = "remote_changed" => c.theirs.device # Phone
  BY <1>1 DEF OwnEcho
<1>9. c.theirs.content \subseteq Text(n) \union dropped \union
         IF Has(n) THEN local[n].content ELSE c.mine.content
  BY <1>5, <1>6 DEF Held
<1>10. /\ \E r \in LocalNote \union {None} : Rewrites(n, r)
       /\ \E d \in Conflict : d.note = n /\ conflicts' = Append(conflicts, d)
       /\ Handled(n)
  BY <1>1, <1>2, <1>4, <1>5, <1>6, <1>8, <1>9, ConflictSaved
<1>11. PICK r \in LocalNote \union {None} : Rewrites(n, r)
  BY <1>10
<1>12. \A m \in Note \ {n} : \A b \in refused : b.note = m => b \in refused'
  BY <1>1, <1>3
<1> QED
  BY <1>1, <1>2, <1>7, <1>10, <1>11, <1>12, OneNoteInv DEF Rewrites, Handled

LEMMA RemoteDeleteInv ==
    ASSUME PhoneInv, ApplyRemoteDelete
    PROVE  PhoneInv'
<1>0. AndroidTypeOK /\ ServerTypeOK /\ Phase
  BY DEF PhoneInv, AndroidTypeOK
<1>1. PICK n \in Note : n = reading.note
  BY <1>0, UserTypes DEF ApplyRemoteDelete, At
<1>2. /\ reading # None /\ reading.where = "delete"
      /\ reading.seen = local[n] /\ step = "pulled" /\ n \in page.deletes
      /\ DOMAIN sent = {}
  BY <1>0, <1>1 DEF ApplyRemoteDelete, At, Phase
<1>3. /\ IF local[n] # None /\ local[n].status = "synced"
         THEN Put(n, None) ELSE UNCHANGED local
      /\ page' = [page EXCEPT !.deletes = @ \ {n}] /\ reading' = None
      /\ UNCHANGED <<serverVars, conflicts, cursor, userVars, step, sent, accepted,
                     refused, historyVars>>
  BY <1>1, <1>2 DEF ApplyRemoteDelete, answerVars
<1>4. NoteInv(n)
  BY DEF PhoneInv
<1>5. SentInv(n)'
  BY <1>2, <1>3 DEF SentInv, Unsettled
<1>6. \E r \in LocalNote \union {None} : Rewrites(n, r) /\ Handled(n)
  <2>1. CASE local[n] # None /\ local[n].status = "synced"
    <3>1. local' = [local EXCEPT ![n] = None]
      BY <1>3, <2>1 DEF Put
    <3>2. Rewrites(n, None) /\ ~Has(n)' /\ ~Unsynced(n)
      BY <1>0, <2>1, <3>1 DEF Rewrites, AndroidTypeOK, Has, Unsynced
    <3>3. ~Ours(n)'
      <4>1. ~HasRow(n)
        BY <1>2, <1>4 DEF NoteInv, PageInv
      <4> QED
        BY <1>3, <4>1, SameStore DEF Ours
    <3>4. LocalInv(n)' /\ TextStill(n) /\ Leaves(n) /\ ShownInv(n)'
      BY <3>2, <3>3 DEF LocalInv, TextStill, Leaves, ShownInv, Unsynced
    <3>5. ConflictInv(n)'
      <4>1. Onward
        BY <1>0, <1>3, SameIsOnward DEF historyVars
      <4> QED
        BY <1>0, <1>3, <1>4, <4>1, ConflictStays DEF NoteInv, Open
    <3> QED
      BY <3>2, <3>4, <3>5 DEF Handled
  <2>2. CASE ~(local[n] # None /\ local[n].status = "synced")
    <3>1. local' = local
      BY <1>3, <2>2
    <3> QED
      BY <1>3, <3>1, LeftAlone
  <2> QED
    BY <2>1, <2>2
<1>7. PICK r \in LocalNote \union {None} : Rewrites(n, r) /\ Handled(n)
  BY <1>6
<1>8. /\ DOMAIN page' = DOMAIN page /\ page'.revision = page.revision
      /\ page'.notes = page.notes /\ page'.deletes \subseteq page.deletes
  <2>1. DOMAIN page = {"notes", "deletes", "revision"}
    BY <1>0, NothingFacts DEF AndroidTypeOK
  <2> QED
    BY <1>3, <2>1
<1> QED
  BY <1>2, <1>3, <1>5, <1>7, <1>8, OneNoteInv DEF Rewrites, Handled

LEMMA MergeInv ==
    ASSUME PhoneInv, MergeRemoteNote
    PROVE  PhoneInv'
<1>0. AndroidTypeOK /\ ServerTypeOK /\ Phase
  BY DEF PhoneInv, AndroidTypeOK
<1>1. PICK n \in Note : n = reading.note
  BY <1>0, UserTypes DEF MergeRemoteNote, At
<1>2. /\ reading # None /\ reading.where = "merge"
      /\ reading.seen = local[n] /\ step = "pulled" /\ n \in DOMAIN page.notes
      /\ DOMAIN sent = {}
  BY <1>0, <1>1 DEF MergeRemoteNote, At, Phase
<1>3. PICK t \in Remote : t = page.notes[n]
  BY <1>0, <1>2, ConflictTypes
<1>4. /\ \/ MergeClean(n, local[n], t) \/ MergeOwn(n, local[n], t)
         \/ MergeDiverged(n, local[n], t) \/ MergeLater(n, local[n], t)
      /\ page' = [page EXCEPT !.notes = Without(@, n)] /\ reading' = None
      /\ UNCHANGED <<serverVars, cursor, userVars, step, sent, accepted, refused,
                     historyVars>>
  BY <1>1, <1>2, <1>3 DEF MergeRemoteNote, answerVars
<1>5. /\ NoteInv(n) /\ Known(n, t) /\ InServer(n, t.content)
      /\ Ours(n) => Version(n) <= t.version
  BY <1>2, <1>3 DEF PhoneInv, NoteInv, PageInv
<1>6. SentInv(n)'
  BY <1>2, <1>4 DEF SentInv, Unsettled
<1>7. Version(n) \in Nat /\ t.version \in Nat
  BY <1>0, RowFacts DEF Remote
<1>8. /\ \E r \in LocalNote \union {None} : Rewrites(n, r)
      /\ \/ conflicts' = conflicts
         \/ \E d \in Conflict : d.note = n /\ conflicts' = Append(conflicts, d)
      /\ Handled(n)
  <2>1. CASE MergeClean(n, local[n], t)
    <3>1. /\ local[n] # None => local[n].status = "synced"
          /\ local' = [local EXCEPT ![n] = Synced(t)] /\ conflicts' = conflicts
      BY <2>1 DEF MergeClean, Put
    <3>2. PICK r \in LocalNote : /\ r = Synced(t) /\ r.content = t.content
                                 /\ r.base = t.version /\ r.version = t.version
                                 /\ r.status = "synced"
      BY SyncedFacts
    <3>3. Rewrites(n, r) /\ ~Unsynced(n)
      BY <3>1, <3>2 DEF Rewrites, Unsynced, Has
    <3>4. InView(n, r.base, r.content)
      BY <1>5, <1>7, <3>2 DEF InView, Known, Seen, Ours
    <3>5. Handled(n)
      BY <1>4, <3>1, <3>2, <3>3, <3>4, Replaced
    <3> QED
      BY <3>1, <3>3, <3>5
  <2>2. CASE MergeOwn(n, local[n], t)
    <3>1. /\ local[n] # None /\ local[n].status = "pending" /\ t.device = Phone
          /\ IF t.version > local[n].base
             THEN local' = [local EXCEPT ![n] = [local[n] EXCEPT !.base = t.version]]
             ELSE local' = local
          /\ conflicts' = conflicts
      BY <2>2 DEF MergeOwn, Diverged, Put
    <3>2. CASE t.version > local[n].base
      <4>1. Has(n)
        BY <3>1 DEF Has
      <4>2. PICK x \in Content, l \in Life, v \in Nat, b \in Nat, s \in Status :
               local[n] = [content |-> x, life |-> l, version |-> v, base |-> b, status |-> s]
        BY <1>0, <4>1, LocalTypes DEF LocalNote
      <4> DEFINE r == [content |-> x, life |-> l, version |-> v, base |-> t.version,
                       status |-> s]
      <4>3. local' = [local EXCEPT ![n] = r]
        <5>1. [local[n] EXCEPT !.base = t.version] = r
          BY <4>2
        <5> QED
          BY <3>1, <3>2, <5>1
      <4>4. r \in LocalNote
        BY <1>7 DEF LocalNote
      <4>5. r.content = x /\ r.base = t.version /\ r.status = "pending"
        BY <3>1, <4>2
      <4> HIDE DEF r
      <4>6. Rewrites(n, r)
        BY <4>3, <4>5 DEF Rewrites
      <4>7. local[n].content = x /\ local[n].base = b /\ Unsynced(n)
        BY <3>1, <4>1, <4>2 DEF Unsynced
      <4>8. InView(n, b, x)
        BY <1>5, <4>1, <4>7 DEF NoteInv, LocalInv
      <4>9. InView(n, t.version, x)
        <5>1. t.version <= Version(n)
          BY <1>5 DEF Known, Seen
        <5>2. HasRow(n) /\ t.version = Version(n) => Ours(n)
          BY <1>5, <3>1 DEF Known, Ours
        <5> QED
          BY <4>8, <5>1, <5>2 DEF InView, Seen
      <4>10. Handled(n)
        BY <1>4, <3>1, <4>4, <4>5, <4>6, <4>7, <4>9, Replaced
      <4> QED
        BY <3>1, <4>4, <4>6, <4>10
    <3>3. CASE ~(t.version > local[n].base)
      <4>1. local' = local
        BY <3>1, <3>3
      <4> QED
        BY <1>4, <3>1, <4>1, LeftAlone
    <3> QED
      BY <3>2, <3>3
  <2>3. CASE MergeDiverged(n, local[n], t)
    <3> DEFINE c == [note |-> n, reason |-> "remote_changed",
                     mine |-> Side(local[n]), theirs |-> t]
    <3>1. /\ local[n] # None /\ local[n].status = "pending" /\ t.device # Phone
          /\ SaveNoteConflict(c)
      BY <2>3 DEF MergeDiverged, Diverged
    <3>2. Has(n) /\ Unsynced(n)
      BY <3>1 DEF Has, Unsynced
    <3>3. c \in Conflict
      <4>1. Side(local[n]) \in Record
        BY <1>0, <3>2, LocalTypes DEF Side, Record
      <4> QED
        BY <4>1 DEF Conflict
    <3>4. c.note = n /\ c.theirs = t
      OBVIOUS
    <3> HIDE DEF c
    <3>5. /\ \E r \in LocalNote \union {None} : Rewrites(n, r)
          /\ \E d \in Conflict : d.note = n /\ conflicts' = Append(conflicts, d)
          /\ Handled(n)
      <4>1. c.theirs.content \subseteq Text(n) \union dropped \union
               IF Has(n) THEN local[n].content ELSE c.mine.content
        BY <1>5, <3>4 DEF InServer
      <4> QED
        BY <1>4, <1>5, <3>1, <3>2, <3>3, <3>4, <4>1, ConflictSaved
    <3> QED
      BY <3>5
  <2>4. CASE MergeLater(n, local[n], t)
    <3>1. local' = local /\ conflicts' = conflicts
      BY <2>4 DEF MergeLater
    <3> QED
      BY <1>4, <3>1, LeftAlone
  <2> QED
    BY <1>4, <2>1, <2>2, <2>3, <2>4
<1>9. PICK r \in LocalNote \union {None} : Rewrites(n, r)
  BY <1>8
<1>10. /\ DOMAIN page' = DOMAIN page /\ page'.revision = page.revision
       /\ page'.notes = Without(page.notes, n) /\ page'.deletes = page.deletes
  <2>1. DOMAIN page = {"notes", "deletes", "revision"}
    BY <1>0, NothingFacts DEF AndroidTypeOK
  <2> QED
    BY <1>4, <2>1
<1> QED
  BY <1>2, <1>4, <1>6, <1>8, <1>9, <1>10, OneNoteInv DEF Rewrites, Handled


LEMMA PreparedFacts ==
    ASSUME NEW r \in LocalNote
    PROVE  /\ PreparePendingNoteForPush(r) \in LocalNote
           /\ PreparePendingNoteForPush(r) # None
           /\ PreparePendingNoteForPush(r).content = r.content
           /\ PreparePendingNoteForPush(r).life = r.life
           /\ PreparePendingNoteForPush(r).base = r.base
           /\ PreparePendingNoteForPush(r).status = "pending"
<1>1. PICK v \in Nat : v = SafePendingVersion(r)
  BY DEF SafePendingVersion, NextVersionAfter, LocalNote
<1>2. PreparePendingNoteForPush(r) = [r EXCEPT !.version = v, !.status = "pending"]
  BY <1>1 DEF PreparePendingNoteForPush
<1>3. "pending" \in Status
  BY DEF Status
<1>4. /\ PreparePendingNoteForPush(r).content = r.content
      /\ PreparePendingNoteForPush(r).life = r.life
      /\ PreparePendingNoteForPush(r).base = r.base
      /\ PreparePendingNoteForPush(r).status = "pending"
  BY <1>2 DEF LocalNote
<1>5. PreparePendingNoteForPush(r) \in LocalNote
  BY <1>2, <1>3 DEF LocalNote
<1>6. PreparePendingNoteForPush(r) # None
  BY <1>5
<1> QED
  BY <1>4, <1>5, <1>6

LEMMA PutPreparedInv ==
    ASSUME PhoneInv, PutPrepared
    PROVE  PhoneInv'
<1> DEFINE gone == {n \in DOMAIN sent : sent[n].base = 0 /\ sent[n].life = "deleted"}
           put == DOMAIN sent \ gone
<1>0. AndroidTypeOK /\ ServerTypeOK /\ Phase
  BY DEF PhoneInv, AndroidTypeOK
<1>1. /\ step = "prepare"
      /\ local' = [n \in Note |-> IF n \in gone THEN None
                                  ELSE IF n \in put THEN PreparePendingNoteForPush(sent[n])
                                  ELSE local[n]]
      /\ sent' = [n \in put |-> PreparePendingNoteForPush(sent[n])]
      /\ dropped' = dropped \union UNION {sent[n].content : n \in gone}
      /\ step' = IF put = {} THEN "pull" ELSE "push"
      /\ UNCHANGED <<serverVars, conflicts, cursor, used>>
      /\ UNCHANGED <<using, resolving, accepted, refused, page, reading>>
  BY DEF PutPrepared, Goto, answerVars, userVars
<1>2. /\ gone \subseteq DOMAIN sent /\ put \subseteq DOMAIN sent
      /\ \A n \in DOMAIN sent : n \in gone \/ n \in put
      /\ \A n : ~(n \in gone /\ n \in put)
  OBVIOUS
<1> HIDE DEF gone, put
<1>3. /\ reading = None /\ DOMAIN accepted = {} /\ refused = {}
      /\ DOMAIN page.notes = {} /\ page.deletes = {}
      /\ \A n \in DOMAIN sent : local[n] = sent[n]
  BY <1>0, <1>1, NothingRead DEF Phase
<1>4. ASSUME NEW n \in DOMAIN sent
      PROVE  /\ n \in Note /\ sent[n] \in LocalNote /\ local[n] = sent[n]
             /\ Has(n) /\ Unsynced(n) /\ NoteInv(n)
             /\ sent[n].content \in Content /\ sent[n].base \in Nat
             /\ Seen(n, sent[n].base, sent[n].content)
  <2>1. n \in Note
    BY <1>0 DEF AndroidTypeOK, NoteMap
  <2>2. sent[n] \in LocalNote /\ local[n] = sent[n] /\ NoteInv(n)
    BY <1>0, <1>3, <2>1, LocalTypes DEF PhoneInv
  <2>3. sent[n] # None
    BY <2>2
  <2>4. Unsettled(n)
    BY <1>1 DEF Unsettled
  <2>5. sent[n].status = "pending" /\ Seen(n, sent[n].base, sent[n].content)
    BY <2>2, <2>4 DEF NoteInv, SentInv
  <2> QED
    BY <1>0, <2>1, <2>2, <2>3, <2>5, LocalTypes DEF Has, Unsynced
<1>5. /\ dropped \subseteq dropped' /\ dropped' \subseteq Edit
      /\ \A n \in gone : sent[n].content \subseteq dropped'
  <2>1. \A n \in gone : sent[n].content \subseteq Edit
    BY <1>2, <1>4
  <2>2. UNION {sent[n].content : n \in gone} \subseteq Edit
    BY <2>1
  <2>3. dropped \subseteq Edit
    BY <1>0 DEF AndroidTypeOK
  <2> QED
    BY <1>1, <2>2, <2>3
<1>6. Onward
  BY <1>0, <1>1, <1>5, SameIsOnward
<1>7. /\ \A n \in gone : n \in Note /\ local'[n] = None
      /\ \A n \in put : /\ n \in Note
                        /\ local'[n] = PreparePendingNoteForPush(sent[n])
                        /\ sent'[n] = local'[n]
      /\ \A n \in Note : n \notin DOMAIN sent => local'[n] = local[n]
      /\ DOMAIN sent' = put
  BY <1>1, <1>2, <1>4
<1>8. ASSUME NEW n \in put
      PROVE  /\ local'[n] \in LocalNote /\ local'[n] # None
             /\ local'[n].content = sent[n].content /\ local'[n].base = sent[n].base
             /\ local'[n].status = "pending"
             /\ Has(n)' /\ Unsynced(n)' /\ Held(n)' = sent[n].content
  <2>1. /\ local'[n] \in LocalNote /\ local'[n] # None
        /\ local'[n].content = sent[n].content /\ local'[n].base = sent[n].base
        /\ local'[n].status = "pending"
    BY <1>2, <1>4, <1>7, PreparedFacts
  <2> QED
    BY <2>1 DEF Has, Unsynced, Held
<1>9. /\ local' \in [Note -> LocalNote \union {None}]
      /\ \A n \in Note : Has(n)' /\ local'[n].status = "synced"
                           => local'[n].version = local'[n].base
  <2>1. local \in [Note -> LocalNote \union {None}]
    BY <1>0 DEF AndroidTypeOK
  <2>2. ASSUME NEW n \in Note
        PROVE  /\ local'[n] \in LocalNote \union {None}
               /\ Has(n)' /\ local'[n].status = "synced"
                           => local'[n].version = local'[n].base
    <3>1. CASE n \in gone
      BY <1>7, <3>1 DEF Has
    <3>2. CASE n \in put
      BY <1>8, <3>2
    <3>3. CASE n \notin DOMAIN sent
      BY <1>0, <1>7, <2>1, <3>3 DEF AndroidTypeOK, Has
    <3> QED
      BY <1>2, <3>1, <3>2, <3>3
  <2>3. DOMAIN local' = Note /\ local' = [n \in Note |-> local'[n]]
    BY <1>1
  <2> QED
    BY <2>2, <2>3
<1>10. SyncTypes'
  <2>1. NoteMap(sent', LocalNote)
    BY <1>7, <1>8 DEF NoteMap
  <2>2. step' \in Step /\ lastRev' = lastRev
    BY <1>1 DEF Step, serverVars
  <2> QED
    BY <1>0, <1>1, <2>1, <2>2 DEF AndroidTypeOK, SyncTypes
<1>11. Phase'
  BY <1>1, <1>3, <1>7 DEF Phase
<1>12. ASSUME NEW n \in Note
       PROVE  TextStill(n) /\ Leaves(n) /\ SyncNote(n)'
  <2>0. NoteInv(n) /\ dropped \subseteq dropped'
    BY <1>5 DEF PhoneInv
  <2>1. AnswerInv(n)' /\ RefusedInv(n)' /\ PageInv(n)'
    BY <1>1, <1>3 DEF AnswerInv, RefusedInv, PageInv
  <2>2. ConflictInv(n)'
    BY <1>0, <1>1, <1>6, <2>0, ConflictStays DEF NoteInv, Open
  <2>3. CASE n \in gone
    <3>1. ~Has(n)' /\ ~Unsynced(n)' /\ n \notin DOMAIN sent'
      BY <1>2, <1>7, <2>3 DEF Has, Unsynced
    <3>2. TextStill(n) /\ ShownInv(n)' /\ SentInv(n)'
      BY <3>1 DEF TextStill, ShownInv, SentInv, Unsettled
    <3>3. n \in DOMAIN sent /\ local[n] = sent[n] /\ sent[n].content \subseteq dropped'
      BY <1>2, <1>4, <1>5, <2>3
    <3>4. Leaves(n)
      BY <3>3, TextLeaves
    <3>5. LocalInv(n)'
      <4>1. Text(n)' = Text(n) /\ (Ours(n)' <=> Ours(n))
        BY <1>1, SameStore
      <4>2. Ours(n) => Text(n) \subseteq sent[n].content \union dropped
        BY <1>4, <2>0, <3>3 DEF NoteInv, LocalInv, InView
      <4> QED
        BY <2>0, <3>1, <3>3, <4>1, <4>2 DEF LocalInv
    <3> QED
      BY <2>1, <2>2, <3>2, <3>4, <3>5 DEF SyncNote
  <2>4. CASE n \in put
    <3>1. /\ n \in DOMAIN sent /\ local[n] = sent[n] /\ Has(n) /\ Unsynced(n)
          /\ Seen(n, sent[n].base, sent[n].content)
      BY <1>2, <1>4, <2>4
    <3>2. PICK b \in Nat, x \in Content : b = sent[n].base /\ x = sent[n].content
      BY <1>4, <3>1
    <3>3. /\ local'[n].content = x /\ local'[n].base = b /\ local'[n].status = "pending"
          /\ Has(n)' /\ Unsynced(n)' /\ Held(n)' = x /\ sent'[n] = local'[n]
      BY <1>7, <1>8, <2>4, <3>2
    <3>4. TextStill(n) /\ Leaves(n) /\ ShownInv(n)'
      <4>1. local'[n].content = local[n].content
        BY <3>1, <3>2, <3>3
      <4> QED
        BY <3>1, <3>3, <4>1, TextLeaves DEF TextStill, ShownInv
    <3>5. InView(n, b, x)' /\ Seen(n, b, x)'
      <4>1. InView(n, b, x) /\ Seen(n, b, x)
        BY <2>0, <3>1, <3>2 DEF NoteInv, LocalInv
      <4> QED
        BY <1>0, <1>6, <4>1, StaysSeen
    <3>6. LocalInv(n)' /\ SentInv(n)'
      BY <3>3, <3>5 DEF LocalInv, SentInv, InView, Seen
    <3> QED
      BY <2>1, <2>2, <3>4, <3>6 DEF SyncNote
  <2>5. CASE n \notin DOMAIN sent
    <3>1. local'[n] = local[n] /\ n \notin DOMAIN sent'
      BY <1>2, <1>7, <2>5
    <3>2. TextStill(n) /\ Leaves(n)
      BY <3>1, TextLeaves DEF TextStill, Unsynced, Has
    <3>3. LocalInv(n)'
      BY <1>0, <1>6, <2>0, <3>1, LocalStays DEF NoteInv
    <3>4. SentInv(n)'
      BY <3>1 DEF SentInv, Unsettled
    <3>5. ShownInv(n)'
      BY <1>1, <2>0, <3>1, ShownStays DEF NoteInv, Answered
    <3> QED
      BY <2>1, <2>2, <3>2, <3>3, <3>4, <3>5 DEF SyncNote
  <2> QED
    BY <1>2, <2>3, <2>4, <2>5
<1>13. /\ conflicts' \in Seq(Conflict) /\ cursor' \in 0..lastRev
       /\ \A i \in DOMAIN conflicts : i \in DOMAIN conflicts' /\ conflicts'[i] = conflicts[i]
       /\ using' \in {using, None} /\ resolving' \in {resolving, None}
  BY <1>0, <1>1 DEF AndroidTypeOK
<1> QED
  BY <1>1, <1>5, <1>9, <1>10, <1>11, <1>12, <1>13, SyncStepInv

(***************************************************************************)
(* The push.                                                               *)
(***************************************************************************)
(* A row as a pull or a refusal gives it out. *)
LEMMA RowRemote ==
    ASSUME ServerTypeOK, NEW n \in Note, HasRow(n)
    PROVE  /\ RemoteOf(rows[n]) \in Remote /\ Known(n, RemoteOf(rows[n]))
           /\ RemoteOf(rows[n]).content = Text(n)
           /\ RemoteOf(rows[n]).version = Version(n)
           /\ RemoteOf(rows[n]).device = rows[n].device
           /\ RemoteOf(rows[n]).life = rows[n].life
<1>1. rows[n] \in Row /\ rows[n].version = Version(n) /\ Version(n) >= 1 /\ Version(n) \in Nat
  BY RowFacts
<1>2. RemoteOf(rows[n]) \in Remote
  BY <1>1 DEF RemoteOf, Row, Remote
<1>3. /\ RemoteOf(rows[n]).content = Text(n)
      /\ RemoteOf(rows[n]).version = Version(n)
      /\ RemoteOf(rows[n]).device = rows[n].device
      /\ RemoteOf(rows[n]).life = rows[n].life
  BY <1>1 DEF RemoteOf, Text
<1>4. Known(n, RemoteOf(rows[n]))
  BY <1>1, <1>3 DEF Known, Seen, InServer
<1> QED
  BY <1>2, <1>3, <1>4

PushChange(n) == [content |-> sent[n].content, life |-> sent[n].life,
                  base |-> sent[n].base, stripped |-> FALSE]
PhoneBatch == [n \in DOMAIN sent |-> PushChange(n)]

LEMMA PushChangeFacts ==
    \A n : /\ PushChange(n).content = sent[n].content
           /\ PushChange(n).life = sent[n].life
           /\ PushChange(n).base = sent[n].base /\ PushChange(n).stripped = FALSE
           /\ Side(PushChange(n)) = Side(sent[n])
BY DEF PushChange, Side

LEMMA RefusalFacts ==
    ASSUME ServerTypeOK, AndroidTypeOK, NEW n \in Note, n \in DOMAIN sent,
           Refused(n, PushChange(n))
    PROVE  /\ ConflictOf(n, PushChange(n)) \in Conflict
           /\ ConflictOf(n, PushChange(n)).note = n
           /\ ConflictOf(n, PushChange(n)).mine = Side(sent[n])
           /\ Known(n, ConflictOf(n, PushChange(n)).theirs)
           /\ ConflictOf(n, PushChange(n)).theirs.content
                 \subseteq sent[n].content \union Text(n)
<1> DEFINE c == ConflictOf(n, PushChange(n))
<1>1. PICK x \in Content, l \in Life : x = sent[n].content /\ l = sent[n].life
  BY LocalTypes
<1>2. Side(sent[n]) \in Record
  BY <1>1 DEF Side, Record
<1>3. CASE DeletedRemotely(n, PushChange(n))
  <2> DEFINE t == [content |-> x, life |-> "deleted",
                   device |-> tombs[n].device, version |-> tombs[n].version]
  <2>1. ~HasRow(n) /\ HasTombstone(n)
    BY <1>3 DEF DeletedRemotely
  <2>2. tombs[n] \in Tombstone /\ Version(n) = tombs[n].version /\ Version(n) >= 1
        /\ Version(n) \in Nat
    BY <2>1, RowFacts
  <2>3. c = [note |-> n, reason |-> "deleted_remotely", mine |-> Side(sent[n]), theirs |-> t]
    BY <1>1, <1>3, PushChangeFacts DEF ConflictOf
  <2>4. t \in Remote
    BY <2>2 DEF Remote, Tombstone
  <2>5. t.content = x /\ t.version = Version(n) /\ t.life = "deleted"
    BY <2>2
  <2> HIDE DEF t
  <2>6. Known(n, t)
    BY <2>1, <2>2, <2>5 DEF Known, Seen
  <2>7. [note |-> n, reason |-> "deleted_remotely", mine |-> Side(sent[n]), theirs |-> t]
           \in Conflict
    BY <1>2, <2>4 DEF Conflict
  <2>8. c \in Conflict
    BY <2>3, <2>7
  <2>9. c.note = n /\ c.mine = Side(sent[n]) /\ c.theirs = t
    BY <2>3
  <2> QED
    BY <1>1, <2>5, <2>6, <2>8, <2>9
<1>4. CASE ~DeletedRemotely(n, PushChange(n))
  <2>1. HasRow(n)
    BY <1>4 DEF Refused, RemoteChanged
  <2>2. PICK t \in Remote : t = RemoteOf(rows[n]) /\ Known(n, t) /\ t.content = Text(n)
    BY <2>1, RowRemote
  <2>3. PICK reason \in {"deleted_remotely", "remote_changed"} :
           c = [note |-> n, reason |-> reason, mine |-> Side(sent[n]), theirs |-> t]
    BY <1>4, <2>2, PushChangeFacts DEF ConflictOf
  <2>4. [note |-> n, reason |-> reason, mine |-> Side(sent[n]), theirs |-> t] \in Conflict
    BY <1>2 DEF Conflict
  <2>5. c \in Conflict
    BY <2>3, <2>4
  <2>6. c.note = n /\ c.mine = Side(sent[n]) /\ c.theirs = t
    BY <2>3
  <2> QED
    BY <2>2, <2>5, <2>6
<1> QED
  BY <1>3, <1>4


LEMMA AcceptedFacts ==
    ASSUME ServerTypeOK, NEW n \in Note, ~Refused(n, PushChange(n)),
           Seen(n, sent[n].base, sent[n].content)
    PROVE  /\ Text(n) \subseteq sent[n].content \union dropped
           /\ AlreadyThere(n, PushChange(n)) =>
                 Text(n) = sent[n].content /\ Version(n) >= 1
<1>1. CASE AlreadyThere(n, PushChange(n))
  <2>1. HasRow(n) /\ ~RecordsDiffer(PushChange(n), rows[n])
    BY <1>1 DEF AlreadyThere
  <2>2. rows[n].content = sent[n].content
    BY <2>1, PushChangeFacts DEF RecordsDiffer
  <2>3. Version(n) >= 1
    BY <2>1, RowFacts
  <2> QED
    BY <2>1, <2>2, <2>3 DEF Text
<1>2. CASE ~AlreadyThere(n, PushChange(n)) /\ HasRow(n)
  <2>1. RecordsDiffer(PushChange(n), rows[n])
    BY <1>2, PushChangeFacts DEF AlreadyThere
  <2>2. ~ShouldConflict(PushChange(n), rows[n], PushChange(n).base)
    BY <1>2 DEF Refused, RemoteChanged
  <2>3. sent[n].base = rows[n].version
    BY <2>1, <2>2, PushChangeFacts DEF ShouldConflict
  <2>4. sent[n].base = Version(n)
    BY <1>2, <2>3 DEF Version
  <2> QED
    BY <1>2, <2>4 DEF Seen
<1>3. CASE ~HasRow(n)
  BY <1>3 DEF Text, AlreadyThere
<1> QED
  BY <1>1, <1>2, <1>3

(* A push leaves a note alone, or puts what was sent over what was seen. *)
PushedOver(n) ==
    /\ n \in DOMAIN sent /\ Version(n)' \in Nat /\ Version(n)' > Version(n)
    /\ HasRow(n)' /\ rows'[n].device = Phone /\ Text(n)' = sent[n].content
    /\ Text(n) \subseteq sent[n].content \union dropped

LEMMA PushKeeps ==
    ASSUME ServerTypeOK, dropped' = dropped, NEW n \in Note,
           (NoteSame(n) /\ Text(n)' = Text(n)) \/ PushedOver(n)
    PROVE  /\ \A text : \A v \in Nat : Seen(n, v, text) => Seen(n, v, text)'
           /\ \A text : InServer(n, text) => InServer(n, text)'
           /\ \A t \in Remote : Known(n, t) => Known(n, t)'
<1>1. Version(n) \in Nat
  BY VersionType
<1>2. \A text : \A v \in Nat : Seen(n, v, text) => Seen(n, v, text)'
  BY <1>1 DEF Seen, NoteSame, PushedOver
<1>3. \A text : InServer(n, text) => InServer(n, text)'
  BY DEF InServer, PushedOver
<1>4. ASSUME NEW t \in Remote, Known(n, t)
      PROVE  Known(n, t)'
  <2>1. t.version \in Nat /\ t.version <= Version(n)
    BY <1>4 DEF Remote, Known, Seen
  <2>2. Seen(n, t.version, t.content)' /\ (t.life # "deleted" => InServer(n, t.content)')
    BY <1>2, <1>3, <1>4, <2>1 DEF Known
  <2>3. HasRow(n)' /\ Version(n)' = t.version => rows'[n].device = t.device
    <3>1. CASE NoteSame(n)
      BY <1>4, <3>1 DEF NoteSame, Known
    <3>2. CASE PushedOver(n)
      BY <1>1, <2>1, <3>2 DEF PushedOver
    <3> QED
      BY <3>1, <3>2
  <2> QED
    BY <1>4, <2>2, <2>3 DEF Known
<1> QED
  BY <1>2, <1>3, <1>4

(* What is sent, and where the server puts it. *)
LEMMA SentFacts ==
    ASSUME PhoneInv, step = "push", NEW n \in DOMAIN sent
    PROVE  /\ n \in Note /\ sent[n] \in LocalNote /\ NoteInv(n)
           /\ sent[n].content \in Content /\ sent[n].life \in Life
           /\ sent[n].base \in Nat /\ Unsettled(n)
           /\ Seen(n, sent[n].base, sent[n].content)
           /\ sent[n].content \subseteq Held(n) \union dropped
           /\ Has(n) => Unsynced(n)
<1>1. AndroidTypeOK
  BY DEF PhoneInv
<1>2. n \in Note
  BY <1>1 DEF AndroidTypeOK, NoteMap
<1>3. Unsettled(n) /\ NoteInv(n)
  BY <1>2 DEF Unsettled, PhoneInv
<1>4. /\ Seen(n, sent[n].base, sent[n].content) /\ (Has(n) => Unsynced(n))
      /\ sent[n].content \subseteq Held(n) \union dropped
  BY <1>3 DEF NoteInv, SentInv
<1> QED
  BY <1>1, <1>2, <1>3, <1>4, LocalTypes

(* The notes of the push the server writes, and those it refuses. *)
Stored(n) == /\ n \in DOMAIN sent /\ ~Refused(n, PushChange(n))
           /\ ~AlreadyThere(n, PushChange(n))
RefusedNotes == {n \in DOMAIN sent : Refused(n, PushChange(n))}

LEMMA PushWrites ==
    ASSUME PhoneInv, HandlePush
    PROVE  /\ ServerInv' /\ changes \subseteq changes'
           /\ lastRev \in Nat /\ lastRev' \in Nat /\ lastRev' >= lastRev
           /\ \A n \in Note : Stored(n) =>
                 /\ NoteMoved(n) /\ HasRow(n)' /\ Version(n)' = Version(n) + 1
                 /\ rows'[n].device = Phone /\ SameSide(rows'[n], sent[n])
                 /\ Text(n)' = sent[n].content
           /\ \A n \in Note : ~Stored(n) => NoteSame(n) /\ Text(n)' = Text(n)
<1>1. step = "push" /\ Push(Phone, PhoneBatch) /\ ServerInv /\ ServerTypeOK
  BY DEF HandlePush, PhoneBatch, PushChange, PhoneInv, ServerInv
<1>2. /\ DOMAIN PhoneBatch = DOMAIN sent
      /\ \A n \in DOMAIN sent : PhoneBatch[n] = PushChange(n)
  BY DEF PhoneBatch
<1>3. Request(PhoneBatch)
  BY <1>1, <1>2, SentFacts, PushChangeFacts DEF Request
<1>4. /\ ServerInv' /\ lastRev \in Nat /\ lastRev' \in Nat /\ lastRev' >= lastRev
      /\ changes \subseteq changes'
      /\ \A n \in Written(PhoneBatch) :
            /\ NoteMoved(n) /\ HasRow(n)' /\ Version(n)' = Version(n) + 1
            /\ rows'[n].device = Phone /\ Text(n)' = PhoneBatch[n].content
            /\ SameSide(rows'[n], PhoneBatch[n])
      /\ \A n \in Note \ Written(PhoneBatch) : NoteSame(n) /\ Text(n)' = Text(n)
  <2>1. Phone \in Device
    OBVIOUS
  <2> QED
    BY <1>1, <1>3, <2>1, PushFacts DEF ServerTypeOK
<1>5. \A n \in Note : n \in Written(PhoneBatch) <=> Stored(n)
  BY <1>2 DEF Written, Writes, Stored
<1>6. ASSUME NEW n \in Note, Stored(n)
      PROVE  /\ NoteMoved(n) /\ HasRow(n)' /\ Version(n)' = Version(n) + 1
             /\ rows'[n].device = Phone /\ SameSide(rows'[n], sent[n])
             /\ Text(n)' = sent[n].content
  <2>1. PhoneBatch[n].content = sent[n].content /\ PhoneBatch[n].life = sent[n].life
    BY <1>2, <1>6, PushChangeFacts DEF Stored
  <2> QED
    BY <1>4, <1>5, <1>6, <2>1 DEF SameSide
<1> QED
  BY <1>4, <1>5, <1>6

LEMMA PushesOver ==
    ASSUME PhoneInv, HandlePush, NEW n \in Note
    PROVE  (NoteSame(n) /\ Text(n)' = Text(n)) \/ PushedOver(n)
<1>1. CASE Stored(n)
  <2>1. n \in DOMAIN sent /\ ~Refused(n, PushChange(n))
    BY <1>1 DEF Stored
  <2>2. ServerTypeOK /\ Seen(n, sent[n].base, sent[n].content)
    BY <2>1, SentFacts DEF HandlePush, PhoneInv, ServerInv
  <2>3. Text(n) \subseteq sent[n].content \union dropped
    BY <2>1, <2>2, AcceptedFacts
  <2>4. /\ NoteMoved(n) /\ HasRow(n)' /\ rows'[n].device = Phone
        /\ Text(n)' = sent[n].content
    BY <1>1, PushWrites
  <2> QED
    BY <2>1, <2>3, <2>4 DEF PushedOver, NoteMoved
<1>2. CASE ~Stored(n)
  BY <1>2, PushWrites
<1> QED
  BY <1>1, <1>2

(* An accepted note is now the server's, at the version of the answer. *)
LEMMA PushAnswer ==
    ASSUME PhoneInv, HandlePush
    PROVE  /\ DOMAIN accepted' = DOMAIN sent \ RefusedNotes
           /\ \A n \in DOMAIN accepted' :
                 /\ accepted'[n] \in Nat /\ accepted'[n] >= 1
                 /\ accepted'[n] = Version(n)' /\ Text(n)' = sent[n].content
                 /\ HasRow(n)' /\ SameSide(sent[n], rows'[n])
           /\ \A c \in refused' : \E n \in RefusedNotes : c = ConflictOf(n, PushChange(n))
<1>1. /\ refused' = {ConflictOf(n, PhoneBatch[n]) :
                        n \in {m \in DOMAIN PhoneBatch : Refused(m, PhoneBatch[m])}}
      /\ accepted' = [n \in DOMAIN PhoneBatch \
                            {m \in DOMAIN PhoneBatch : Refused(m, PhoneBatch[m])} |->
                         IF AlreadyThere(n, PhoneBatch[n]) THEN Version(n)
                         ELSE AcceptedVersion(n)]
      /\ step = "push" /\ ServerTypeOK
  BY DEF HandlePush, PhoneBatch, PushChange, PhoneInv, ServerInv
<1>2. /\ DOMAIN PhoneBatch = DOMAIN sent
      /\ \A n \in DOMAIN sent : PhoneBatch[n] = PushChange(n)
  BY DEF PhoneBatch
<1>3. {m \in DOMAIN PhoneBatch : Refused(m, PhoneBatch[m])} = RefusedNotes
  BY <1>2 DEF RefusedNotes
<1>4. \A c \in refused' : \E n \in RefusedNotes : c = ConflictOf(n, PushChange(n))
  BY <1>1, <1>2, <1>3 DEF RefusedNotes
<1>5. DOMAIN accepted' = DOMAIN sent \ RefusedNotes
  BY <1>1, <1>2, <1>3
<1>6. ASSUME NEW n \in DOMAIN sent \ RefusedNotes
      PROVE  accepted'[n] =
             IF AlreadyThere(n, PushChange(n)) THEN Version(n) ELSE AcceptedVersion(n)
  <2>1. PhoneBatch[n] = PushChange(n) /\ n \in DOMAIN PhoneBatch
    BY <1>2
  <2> QED
    BY <1>1, <1>3, <2>1
<1>7. ASSUME NEW n \in DOMAIN sent \ RefusedNotes
      PROVE  /\ accepted'[n] \in Nat /\ accepted'[n] >= 1
             /\ accepted'[n] = Version(n)' /\ Text(n)' = sent[n].content
             /\ HasRow(n)' /\ SameSide(sent[n], rows'[n])
  <2>1. /\ n \in Note /\ ~Refused(n, PushChange(n)) /\ Version(n) \in Nat
        /\ Seen(n, sent[n].base, sent[n].content)
    BY <1>1, SentFacts, RowFacts DEF RefusedNotes
  <2>2. CASE AlreadyThere(n, PushChange(n))
    <3>1. NoteSame(n) /\ Text(n)' = Text(n)
      BY <2>1, <2>2, PushWrites DEF Stored
    <3>2. Text(n) = sent[n].content /\ Version(n) >= 1
      BY <1>1, <2>1, <2>2, AcceptedFacts
    <3>3. HasRow(n) /\ SameSide(PushChange(n), rows[n])
      BY <2>2 DEF AlreadyThere, RecordsDiffer, SameSide
    <3>4. HasRow(n)' /\ SameSide(sent[n], rows'[n])
      BY <3>1, <3>3, PushChangeFacts DEF NoteSame, SameSide
    <3> QED
      BY <1>6, <2>1, <2>2, <3>1, <3>2, <3>4 DEF NoteSame
  <2>3. CASE ~AlreadyThere(n, PushChange(n))
    <3>1. Stored(n)
      BY <2>1, <2>3 DEF Stored
    <3>2. /\ Version(n)' = Version(n) + 1 /\ Text(n)' = sent[n].content
          /\ HasRow(n)' /\ SameSide(rows'[n], sent[n])
      BY <2>1, <3>1, PushWrites
    <3>3. accepted'[n] = Version(n) + 1
      BY <1>6, <2>3 DEF AcceptedVersion, NextVersionAfter
    <3> QED
      BY <2>1, <3>2, <3>3 DEF SameSide
  <2> QED
    BY <2>2, <2>3
<1> QED
  BY <1>4, <1>5, <1>7

LEMMA HandlePushInv ==
    ASSUME PhoneInv, HandlePush
    PROVE  PhoneInv'
<1>0. AndroidTypeOK /\ ServerTypeOK /\ Phase /\ ServerInv /\ Kept
  BY DEF PhoneInv, AndroidTypeOK
<1>1. /\ step = "push" /\ step' = "answered"
      /\ UNCHANGED <<local, conflicts, cursor, sent, page, reading>>
      /\ UNCHANGED <<using, resolving, used, dropped>>
  BY DEF HandlePush, Goto, userVars, historyVars
<1>2. /\ reading = None /\ DOMAIN page.notes = {} /\ page.deletes = {}
  BY <1>0, <1>1, NothingRead DEF Phase
<1>3. \A n \in DOMAIN sent :
             /\ n \in Note /\ sent[n] \in LocalNote /\ NoteInv(n)
             /\ sent[n].content \in Content /\ sent[n].life \in Life
             /\ sent[n].base \in Nat /\ Unsettled(n)
             /\ Seen(n, sent[n].base, sent[n].content)
             /\ sent[n].content \subseteq Held(n) \union dropped
             /\ Has(n) => Unsynced(n)
  BY <1>1, SentFacts
<1>4. ServerInv' /\ lastRev \in Nat /\ lastRev' \in Nat /\ lastRev' >= lastRev
  BY PushWrites
<1>5. \A n \in Note : (NoteSame(n) /\ Text(n)' = Text(n)) \/ PushedOver(n)
  BY PushesOver
<1>6. ASSUME NEW n \in Note
       PROVE  /\ \A text : \A v \in Nat : Seen(n, v, text) => Seen(n, v, text)'
              /\ \A text : InServer(n, text) => InServer(n, text)'
              /\ \A t \in Remote : Known(n, t) => Known(n, t)'
              /\ Text(n) \subseteq Text(n)' \union dropped /\ dropped' = dropped
              /\ Ours(n)' => \/ Ours(n) /\ Text(n)' = Text(n)
                             \/ n \in DOMAIN sent /\ Text(n)' = sent[n].content
  <2>1. (NoteSame(n) /\ Text(n)' = Text(n)) \/ PushedOver(n)
    BY <1>5
  <2>2. dropped' = dropped
    BY <1>1
  <2>3. /\ \A text : \A v \in Nat : Seen(n, v, text) => Seen(n, v, text)'
        /\ \A text : InServer(n, text) => InServer(n, text)'
        /\ \A t \in Remote : Known(n, t) => Known(n, t)'
    BY <1>0, <2>1, <2>2, PushKeeps
  <2>4. Text(n) \subseteq Text(n)' \union dropped
    BY <2>1 DEF PushedOver
  <2>5. Ours(n)' => \/ Ours(n) /\ Text(n)' = Text(n)
                    \/ n \in DOMAIN sent /\ Text(n)' = sent[n].content
    BY <2>1 DEF PushedOver, NoteSame, Ours
  <2> QED
    BY <2>2, <2>3, <2>4, <2>5
<1>7. /\ DOMAIN accepted' = DOMAIN sent \ RefusedNotes
       /\ \A n \in DOMAIN sent \ RefusedNotes :
             /\ accepted'[n] \in Nat /\ accepted'[n] >= 1 /\ accepted'[n] = Version(n)'
             /\ Text(n)' = sent[n].content
  BY PushAnswer
<1>8. ASSUME NEW c \in refused'
       PROVE  \E n \in RefusedNotes : /\ c = ConflictOf(n, PushChange(n)) /\ n \in DOMAIN sent
                            /\ n \in Note
                            /\ c \in Conflict /\ c.note = n /\ c.mine = Side(sent[n])
                            /\ Known(n, c.theirs)
                            /\ c.theirs.content \subseteq sent[n].content \union Text(n)
  <2>1. PICK n \in RefusedNotes : c = ConflictOf(n, PushChange(n))
    BY PushAnswer
  <2>2. Refused(n, PushChange(n)) /\ n \in DOMAIN sent /\ n \in Note
    BY <1>3 DEF RefusedNotes
  <2> QED
    BY <1>0, <2>1, <2>2, RefusalFacts
<1>9. refused' \subseteq Conflict
  BY <1>8
<1>10. AndroidTypeOK'
  <2>1. NoteMap(accepted', Nat \ {0})
    BY <1>3, <1>7 DEF NoteMap
  <2>2. ServerTypeOK' /\ cursor' \in 0..lastRev' /\ page'.revision \in 0..lastRev'
    BY <1>0, <1>1, <1>4 DEF ServerInv, AndroidTypeOK
  <2>3. step' \in Step
    BY <1>1 DEF Step
  <2> QED
    BY <1>0, <1>1, <1>9, <2>1, <2>2, <2>3 DEF AndroidTypeOK, Has
<1>11. Phase'
  BY <1>1, <1>2 DEF Phase
<1>12. ASSUME NEW n \in Note
       PROVE  NoteInv(n)'
  <2>0. NoteInv(n) /\ dropped' = dropped /\ local' = local
    BY <1>1 DEF PhoneInv
  <2>1. LocalInv(n)'
    <3>1. CASE Has(n)
      <4>1. PICK b \in Nat, x \in Content : b = local[n].base /\ x = local[n].content
        BY <1>0, <3>1, LocalTypes
      <4>2. InView(n, b, x)
        BY <2>0, <3>1, <4>1 DEF NoteInv, LocalInv
      <4>3. n \in DOMAIN sent => sent[n].content \subseteq x \union dropped
        BY <1>3, <3>1, <4>1 DEF Held
      <4>4. InView(n, b, x)'
        BY <1>6, <4>2, <4>3 DEF InView
      <4> QED
        BY <2>0, <3>1, <4>1, <4>4 DEF LocalInv, Has, InView, Seen
    <3>2. CASE ~Has(n)
      <4>1. n \in DOMAIN sent => sent[n].content \subseteq dropped
        BY <1>3, <3>2 DEF Held
      <4>2. Ours(n) => Text(n) \subseteq dropped
        BY <2>0, <3>2 DEF NoteInv, LocalInv
      <4> QED
        BY <1>6, <2>0, <3>2, <4>1, <4>2 DEF LocalInv, Has
    <3> QED
      BY <3>1, <3>2
  <2>2. SentInv(n)'
    <3> SUFFICES ASSUME n \in DOMAIN sent
                 PROVE  SentInv(n)'
      BY <1>1 DEF SentInv, Unsettled
    <3>1. PICK b \in Nat, x \in Content : b = sent[n].base /\ x = sent[n].content
      BY <1>3
    <3>2. Seen(n, b, x)'
      BY <1>3, <1>6, <3>1
    <3>3. sent[n].status = "pending"
      BY <1>3, <2>0 DEF NoteInv, SentInv
    <3> QED
      BY <1>1, <1>3, <3>1, <3>2, <3>3 DEF SentInv, Seen, Has, Unsynced, Held
  <2>3. AnswerInv(n)'
    <3> SUFFICES ASSUME n \in DOMAIN sent \ RefusedNotes
                 PROVE  /\ Seen(n, accepted[n], sent[n].content)'
                        /\ InServer(n, sent[n].content)'
      BY <1>1, <1>7 DEF AnswerInv
    <3>1. PICK v \in Nat, x \in Content : v = accepted'[n] /\ x = sent[n].content
      BY <1>3, <1>7
    <3>2. Version(n)' = v /\ Text(n)' = x /\ v \in Nat
      BY <1>7, <3>1
    <3>3. Seen(n, v, x)'
      BY <3>2 DEF Seen
    <3>4. InServer(n, x)'
      BY <3>2 DEF InServer
    <3> QED
      BY <1>1, <3>1, <3>3, <3>4 DEF Seen, InServer
  <2>4. RefusedInv(n)'
    <3> SUFFICES ASSUME NEW c \in refused', c.note = n
                 PROVE  /\ n \in DOMAIN sent /\ n \notin DOMAIN accepted'
                        /\ Known(n, c.theirs)'
                        /\ c.theirs.content \subseteq
                              sent[n].content \union Text(n)' \union dropped
                        /\ c.mine = Side(sent[n])
                        /\ \A b \in refused' : b.note = n => b = c
      BY <1>1 DEF RefusedInv
    <3>1. /\ c = ConflictOf(n, PushChange(n)) /\ n \in DOMAIN sent /\ n \in RefusedNotes
          /\ c \in Conflict /\ c.mine = Side(sent[n]) /\ Known(n, c.theirs)
          /\ c.theirs.content \subseteq sent[n].content \union Text(n)
      BY <1>8
    <3>2. \A b \in refused' : b.note = n => b = c
      BY <1>8, <3>1
    <3>3. c.theirs \in Remote
      BY <3>1 DEF Conflict
    <3> QED
      BY <1>6, <1>7, <3>1, <3>2, <3>3
  <2>5. ConflictInv(n)'
    <3> SUFFICES ASSUME NEW c \in Open, c.note = n
                 PROVE  /\ Known(n, c.theirs)'
                        /\ c.reason = "remote_changed" => c.theirs.device # Phone
                        /\ c.theirs.content \subseteq
                              c.mine.content \union Text(n)' \union dropped
      BY <1>1 DEF ConflictInv, Open
    <3>1. c.theirs \in Remote
      BY <1>0, ConflictTypes
    <3> QED
      BY <1>6, <2>0, <3>1 DEF NoteInv, ConflictInv
  <2>6. PageInv(n)'
    BY <1>1, <1>2 DEF PageInv
  <2>7. UsingInv(n)'
    <3> SUFFICES ASSUME using # None, using.note = n
                 PROVE  UsingInv(n)'
      BY <1>1 DEF UsingInv
    <3>1. PICK b \in Nat, x \in Content : b = using.seen.base /\ x = using.seen.content
      BY <1>0, UserTypes
    <3>2. InView(n, b, x) /\ (Unsynced(n) => local[n].content \subseteq x \union dropped)
      BY <2>0, <3>1 DEF NoteInv, UsingInv
    <3>3. n \in DOMAIN sent => sent[n].content \subseteq x \union dropped
      BY <1>3, <3>2 DEF Held
    <3>4. InView(n, b, x)'
      BY <1>6, <3>2, <3>3 DEF InView
    <3> QED
      BY <1>1, <3>1, <3>2, <3>4 DEF UsingInv, InView, Seen, Unsynced, Has
  <2>8. ResolvingInv(n)'
    <3> SUFFICES ASSUME resolving # None, resolving.of.note = n
                 PROVE  ResolvingInv(n)'
      BY <1>1 DEF ResolvingInv
    <3>1. PICK c \in Conflict : c = resolving.of
      BY <1>0, UserTypes
    <3>2. resolving.left = "record" /\ resolving.choice = "keep-local" =>
             (Ours(n)' => Text(n)' \subseteq c.mine.content \union dropped)
      <4> SUFFICES ASSUME resolving.left = "record", resolving.choice = "keep-local"
                   PROVE  Ours(n)' => Text(n)' \subseteq c.mine.content \union dropped
        OBVIOUS
      <4>1. /\ Unsynced(n) => local[n].content \subseteq
                  c.mine.content \union c.theirs.content \union dropped
            /\ c.theirs.content \subseteq c.mine.content \union dropped
            /\ Ours(n) => Text(n) \subseteq c.mine.content \union dropped
        BY <2>0, <3>1 DEF NoteInv, ResolvingInv
      <4>2. n \in DOMAIN sent => sent[n].content \subseteq c.mine.content \union dropped
        BY <1>3, <4>1 DEF Held
      <4> QED
        BY <1>6, <4>1, <4>2
    <3> QED
      BY <1>1, <2>0, <3>1, <3>2 DEF NoteInv, ResolvingInv, Unsynced, Has
  <2>9. ShownInv(n)'
    BY <1>1, <2>0 DEF NoteInv, ShownInv, Has, Answered
  <2> QED
    BY <2>1, <2>2, <2>3, <2>4, <2>5, <2>6, <2>7, <2>8, <2>9 DEF NoteInv
<1>13. Kept'
  <2>1. \A e : OnServer(e) => e \in dropped' \/ OnServer(e)'
    BY <1>6 DEF OnServer
  <2>2. \A e : Holds(e) => Holds(e)'
    BY <1>1 DEF Holds, Unsynced, Has
  <2> QED
    BY <1>0, <1>1, <2>1, <2>2 DEF Kept
<1> QED
  BY <1>4, <1>10, <1>11, <1>12, <1>13 DEF PhoneInv

LEMMA PhoneInvInit == AndroidInit => PhoneInv
<1> SUFFICES ASSUME AndroidInit
             PROVE  PhoneInv
  OBVIOUS
<1>1. /\ ServerInit /\ local = [n \in Note |-> None] /\ conflicts = <<>> /\ cursor = 0
      /\ using = None /\ resolving = None /\ reading = None
      /\ step = "idle" /\ DOMAIN sent = {} /\ DOMAIN accepted = {} /\ refused = {}
      /\ page = NoPage /\ sent = Nothing /\ accepted = Nothing /\ used = {} /\ dropped = {}
  BY NothingFacts DEF AndroidInit
<1>2. ServerInv /\ ServerTypeOK
  BY <1>1, ServerInvInit DEF ServerInv
<1>3. \A n \in Note : ~Has(n) /\ ~HasRow(n)
  BY <1>1 DEF Has, HasRow, ServerInit
<1>4. DOMAIN page.notes = {} /\ page.deletes = {}
  BY <1>1, NothingFacts
<1>5. Open = {}
  BY <1>1 DEF Open
<1>6. AndroidTypeOK
  <2>1. conflicts \in Seq(Conflict)
    BY <1>1
  <2>2. NoteMap(sent, LocalNote) /\ NoteMap(accepted, Nat \ {0}) /\ NoteMap(page.notes, Remote)
    BY <1>1, NothingFacts
  <2>3. lastRev \in Nat /\ cursor \in 0..lastRev /\ page.revision \in 0..lastRev
    BY <1>1, <1>2, NothingFacts DEF ServerTypeOK
  <2>4. local \in [Note -> LocalNote \union {None}] /\ step \in Step
    BY <1>1 DEF Step
  <2> QED
    BY <1>1, <1>2, <1>3, <1>4, <2>1, <2>2, <2>3, <2>4 DEF AndroidTypeOK
<1>7. Phase
  BY <1>1, <1>4 DEF Phase
<1>8. ASSUME NEW n \in Note
      PROVE  NoteInv(n)
  <2>1. LocalInv(n) /\ SentInv(n) /\ AnswerInv(n) /\ RefusedInv(n)
    BY <1>1, <1>3 DEF LocalInv, Ours, SentInv, Unsettled, AnswerInv, RefusedInv
  <2>2. ConflictInv(n) /\ PageInv(n)
    BY <1>4, <1>5 DEF ConflictInv, PageInv
  <2>3. UsingInv(n) /\ ResolvingInv(n) /\ ShownInv(n)
    BY <1>1, <1>3 DEF UsingInv, ResolvingInv, ShownInv
  <2> QED
    BY <2>1, <2>2, <2>3 DEF NoteInv
<1>9. Kept
  BY <1>1 DEF Kept
<1> QED
  BY <1>2, <1>6, <1>7, <1>8, <1>9 DEF PhoneInv

LEMMA UserStepInv ==
    ASSUME Closed, PhoneInv, UserStep
    PROVE  PhoneInv'
<1>1. ASSUME NEW n \in Note, NEW e \in Edit, CreateBlankNote(n, e)
      PROVE  PhoneInv'
  BY <1>1, CreateInv
<1>2. ASSUME NEW n \in Note, \/ UpdateNoteContent(n) \/ MoveNoteToTrash(n)
                             \/ RestoreNote(n) \/ DeleteNotePermanently(n)
      PROVE  PhoneInv'
  <2>1. \A op \in UserOp : \A lives : Begin(op, n, lives) => PhoneInv'
    BY BeginInv
  <2>2. {"update", "trash", "restore", "delete"} \subseteq UserOp
    BY DEF UserOp
  <2> QED
    BY <1>2, <2>1, <2>2 DEF UpdateNoteContent, MoveNoteToTrash, RestoreNote,
                            DeleteNotePermanently
<1>3. ASSUME NEW e \in Edit, Finish(e)
      PROVE  PhoneInv'
  BY <1>3, FinishInv
<1>4. ASSUME NEW choice \in Choice, ChooseSide(choice)
      PROVE  PhoneInv'
  BY <1>4, ChooseInv
<1>5. CASE PutChosen
  BY <1>5, PutChosenInv
<1>6. CASE MarkResolved
  BY <1>6, MarkResolvedInv
<1>7. ASSUME NEW copy \in Note, PutCopy(copy)
      PROVE  PhoneInv'
  BY <1>7, PutCopyInv
<1> QED
  BY <1>1, <1>2, <1>3, <1>4, <1>5, <1>6, <1>7 DEF UserStep

LEMMA SyncStepsInv ==
    ASSUME PhoneInv, SyncStep
    PROVE  PhoneInv'
<1>1. CASE ReadPending \/ PutPrepared \/ HandlePush
  BY <1>1, ReadPendingInv, PutPreparedInv, HandlePushInv
<1>2. CASE ReadAccepted \/ ReadEcho \/ ReadDeleted \/ ReadMerged
  BY <1>2, ReadsInv
<1>3. CASE MarkAccepted \/ Absorb \/ SaveRefused \/ PushDone
  BY <1>3, MarkAcceptedInv, AbsorbInv, SaveRefusedInv, PushDoneInv
<1>4. CASE HandlePull \/ ApplyRemoteDelete \/ MergeRemoteNote \/ SaveCursor
  BY <1>4, HandlePullInv, RemoteDeleteInv, MergeInv, SaveCursorInv
<1> QED
  BY <1>1, <1>2, <1>3, <1>4 DEF SyncStep

LEMMA PhoneInvNext ==
    ASSUME Closed, PhoneInv, [AndroidNext]_androidVars
    PROVE  PhoneInv'
<1>1. CASE UserStep
  BY <1>1, UserStepInv
<1>2. CASE SyncStep
  BY <1>2, SyncStepsInv
<1>3. CASE SyncFails \/ ProcessDies
  BY <1>3, ForgetInv
<1>4. ASSUME NEW n \in Note, NEW life \in Life, NEW e \in Edit, OtherPushes(n, life, e)
      PROVE  PhoneInv'
  BY <1>4, OtherPushesInv
<1>5. CASE Retention
  BY <1>5, RetentionInv
<1>6. CASE UNCHANGED androidVars
  BY <1>6, StutterInv
<1> QED
  BY <1>1, <1>2, <1>3, <1>4, <1>5, <1>6 DEF AndroidNext

(* The invariant the results below rest on. *)
THEOREM PhoneInvariant ==
    ASSUME Closed
    PROVE  AndroidSpec => []PhoneInv
<1>1. PhoneInv /\ [AndroidNext]_androidVars => PhoneInv'
  BY PhoneInvNext
<1> QED
  BY <1>1, PhoneInvInit, PTL DEF AndroidSpec

(***************************************************************************)
(* The theorems a reader should know of.                                   *)
(***************************************************************************)
(* Type correctness: what the phone keeps, what a sync has in hand and what an
   operation or a resolution has read are records of the app, a note marked
   "synced" is at its base, and a resolution is of the oldest conflict. *)
THEOREM PhoneTyped ==
    ASSUME Closed
    PROVE  AndroidSpec => []AndroidTypeOK
<1>1. PhoneInv => AndroidTypeOK
  BY DEF PhoneInv
<1> QED
  BY <1>1, PhoneInvariant, PTL

(* Every note of the phone, every row and every side of a conflict is among
   the texts the program keeps. *)
LEMMA TextsHave ==
    /\ \A n \in Note : Has(n) => local[n].content \in Texts
    /\ \A n \in Note : HasRow(n) => rows[n].content \in Texts
    /\ \A i \in DOMAIN conflicts : conflicts[i].mine.content \in Texts
<1> DEFINE OfPhone == {local[n].content : n \in {m \in Note : Has(m)}}
           OfServer == {rows[n].content : n \in {m \in Note : HasRow(m)}}
           Sides(i) == {conflicts[i].mine.content, conflicts[i].theirs.content}
           OfConflicts == {Sides(i) : i \in DOMAIN conflicts}
<1>1. Texts = OfPhone \union OfServer \union UNION OfConflicts
  BY DEF Texts
<1>2. \A n \in Note : Has(n) => local[n].content \in OfPhone
  OBVIOUS
<1>3. \A n \in Note : HasRow(n) => rows[n].content \in OfServer
  OBVIOUS
<1>4. \A i : conflicts[i].mine.content \in Sides(i)
  OBVIOUS
<1> HIDE DEF Sides, OfPhone, OfServer
<1>5. \A i \in DOMAIN conflicts : Sides(i) \in OfConflicts
  OBVIOUS
<1> HIDE DEF OfConflicts
<1>6. \A i \in DOMAIN conflicts : conflicts[i].mine.content \in UNION OfConflicts
  BY <1>4, <1>5
<1> QED
  BY <1>1, <1>2, <1>3, <1>6

(* No edit is lost: the phone, the server or an open conflict has it, unless a
   user gave it up, whatever the sync writes between the statements of an
   operation and wherever a sync, a resolution or the process is cut off.  The
   opposite order, a user's write between two statements of the sync on the same
   note, is what the windows are, all of which Closed shuts. *)
THEOREM EditsKept ==
    ASSUME Closed
    PROVE  AndroidSpec => []NoEditLost
<1>1. ASSUME PhoneInv, NEW e \in used, e \notin dropped
      PROVE  e \in UNION Texts
  <2>1. CASE OnServer(e)
    BY <2>1, TextsHave DEF OnServer, Text
  <2>2. CASE \E n \in Note : Unsynced(n) /\ e \in local[n].content
    BY <2>2, TextsHave DEF Unsynced
  <2>3. CASE \E i \in DOMAIN conflicts : e \in conflicts[i].mine.content
    BY <2>3, TextsHave
  <2> QED
    BY <1>1, <2>1, <2>2, <2>3 DEF PhoneInv, Kept, Holds
<1>2. PhoneInv => NoEditLost
  BY <1>1 DEF NoEditLost
<1> QED
  BY <1>2, PhoneInvariant, PTL

(* A note marked "conflict" is held, as it is, by a conflict the dialog will
   still show. *)
THEOREM ConflictsShown ==
    ASSUME Closed
    PROVE  AndroidSpec => []ConflictShowsNote
<1>1. PhoneInv => ConflictShowsNote
  BY DEF PhoneInv, NoteInv, ShownInv, ConflictShowsNote
<1> QED
  BY <1>1, PhoneInvariant, PTL

(* The phone never asks its user to choose between two of its own versions: a
   push whose answer was lost is recognised when it is refused or pulled back. *)
THEOREM NoConflictWithOneself ==
    ASSUME Closed
    PROVE  AndroidSpec => []NoOwnConflict
<1>1. ASSUME PhoneInv, NEW i \in DOMAIN conflicts,
             conflicts[i].reason = "remote_changed"
      PROVE  conflicts[i].theirs.device # Phone
  <2>1. PICK c \in Open : c = conflicts[i]
    BY DEF Open
  <2>2. c.note \in Note
    BY <1>1, ConflictTypes DEF PhoneInv
  <2>3. ConflictInv(c.note)
    BY <1>1, <2>2 DEF PhoneInv, NoteInv
  <2> QED
    BY <1>1, <2>1, <2>3 DEF ConflictInv
<1>2. PhoneInv => NoOwnConflict
  BY <1>1 DEF NoOwnConflict
<1> QED
  BY <1>2, PhoneInvariant, PTL

(* No step replaces a text of the server without having it in view: the phone's
   push is the only one that could. *)
LEMMA NothingOverwritten ==
    ASSUME Closed, PhoneInv, [AndroidNext]_androidVars, NEW n \in Note
    PROVE  HasRow(n) /\ HasRow(n)' => Text(n) \subseteq Text(n)' \union dropped
<1>0. ServerInv /\ ServerTypeOK /\ used \subseteq Edit
  BY DEF PhoneInv, AndroidTypeOK
<1>1. CASE UNCHANGED serverVars
  BY <1>1, SameStore
<1>2. CASE HandlePush
  BY <1>2, PushesOver DEF PushedOver
<1>3. ASSUME NEW m \in Note, NEW life \in Life, NEW e \in Edit, OtherPushes(m, life, e)
      PROVE  Text(n) \subseteq Text(n)' \union dropped
  <2>1. Onward
    BY <1>0, <1>3, OtherOnward
  <2>2. dropped' = dropped
    BY <1>3 DEF OtherPushes
  <2> QED
    BY <2>1, <2>2 DEF Onward
<1>4. CASE Retention
  <2>1. CASE UNCHANGED dropped
    BY <1>0, <1>4, <2>1, RetentionOnward DEF Onward
  <2>2. CASE CleanupTrash
    <3>1. /\ \A m \in Expired : rows'[m] = None
          /\ \A m \in Note \ Expired : rows'[m] = rows[m]
      BY <1>0, <2>2, CleanupEffect
    <3> QED
      BY <3>1 DEF Text, HasRow
  <2> QED
    BY <1>4, <2>1, <2>2 DEF Retention
<1>5. ASSUME UserStep
      PROVE  UNCHANGED serverVars
  BY <1>5 DEF UserStep, CreateBlankNote, Begin, UpdateNoteContent, MoveNoteToTrash,
              RestoreNote, DeleteNotePermanently, Finish, ChooseSide, PutChosen,
              MarkResolved, PutCopy
<1>6. ASSUME SyncStep, ~HandlePush
      PROVE  UNCHANGED serverVars
  <2>1. CASE ReadAccepted \/ ReadEcho \/ ReadDeleted \/ ReadMerged
    BY <2>1 DEF Read, ReadAccepted, ReadEcho, ReadDeleted, ReadMerged
  <2>2. CASE ReadPending \/ PutPrepared \/ MarkAccepted \/ Absorb
    BY <2>2 DEF ReadPending, PutPrepared, MarkAccepted, Absorb
  <2>3. CASE SaveRefused \/ PushDone \/ HandlePull
    BY <2>3 DEF SaveRefused, PushDone, HandlePull
  <2>4. CASE ApplyRemoteDelete \/ MergeRemoteNote \/ SaveCursor
    BY <2>4 DEF ApplyRemoteDelete, MergeRemoteNote, SaveCursor
  <2> QED
    BY <1>6, <2>1, <2>2, <2>3, <2>4 DEF SyncStep
<1>7. ASSUME SyncFails \/ ProcessDies
      PROVE  UNCHANGED serverVars
  BY <1>7 DEF SyncFails, ProcessDies, Forget
<1>8. ASSUME UNCHANGED androidVars
      PROVE  UNCHANGED serverVars
  BY <1>8 DEF androidVars
<1> QED
  BY <1>1, <1>2, <1>3, <1>4, <1>5, <1>6, <1>7, <1>8 DEF AndroidNext

(* With the windows closed, the phone replaces a note of the server only by text
   written with the replaced text in view: an accepted push names the version it
   is based on. *)
THEOREM NothingOverwrittenUnseen ==
    ASSUME Closed
    PROVE  AndroidSpec => NeverSilentlyOverwritten
<1>1. ASSUME PhoneInv, [AndroidNext]_androidVars
      PROVE  \A n \in Note : HasRow(n) /\ HasRow(n)' =>
                rows[n].content \subseteq rows'[n].content \union dropped
  BY <1>1, NothingOverwritten DEF Text
<1>2. PhoneInv /\ [AndroidNext]_androidVars =>
         \A n \in Note : HasRow(n) /\ HasRow(n)' =>
            rows[n].content \subseteq rows'[n].content \union dropped
  BY <1>1
<1> QED
  BY <1>2, PhoneInvariant, PTL DEF AndroidSpec, NeverSilentlyOverwritten

(***************************************************************************)
(* The copies: a note that is marked "synced", or that the phone has not,  *)
(* is the server's, or the change that makes it differ is still coming:    *)
(* logged past the cursor, past the page while one is being merged, or in  *)
(* the page and not settled yet.                                           *)
(***************************************************************************)
Copy(n, r) == IF HasRow(n) THEN Live(r) = Live(rows[n]) ELSE Live(r) = None
Is(n, t) == HasRow(n) /\ SameSide(t, rows[n])

UpTo == IF step = "pulled" THEN page.revision ELSE cursor
LoggedAfter(n, up) == \E c \in changes : c.note = n /\ c.rev > up
Ahead(n) == LoggedAfter(n, UpTo)
InPage(n) == n \in DOMAIN page.notes \/ n \in page.deletes
Coming(n) == Ahead(n) \/ InPage(n)

CleanInv(n) == ~Unsynced(n) => Coming(n) \/ Copy(n, local[n])

PulledInv(n) ==
    /\ n \in DOMAIN page.notes =>
          /\ Ahead(n) \/ Is(n, page.notes[n])
          /\ page.notes[n].version = Version(n) => Copy(n, page.notes[n])
    /\ InPage(n) => LoggedAfter(n, cursor)

(* What the server accepted is what it holds, unless it has moved on. *)
TakenInv(n) == n \in DOMAIN accepted => Ahead(n) \/ Is(n, sent[n])

(* The other side of a conflict is a copy of the version it names. *)
TheirsInv(n) ==
    \A c \in Open \union refused :
        c.note = n /\ c.theirs.version = Version(n) => Copy(n, c.theirs)

(* The copy of a deleted side of a conflict was never on the server, and is
   never sent there. *)
Stillborn(n) == Has(n) /\ local[n].base = 0 /\ local[n].life = "deleted"
StillbornInv(n) ==
    Stillborn(n) => Version(n) = 0 /\ (n \in DOMAIN sent => step = "prepare")

CopyInv(n) ==
    /\ CleanInv(n) /\ PulledInv(n) /\ TakenInv(n) /\ TheirsInv(n)
    /\ StillbornInv(n)

CursorInv == step = "pulled" => cursor <= page.revision
AliveInv == using # None => using.seen.life # "deleted"

CopiesInv ==
    /\ CursorInv /\ AliveInv
    /\ \A n \in Note : CopyInv(n)

LEMMA SideIsCopy ==
    ASSUME NEW n, NEW r, r # None, HasRow(n), SameSide(r, rows[n])
    PROVE  Copy(n, r)
<1>1. Side(r) = Side(rows[n])
  BY DEF SameSide, Side
<1>2. rows[n] # None /\ r.life = rows[n].life
  BY DEF SameSide, HasRow
<1>3. Live(r) = Live(rows[n])
  BY <1>1, <1>2 DEF Live
<1> QED
  BY <1>3 DEF Copy

LEMMA GoneIsCopy ==
    ASSUME NEW n, NEW r, ~HasRow(n), r = None \/ r.life = "deleted"
    PROVE  Copy(n, r)
BY DEF Copy, Live

LEMMA CopyOfSynced ==
    ASSUME NEW n, NEW t \in Remote, Copy(n, t)
    PROVE  Copy(n, Synced(t))
<1>1. Synced(t) # None /\ t # None
  BY SyncedFacts
<1>2. Synced(t).content = t.content /\ Synced(t).life = t.life
  BY DEF Synced
<1>3. Live(Synced(t)) = Live(t)
  BY <1>1, <1>2 DEF Live, Side
<1> QED
  BY <1>3 DEF Copy

(* Nothing of it changes with what is the same on the server. *)
LEMMA SameCopies ==
    ASSUME NEW n, NoteSame(n)
    PROVE  /\ Version(n)' = Version(n)
           /\ \A r : Copy(n, r) => Copy(n, r)'
           /\ \A t : Is(n, t) => Is(n, t)'
<1>1. HasRow(n) => Live(rows'[n]) = Live(rows[n])
  <2>1. SUFFICES ASSUME HasRow(n)
                 PROVE  Live(rows'[n]) = Live(rows[n])
    OBVIOUS
  <2>2. rows[n] # None /\ rows'[n] # None
    BY <2>1 DEF NoteSame, HasRow
  <2>3. rows'[n].content = rows[n].content /\ rows'[n].life = rows[n].life
    BY <2>1 DEF NoteSame, SameSide
  <2> QED
    BY <2>2, <2>3 DEF Live, Side
<1>2. ASSUME NEW r, Copy(n, r)
      PROVE  Copy(n, r)'
  <2>1. HasRow(n)' <=> HasRow(n)
    BY DEF NoteSame
  <2> QED
    BY <1>1, <1>2, <2>1 DEF Copy
<1>3. ASSUME NEW t, Is(n, t)
      PROVE  Is(n, t)'
  BY <1>3 DEF Is, NoteSame, SameSide
<1> QED
  BY <1>2, <1>3 DEF NoteSame

LEMMA CopyNext ==
    ASSUME NEW n \in Note, CopyInv(n), NoteSame(n), changes \subseteq changes',
           Ahead(n) => Ahead(n)',
           \/ Unsynced(n)' \/ Copy(n, local'[n]) \/ Coming(n)'
           \/ local'[n] = local[n] /\ (InPage(n) => InPage(n)'),
           n \in DOMAIN page'.notes =>
              n \in DOMAIN page.notes /\ page'.notes[n] = page.notes[n],
           InPage(n)' => InPage(n) /\ cursor' = cursor,
           n \in DOMAIN accepted' =>
              \/ n \in DOMAIN accepted /\ sent'[n] = sent[n]
              \/ Is(n, sent'[n]),
           \A c \in Open' \union refused' : c.note = n =>
              \/ \E b \in Open \union refused : b.note = n /\ c.theirs = b.theirs
              \/ c.theirs.version = Version(n) => Copy(n, c.theirs),
           Stillborn(n)' => /\ Stillborn(n) \/ Version(n) = 0
                            /\ n \in DOMAIN sent' =>
                                  \/ step' = "prepare"
                                  \/ Stillborn(n) /\ n \in DOMAIN sent /\ step' = step
    PROVE  CopyInv(n)'
<1>1. /\ Version(n)' = Version(n)
      /\ \A r : Copy(n, r) => Copy(n, r)'
      /\ \A t : Is(n, t) => Is(n, t)'
  BY SameCopies
<1>2. CleanInv(n)'
  <2>1. CASE local'[n] = local[n] /\ (InPage(n) => InPage(n)')
    <3>1. PICK r : r = local[n]
      OBVIOUS
    <3>2. Unsynced(n)' <=> Unsynced(n)
      BY <2>1 DEF Unsynced, Has
    <3>3. Coming(n) => Coming(n)'
      BY <2>1 DEF Coming
    <3>4. Copy(n, local[n]) => Copy(n, local[n])'
      BY <1>1, <2>1, <3>1 DEF Copy
    <3> QED
      BY <3>2, <3>3, <3>4 DEF CopyInv, CleanInv
  <2>2. CASE Copy(n, local'[n])
    <3>1. PICK r : r = local'[n]
      OBVIOUS
    <3>2. Copy(n, r)'
      BY <1>1, <2>2, <3>1
    <3> QED
      BY <3>1, <3>2 DEF CleanInv, Copy
  <2> QED
    BY <2>1, <2>2 DEF CleanInv
<1>3. PulledInv(n)'
  <2>1. ASSUME n \in DOMAIN page'.notes
        PROVE  /\ Ahead(n)' \/ Is(n, page.notes[n])'
               /\ (page.notes[n].version = Version(n))' => Copy(n, page.notes[n])'
    <3>1. PICK t : t = page.notes[n] /\ t = page'.notes[n]
      BY <2>1
    <3>2. /\ Ahead(n) \/ Is(n, t)
          /\ t.version = Version(n) => Copy(n, t)
      BY <2>1, <3>1 DEF CopyInv, PulledInv
    <3>3. /\ Ahead(n)' \/ Is(n, t)'
          /\ t.version = Version(n)' => Copy(n, t)'
      BY <1>1, <3>2
    <3> QED
      BY <3>1, <3>3 DEF Is, Copy
  <2>2. InPage(n)' => LoggedAfter(n, cursor)'
    BY DEF CopyInv, PulledInv, LoggedAfter
  <2> QED
    BY <2>1, <2>2 DEF PulledInv
<1>4. TakenInv(n)'
  <2> SUFFICES ASSUME n \in DOMAIN accepted'
               PROVE  Ahead(n)' \/ Is(n, sent[n])'
    BY DEF TakenInv
  <2>1. PICK t : t = sent'[n]
    OBVIOUS
  <2>2. Ahead(n) \/ Is(n, t)
    BY <2>1 DEF CopyInv, TakenInv
  <2>3. Ahead(n)' \/ Is(n, t)'
    BY <1>1, <2>2
  <2> QED
    BY <2>1, <2>3 DEF Is
<1>5. TheirsInv(n)'
  <2> SUFFICES ASSUME NEW c \in Open' \union refused', c.note = n,
                      c.theirs.version = Version(n)'
               PROVE  Copy(n, c.theirs)'
    BY DEF TheirsInv
  <2>1. ASSUME NEW b \in Open \union refused, b.note = n, c.theirs = b.theirs
        PROVE  Copy(n, c.theirs)
    BY <1>1, <2>1 DEF CopyInv, TheirsInv
  <2>2. Copy(n, c.theirs)
    BY <1>1, <2>1
  <2> QED
    BY <1>1, <2>2
<1>6. StillbornInv(n)'
  BY <1>1 DEF CopyInv, StillbornInv
<1> QED
  BY <1>2, <1>3, <1>4, <1>5, <1>6 DEF CopyInv

LEMMA Bounds ==
    ASSUME PhoneInv
    PROVE  /\ lastRev \in Nat /\ cursor \in Nat /\ cursor <= lastRev
           /\ UpTo \in Nat /\ UpTo <= lastRev
           /\ page.revision \in Nat /\ page.revision <= lastRev
           /\ \A c \in changes : c.rev \in Nat
<1>1. AndroidTypeOK /\ ServerTypeOK
  BY DEF PhoneInv, AndroidTypeOK
<1>2. lastRev \in Nat /\ \A c \in changes : c.rev \in Nat
  BY <1>1 DEF ServerTypeOK, LogEntry
<1> QED
  BY <1>1, <1>2 DEF AndroidTypeOK, UpTo

(* What the phone has of the server is of a version it has reached. *)
LEMMA Reached ==
    ASSUME PhoneInv, NEW n \in Note
    PROVE  /\ Version(n) \in Nat
           /\ n \in DOMAIN page.notes =>
                 page.notes[n].version \in Nat /\ page.notes[n].version <= Version(n)
           /\ \A c \in Open \union refused : c.note = n =>
                 c.theirs.version \in Nat /\ c.theirs.version <= Version(n)
<1>1. AndroidTypeOK /\ NoteInv(n)
  BY DEF PhoneInv
<1>2. Version(n) \in Nat
  BY <1>1, RowFacts DEF AndroidTypeOK
<1>3. ASSUME n \in DOMAIN page.notes
      PROVE  page.notes[n].version \in Nat /\ page.notes[n].version <= Version(n)
  BY <1>1, <1>3, ConflictTypes DEF NoteInv, PageInv, Known, Seen
<1>4. ASSUME NEW c \in Open \union refused, c.note = n
      PROVE  c.theirs.version \in Nat /\ c.theirs.version <= Version(n)
  <2>1. c.theirs.version \in Nat
    BY <1>1, <1>4, ConflictTypes
  <2>2. Known(n, c.theirs)
    BY <1>1, <1>4 DEF NoteInv, ConflictInv, RefusedInv
  <2> QED
    BY <2>1, <2>2 DEF Known, Seen
<1> QED
  BY <1>2, <1>3, <1>4

(* A note that moves is logged past everything the phone has pulled. *)
LEMMA MovedCopies ==
    ASSUME PhoneInv, ServerTypeOK', NEW n \in Note, CopyInv(n), NoteMoved(n),
           changes \subseteq changes', UpTo' = UpTo, page' = page, cursor' = cursor,
           \A c \in Open' \union refused' : c.note = n => c \in Open \union refused,
           ~Stillborn(n)'
    PROVE  CopyInv(n)'
<1>1. PICK c \in changes' : c.note = n /\ c.rev > lastRev
  BY DEF NoteMoved
<1>2. c.rev \in Nat
  BY DEF ServerTypeOK, LogEntry
<1>3. Ahead(n)'
  BY <1>1, <1>2, Bounds DEF Ahead, LoggedAfter
<1>4. Version(n)' > Version(n) /\ Version(n)' \in Nat /\ Version(n) \in Nat
  BY Reached DEF NoteMoved
<1>5. CleanInv(n)'
  BY <1>3 DEF CleanInv, Coming
<1>6. PulledInv(n)'
  <2>1. n \in DOMAIN page.notes => page.notes[n].version # Version(n)'
    BY <1>4, Reached
  <2>2. InPage(n)' => LoggedAfter(n, cursor)'
    BY DEF CopyInv, PulledInv, LoggedAfter, InPage
  <2> QED
    BY <1>3, <2>1, <2>2 DEF PulledInv
<1>7. TakenInv(n)'
  BY <1>3 DEF TakenInv
<1>8. TheirsInv(n)'
  BY <1>4, Reached DEF TheirsInv
<1>9. StillbornInv(n)'
  BY DEF StillbornInv
<1> QED
  BY <1>5, <1>6, <1>7, <1>8, <1>9 DEF CopyInv

LEMMA BesideCopies ==
    ASSUME PhoneInv, CopiesInv, ServerTypeOK', Onward,
           \A n \in Note : Version(n) = 0 /\ Has(n) => NoteSame(n),
           UNCHANGED <<local, conflicts, cursor, userVars, syncVars>>
    PROVE  CopiesInv'
<1>1. /\ UNCHANGED <<local, conflicts, cursor, using, step, sent, accepted, refused, page>>
      /\ changes \subseteq changes'
  BY DEF userVars, syncVars, answerVars, Onward
<1>2. UpTo' = UpTo /\ Open' = Open
  BY <1>1 DEF UpTo, Open
<1>3. CursorInv' /\ AliveInv'
  BY <1>1 DEF CopiesInv, CursorInv, AliveInv
<1>4. ASSUME NEW n \in Note
      PROVE  CopyInv(n)'
  <2>1. CopyInv(n) /\ (Stillborn(n)' <=> Stillborn(n))
    BY <1>1 DEF CopiesInv, Stillborn, Has
  <2>2. CASE NoteSame(n)
    <3>1. Ahead(n) => Ahead(n)'
      BY <1>1, <1>2 DEF Ahead, LoggedAfter
    <3>2. InPage(n)' <=> InPage(n)
      BY <1>1 DEF InPage
    <3> QED
      BY <1>1, <1>2, <2>1, <2>2, <3>1, <3>2, CopyNext
  <2>3. CASE NoteMoved(n) /\ ~NoteSame(n)
    <3>1. ~Stillborn(n)'
      BY <2>1, <2>3 DEF CopyInv, StillbornInv, Stillborn
    <3> QED
      BY <1>1, <1>2, <2>1, <2>3, <3>1, MovedCopies
  <2> QED
    BY <2>2, <2>3 DEF Onward
<1> QED
  BY <1>3, <1>4 DEF CopiesInv

LEMMA EnvironmentCopies ==
    ASSUME PhoneInv, CopiesInv,
           \/ Retention \/ UNCHANGED androidVars
           \/ \E n \in Note, life \in Life, e \in Edit : OtherPushes(n, life, e)
    PROVE  CopiesInv'
<1>1. ServerInv /\ ServerTypeOK /\ used \subseteq Edit
  BY DEF PhoneInv, AndroidTypeOK
<1>2. CASE Retention
  <2>1. Onward /\ ServerTypeOK' /\ \A m \in Note : Version(m) = 0 => NoteSame(m)
    BY <1>1, <1>2, RetentionOnward DEF ServerInv
  <2> QED
    BY <1>2, <2>1, BesideCopies DEF Retention
<1>3. CASE UNCHANGED androidVars
  <2>1. UNCHANGED serverVars /\ dropped' = dropped
        /\ UNCHANGED <<local, conflicts, cursor, userVars, syncVars>>
    BY <1>3 DEF androidVars, historyVars
  <2>2. ServerTypeOK'
    BY <1>1, <2>1, SameStoreInv DEF ServerInv
  <2>3. Onward /\ \A m \in Note : NoteSame(m)
    BY <1>1, <2>1, SameIsOnward, SameStore
  <2> QED
    BY <2>1, <2>2, <2>3, BesideCopies
<1>4. ASSUME NEW n \in Note, NEW life \in Life, NEW e \in Edit, OtherPushes(n, life, e)
      PROVE  CopiesInv'
  <2>1. /\ Onward /\ ServerTypeOK'
        /\ \A m \in Note : Version(m) = 0 /\ Has(m) => NoteSame(m)
    BY <1>1, <1>4, OtherOnward DEF ServerInv
  <2> QED
    BY <1>4, <2>1, BesideCopies DEF OtherPushes
<1> QED
  BY <1>2, <1>3, <1>4

(***************************************************************************)
(* The user.                                                               *)
(***************************************************************************)
(* One note gets a record that is not marked as synced, or is a copy. *)
LEMMA PutCopies ==
    ASSUME PhoneInv, CopiesInv, UNCHANGED <<serverVars, cursor, syncVars>>,
           NEW n \in Note, NEW r, Put(n, r), AliveInv', Open' \subseteq Open,
           r = None \/ r.status = "synced" => Copy(n, r),
           r # None /\ r.base = 0 /\ r.life = "deleted" =>
              Version(n) = 0 /\ n \notin DOMAIN sent
    PROVE  CopiesInv'
<1>1. /\ UNCHANGED <<serverVars, changes, cursor, step, sent, accepted, refused, page>>
      /\ local' = [local EXCEPT ![n] = r] /\ local \in [Note -> LocalNote \union {None}]
  BY DEF syncVars, answerVars, Put, serverVars, PhoneInv, AndroidTypeOK
<1>2. UpTo' = UpTo /\ CursorInv'
  BY <1>1 DEF UpTo, CursorInv, CopiesInv
<1>3. ASSUME NEW m \in Note
      PROVE  CopyInv(m)'
  <2>1. /\ CopyInv(m) /\ NoteSame(m) /\ (Ahead(m)' <=> Ahead(m))
        /\ (InPage(m)' <=> InPage(m))
    BY <1>1, <1>2, SameStore DEF CopiesInv, Ahead, LoggedAfter, InPage
  <2>2. CASE m = n
    <3>1. local'[m] = r
      BY <1>1, <2>2
    <3>2. Unsynced(m)' \/ Copy(m, local'[m])
      BY <2>2, <3>1 DEF Unsynced, Has
    <3>3. Stillborn(m)' => Version(m) = 0 /\ m \notin DOMAIN sent'
      BY <1>1, <2>2, <3>1 DEF Stillborn, Has
    <3> QED
      BY <1>1, <2>1, <3>2, <3>3, CopyNext
  <2>3. CASE m # n
    <3>1. local'[m] = local[m]
      BY <1>1, <2>3
    <3>2. Stillborn(m)' <=> Stillborn(m)
      BY <3>1 DEF Stillborn, Has
    <3> QED
      BY <1>1, <2>1, <3>1, <3>2, CopyNext
  <2> QED
    BY <2>2, <2>3
<1> QED
  BY <1>2, <1>3 DEF CopiesInv

(* Nothing of the notes, the sync or the server changes. *)
LEMMA StillCopies ==
    ASSUME PhoneInv, CopiesInv, UNCHANGED <<serverVars, cursor, local>>,
           UNCHANGED <<step, sent, accepted, refused, page>>,
           Open' \subseteq Open, AliveInv'
    PROVE  CopiesInv'
<1>1. changes' = changes /\ UpTo' = UpTo /\ CursorInv'
  BY DEF serverVars, UpTo, CursorInv, CopiesInv
<1>2. ASSUME NEW m \in Note
      PROVE  CopyInv(m)'
  <2>1. /\ CopyInv(m) /\ NoteSame(m) /\ (Ahead(m)' <=> Ahead(m))
        /\ (InPage(m)' <=> InPage(m)) /\ (Stillborn(m)' <=> Stillborn(m))
    BY <1>1, SameStore DEF CopiesInv, Ahead, LoggedAfter, InPage, Stillborn, Has
  <2> QED
    BY <1>1, <2>1, CopyNext
<1> QED
  BY <1>1, <1>2 DEF CopiesInv

LEMMA BeginCopies ==
    ASSUME PhoneInv, CopiesInv, NEW n \in Note, NEW op, NEW lives,
           "deleted" \notin lives, Begin(op, n, lives)
    PROVE  CopiesInv'
<1>1. /\ local[n].life \in lives
      /\ using' = [op |-> op, note |-> n, seen |-> local[n]]
      /\ UNCHANGED <<serverVars, cursor, local, conflicts, syncVars>>
  BY DEF Begin
<1>2. AliveInv' /\ Open' = Open
  BY <1>1 DEF AliveInv, Open
<1> QED
  BY <1>1, <1>2, StillCopies DEF syncVars, answerVars

LEMMA CreateCopies ==
    ASSUME PhoneInv, CopiesInv, NEW n \in Note, NEW e \in Edit, CreateBlankNote(n, e)
    PROVE  CopiesInv'
<1>1. PICK r : r = NewNote({e}, "active")
  OBVIOUS
<1>2. r # None /\ r.status = "pending" /\ r.life = "active"
  <2>1. {e} \in Content /\ Has(n)'
    BY <1>1 DEF CreateBlankNote, Fresh, Put, PhoneInv, AndroidTypeOK, Has, NewNote,
                LocalNote, Status
  <2>2. local'[n] = r
    BY <1>1 DEF CreateBlankNote, Put, PhoneInv, AndroidTypeOK
  <2> QED
    BY <1>1, <2>1, <2>2 DEF Has, NewNote
<1>3. /\ Put(n, r) /\ UNCHANGED <<serverVars, cursor, syncVars>>
      /\ conflicts' = conflicts /\ using' = using
  BY <1>1 DEF CreateBlankNote, userVars
<1>4. AliveInv' /\ Open' = Open
  BY <1>3 DEF AliveInv, Open, CopiesInv
<1> QED
  BY <1>2, <1>3, <1>4, PutCopies

LEMMA FinishCopies ==
    ASSUME Closed, PhoneInv, CopiesInv, NEW e \in Edit, Finish(e)
    PROVE  CopiesInv'
<1>0. AndroidTypeOK /\ ServerTypeOK /\ using # None
  BY DEF PhoneInv, AndroidTypeOK, Finish
<1>1. PICK n \in Note, u \in LocalNote, op \in UserOp :
         n = using.note /\ u = using.seen /\ op = using.op
  BY <1>0, UserTypes
<1>2. PICK r : r = IF op = "delete" /\ u.base = 0 THEN None ELSE Edited(u, op, e)
  OBVIOUS
<1>3. /\ op = "delete" /\ u.base = 0 => Version(n) = 0
      /\ Put(n, r) /\ using' = None /\ conflicts' = conflicts
      /\ UNCHANGED <<serverVars, cursor, syncVars>>
  BY <1>1, <1>2 DEF Finish, Closed
<1>4. AliveInv' /\ Open' = Open
  BY <1>3 DEF AliveInv, Open
<1>5. CASE op = "delete" /\ u.base = 0
  <2>1. r = None /\ ~HasRow(n)
    BY <1>0, <1>2, <1>3, <1>5, RowFacts
  <2> QED
    BY <1>3, <1>4, <2>1, PutCopies, GoneIsCopy
<1>6. CASE ~(op = "delete" /\ u.base = 0)
  <2>1. r = Edited(u, op, e)
    BY <1>2, <1>6
  <2>2. /\ r \in LocalNote /\ r.status = "pending" /\ r.base = u.base
        /\ r.life = LifeAfter(op, u)
    BY <2>1, EditedFacts
  <2>3. r # None
    BY <2>2
  <2>4. u.life # "deleted"
    BY <1>0, <1>1 DEF CopiesInv, AliveInv
  <2>5. r.base = 0 => r.life # "deleted"
    BY <1>6, <2>2, <2>4 DEF LifeAfter, UserOp
  <2> QED
    BY <1>3, <1>4, <2>2, <2>3, <2>5, PutCopies
<1> QED
  BY <1>5, <1>6

LEMMA PutChosenCopies ==
    ASSUME Closed, PhoneInv, CopiesInv, PutChosen
    PROVE  CopiesInv'
<1>0. AndroidTypeOK /\ resolving # None
  BY DEF PhoneInv, PutChosen
<1>1. PICK c \in Open, ch \in Choice : c = resolving.of /\ ch = resolving.choice
  BY <1>0, UserTypes
<1>2. PICK n \in Note, t \in Remote : n = c.note /\ t = c.theirs
  BY <1>0, ConflictTypes
<1>3. PICK r : r = ChosenRecord(c, ch)
  OBVIOUS
<1>4. /\ InTime(c, ch) /\ Put(n, r) /\ conflicts' = conflicts /\ using' = using
      /\ UNCHANGED <<serverVars, cursor, syncVars>>
  BY <1>1, <1>2, <1>3 DEF PutChosen
<1>5. AliveInv' /\ Open' = Open
  BY <1>4 DEF AliveInv, Open, CopiesInv
<1>6. c \in Conflict /\ Known(n, t) /\ t.version \in Nat
  BY <1>0, <1>2, ConflictTypes DEF PhoneInv, NoteInv, ConflictInv
<1>7. CASE ch = "keep-local"
  <2>1. r # None /\ r.status = "pending" /\ r.base = t.version
    BY <1>2, <1>3, <1>6, <1>7, ChosenFacts
  <2>2. r.base # 0
    BY <1>6, <2>1 DEF Known
  <2> QED
    BY <1>4, <1>5, <2>1, <2>2, PutCopies
<1>8. CASE ch # "keep-local"
  <2>1. r = Synced(t)
    BY <1>2, <1>3, <1>6, <1>8, ChosenFacts
  <2>2. r # None /\ r.base = t.version
    BY <2>1, SyncedFacts
  <2>3. r.base # 0
    BY <1>6, <2>2 DEF Known
  <2>4. t.version = Version(n)
    BY <1>2, <1>4, <1>8 DEF InTime, Closed
  <2>5. Copy(n, t)
    BY <1>2, <2>4 DEF CopiesInv, CopyInv, TheirsInv
  <2>6. Copy(n, r)
    BY <2>1, <2>5, CopyOfSynced
  <2> QED
    BY <1>4, <1>5, <2>2, <2>3, <2>6, PutCopies
<1> QED
  BY <1>7, <1>8

LEMMA PutCopyCopies ==
    ASSUME PhoneInv, CopiesInv, NEW n \in Note, PutCopy(n)
    PROVE  CopiesInv'
<1>0. AndroidTypeOK /\ resolving # None
  BY DEF PhoneInv, PutCopy
<1>1. PICK s \in Record : s = resolving.of.mine
  BY <1>0, UserTypes, ConflictTypes
<1>2. PICK r : r = NewNote(s.content, s.life)
  OBVIOUS
<1>3. /\ Put(n, r) /\ conflicts' = conflicts /\ using' = using
      /\ UNCHANGED <<serverVars, cursor, syncVars>>
      /\ Version(n) = 0 /\ n \notin DOMAIN sent
  BY <1>1, <1>2 DEF PutCopy, Fresh
<1>4. r # None /\ r.status = "pending"
  <2>1. r \in LocalNote
    BY <1>1, <1>2 DEF NewNote, LocalNote, Record, Status
  <2> QED
    BY <1>2, <2>1 DEF NewNote
<1>5. AliveInv' /\ Open' = Open
  BY <1>3 DEF AliveInv, Open, CopiesInv
<1> QED
  BY <1>3, <1>4, <1>5, PutCopies

LEMMA UserCopies ==
    ASSUME Closed, PhoneInv, CopiesInv, UserStep
    PROVE  CopiesInv'
<1>1. ASSUME NEW n \in Note, NEW e \in Edit, CreateBlankNote(n, e)
      PROVE  CopiesInv'
  BY <1>1, CreateCopies
<1>2. ASSUME NEW n \in Note, \/ UpdateNoteContent(n) \/ MoveNoteToTrash(n)
                             \/ RestoreNote(n) \/ DeleteNotePermanently(n)
      PROVE  CopiesInv'
  <2>1. /\ "deleted" \notin {"active", "trashed"} /\ "deleted" \notin {"active"}
        /\ "deleted" \notin {"trashed"}
    OBVIOUS
  <2>2. \A op, lives : "deleted" \notin lives /\ Begin(op, n, lives) => CopiesInv'
    BY BeginCopies
  <2> QED
    BY <1>2, <2>1, <2>2 DEF UpdateNoteContent, MoveNoteToTrash, RestoreNote,
                            DeleteNotePermanently
<1>3. ASSUME NEW e \in Edit, Finish(e)
      PROVE  CopiesInv'
  BY <1>3, FinishCopies
<1>4. ASSUME NEW choice \in Choice, ChooseSide(choice)
      PROVE  CopiesInv'
  <2>1. UNCHANGED <<serverVars, local, conflicts, cursor, using, syncVars>>
    BY <1>4 DEF ChooseSide
  <2>2. AliveInv' /\ Open' = Open
    BY <2>1 DEF AliveInv, Open, CopiesInv
  <2> QED
    BY <2>1, <2>2, StillCopies DEF syncVars, answerVars
<1>5. CASE PutChosen
  BY <1>5, PutChosenCopies
<1>6. CASE MarkResolved
  <2>1. /\ conflicts' = Tail(conflicts) /\ conflicts \in Seq(Conflict) /\ conflicts # <<>>
        /\ UNCHANGED <<serverVars, local, cursor, using, syncVars>>
    BY <1>6 DEF MarkResolved, PhoneInv, AndroidTypeOK
  <2>2. \A i \in DOMAIN conflicts' :
           i + 1 \in DOMAIN conflicts /\ conflicts'[i] = conflicts[i + 1]
    BY <2>1
  <2>3. AliveInv' /\ Open' \subseteq Open
    BY <2>1, <2>2 DEF AliveInv, Open, CopiesInv
  <2> QED
    BY <2>1, <2>3, StillCopies DEF syncVars, answerVars
<1>7. ASSUME NEW copy \in Note, PutCopy(copy)
      PROVE  CopiesInv'
  BY <1>7, PutCopyCopies
<1> QED
  BY <1>1, <1>2, <1>3, <1>4, <1>5, <1>6, <1>7 DEF UserStep

(***************************************************************************)
(* The sync.                                                               *)
(***************************************************************************)
(* The sync settles one note: it gets a record that is not marked as synced,
   that is a copy, or whose next change is still to be pulled. *)
LEMMA OneCopies ==
    ASSUME PhoneInv, CopiesInv, UNCHANGED <<serverVars, cursor, using, step, sent>>,
           NEW n \in Note, NEW r, local' = [local EXCEPT ![n] = r],
           accepted' = accepted \/ accepted' = Without(accepted, n),
           page'.revision = page.revision,
           page'.notes = page.notes \/ page'.notes = Without(page.notes, n),
           page'.deletes \subseteq page.deletes,
           \A m \in Note \ {n} : m \in page.deletes => m \in page'.deletes,
           \A c \in Open' \union refused' :
              \/ \E b \in Open \union refused : b.note = c.note /\ c.theirs = b.theirs
              \/ c.note = n /\ (c.theirs.version = Version(n) => Copy(n, c.theirs)),
           \/ r # None /\ r.status # "synced"
           \/ Copy(n, r) \/ Ahead(n)
           \/ r = local[n] /\ (InPage(n) => InPage(n)'),
           r # None /\ r.base = 0 /\ r.life = "deleted" => Stillborn(n)
    PROVE  CopiesInv'
<1>1. changes' = changes /\ local \in [Note -> LocalNote \union {None}] /\ local'[n] = r
  BY DEF serverVars, PhoneInv, AndroidTypeOK
<1>2. UpTo' = UpTo /\ CursorInv' /\ AliveInv'
  BY DEF UpTo, CursorInv, AliveInv, CopiesInv
<1>3. ASSUME NEW m \in Note
      PROVE  /\ CopyInv(m) /\ NoteSame(m) /\ (Ahead(m)' <=> Ahead(m))
             /\ m \in DOMAIN page'.notes =>
                   m \in DOMAIN page.notes /\ page'.notes[m] = page.notes[m]
             /\ m \in DOMAIN accepted' => m \in DOMAIN accepted /\ sent'[m] = sent[m]
             /\ InPage(m)' => InPage(m) /\ cursor' = cursor
             /\ m # n => (InPage(m) => InPage(m)')
  <2>1. CopyInv(m) /\ NoteSame(m) /\ (Ahead(m)' <=> Ahead(m))
    BY <1>1, <1>2, SameStore DEF CopiesInv, Ahead, LoggedAfter
  <2>2. /\ m \in DOMAIN page'.notes =>
              m \in DOMAIN page.notes /\ page'.notes[m] = page.notes[m]
        /\ m # n /\ m \in DOMAIN page.notes => m \in DOMAIN page'.notes
    BY DEF Without
  <2>3. m \in DOMAIN accepted' => m \in DOMAIN accepted
    BY DEF Without
  <2> QED
    BY <2>1, <2>2, <2>3 DEF InPage
<1>4. CopyInv(n)'
  <2>1. Unsynced(n)' \/ Copy(n, local'[n]) \/ Coming(n)'
        \/ (local'[n] = local[n] /\ (InPage(n) => InPage(n)'))
    BY <1>1, <1>3 DEF Unsynced, Has, Coming
  <2>2. Stillborn(n)' => Stillborn(n)
    BY <1>1 DEF Stillborn, Has
  <2> QED
    BY <1>1, <1>3, <2>1, <2>2, CopyNext
<1>5. ASSUME NEW m \in Note \ {n}
      PROVE  CopyInv(m)'
  <2>1. local'[m] = local[m]
    BY <1>1
  <2>2. Stillborn(m)' <=> Stillborn(m)
    BY <2>1 DEF Stillborn, Has
  <2> QED
    BY <1>1, <1>3, <2>1, <2>2, CopyNext
<1> QED
  BY <1>2, <1>4, <1>5 DEF CopiesInv

LEMMA MarkCopies ==
    ASSUME PhoneInv, CopiesInv, MarkAccepted
    PROVE  CopiesInv'
<1>0. AndroidTypeOK /\ Phase
  BY DEF PhoneInv
<1>1. PICK n \in Note : n = reading.note
  BY <1>0, UserTypes DEF MarkAccepted, At
<1>2. reading.seen = local[n] /\ n \in DOMAIN accepted
  BY <1>0, <1>1 DEF MarkAccepted, At, Phase
<1>3. /\ IF local[n] = None THEN UNCHANGED local ELSE Put(n, Marked(n, local[n]))
      /\ accepted' = Without(accepted, n)
      /\ UNCHANGED <<serverVars, conflicts, cursor, using, step, sent, refused, page>>
  BY <1>1, <1>2 DEF MarkAccepted, userVars
<1>4. Open' = Open
  BY <1>3 DEF Open
<1>5. CASE local[n] = None
  <2>1. local' = [local EXCEPT ![n] = local[n]] /\ (InPage(n) => InPage(n)')
    BY <1>0, <1>3, <1>5 DEF InPage, AndroidTypeOK
  <2> QED
    BY <1>3, <1>4, <1>5, <2>1, OneCopies
<1>6. CASE local[n] # None
  <2>1. PICK q \in LocalNote : q = local[n]
    BY <1>0, <1>6, LocalTypes DEF Has
  <2>2. PICK a \in Nat : a = accepted[n] /\ a >= 1
    BY <1>0, <1>2, LocalTypes
  <2>3. PICK r \in LocalNote : r = Marked(n, q)
    BY <2>1, <2>2, MarkedFacts
  <2>4. /\ r # None /\ r.base = a /\ r.content = q.content /\ r.life = q.life
        /\ r.status = "synced" => SameSide(q, sent[n])
    BY <2>2, <2>3, MarkedFacts
  <2>5. r.status = "synced" => Ahead(n) \/ Copy(n, r)
    <3> SUFFICES ASSUME r.status = "synced", ~Ahead(n)
                 PROVE  Copy(n, r)
      OBVIOUS
    <3>1. HasRow(n) /\ SameSide(sent[n], rows[n])
      BY <1>2 DEF CopiesInv, CopyInv, TakenInv, Is
    <3>2. SameSide(r, rows[n])
      BY <2>4, <3>1 DEF SameSide
    <3> QED
      BY <2>4, <3>1, <3>2, SideIsCopy
  <2>6. local' = [local EXCEPT ![n] = r]
    BY <1>3, <1>6, <2>1, <2>3 DEF Put
  <2>7. r.base # 0
    BY <2>2, <2>4
  <2> QED
    BY <1>3, <1>4, <2>4, <2>5, <2>6, <2>7, OneCopies
<1> QED
  BY <1>5, <1>6

LEMMA AbsorbCopies ==
    ASSUME PhoneInv, CopiesInv, Absorb
    PROVE  CopiesInv'
<1>0. AndroidTypeOK /\ Phase
  BY DEF PhoneInv
<1>1. PICK n \in Note : \E c \in refused :
         /\ c.note = n /\ refused' = refused \ {c}
         /\ local[n] = None => UNCHANGED local
         /\ local[n] # None => Put(n, Absorbed(local[n], c.theirs.version))
  BY AbsorbsOne
<1>2. PICK c \in refused :
         /\ c.note = n /\ refused' = refused \ {c}
         /\ local[n] = None => UNCHANGED local
         /\ local[n] # None => Put(n, Absorbed(local[n], c.theirs.version))
  BY <1>1
<1>3. UNCHANGED <<serverVars, conflicts, cursor, using, step, sent, accepted, page>>
  BY DEF Absorb, userVars
<1>4. Open' = Open /\ refused' \subseteq refused
  BY <1>2, <1>3 DEF Open
<1>5. CASE local[n] = None
  <2>1. local' = [local EXCEPT ![n] = local[n]] /\ (InPage(n) => InPage(n)')
    BY <1>0, <1>2, <1>3, <1>5 DEF InPage, AndroidTypeOK
  <2> QED
    BY <1>3, <1>4, <1>5, <2>1, OneCopies
<1>6. CASE local[n] # None
  <2>1. PICK q \in LocalNote : q = local[n]
    BY <1>0, <1>6, LocalTypes DEF Has
  <2>2. PICK a \in Nat : a = c.theirs.version /\ a >= 1
    <3>1. Known(n, c.theirs) /\ c.theirs.version \in Nat
      BY <1>0, <1>2, ConflictTypes DEF PhoneInv, NoteInv, RefusedInv
    <3> QED
      BY <3>1 DEF Known
  <2>3. PICK r \in LocalNote : r = Absorbed(q, a)
    BY <2>1, AbsorbedFacts
  <2>4. r # None /\ r.status = "pending" /\ r.base >= a /\ r.base \in Nat
    BY <2>3, AbsorbedFacts DEF LocalNote
  <2>5. local' = [local EXCEPT ![n] = r]
    BY <1>2, <1>6, <2>1, <2>2, <2>3 DEF Put
  <2>6. r.base # 0
    BY <2>2, <2>4
  <2> QED
    BY <1>3, <1>4, <2>4, <2>5, <2>6, OneCopies
<1> QED
  BY <1>5, <1>6

(* A saved conflict keeps its other side. *)
LEMMA SavedTheirs ==
    ASSUME AndroidTypeOK, NEW c \in Conflict, SaveNoteConflict(c)
    PROVE  /\ \A b \in Open' : b \in Open \/ (b.note = c.note /\ b.theirs = c.theirs)
           /\ ~Has(c.note) => local' = local
           /\ Has(c.note) => \E r \in LocalNote :
                 /\ local' = [local EXCEPT ![c.note] = r] /\ r.status = "conflict"
                 /\ r.base = local[c.note].base /\ r.life = local[c.note].life
<1>1. conflicts \in Seq(Conflict) /\ c.note \in Note
  BY DEF AndroidTypeOK, Conflict
<1>2. PICK d \in Conflict : /\ conflicts' = Append(conflicts, d)
                            /\ d.note = c.note /\ d.theirs = c.theirs
  <2>1. CASE Has(c.note)
    <3>1. PICK x \in Content, l \in Life :
             x = local[c.note].content /\ l = local[c.note].life
      BY <1>1, <2>1, LocalTypes
    <3>2. Side(local[c.note]) \in Record
      BY <3>1 DEF Side, Record
    <3>3. PICK m \in Record : m = Side(local[c.note])
      BY <3>2
    <3>4. [c EXCEPT !.mine = m] \in Conflict
      BY DEF Conflict
    <3>5. [c EXCEPT !.mine = m].note = c.note /\ [c EXCEPT !.mine = m].theirs = c.theirs
      BY DEF Conflict
    <3>6. conflicts' = Append(conflicts, [c EXCEPT !.mine = m])
      BY <2>1, <3>3 DEF SaveNoteConflict
    <3> QED
      BY <3>4, <3>5, <3>6
  <2>2. CASE ~Has(c.note)
    BY <2>2 DEF SaveNoteConflict
  <2> QED
    BY <2>1, <2>2
<1>3. ASSUME NEW b \in Open'
      PROVE  b \in Open \/ b = d
  <2>1. PICK i \in DOMAIN conflicts' : b = conflicts'[i]
    BY <1>3 DEF Open
  <2>2. (i \in DOMAIN conflicts /\ conflicts'[i] = conflicts[i]) \/ conflicts'[i] = d
    BY <1>1, <1>2, <2>1
  <2> QED
    BY <2>1, <2>2 DEF Open
<1>4. ASSUME Has(c.note)
      PROVE  \E r \in LocalNote :
                /\ local' = [local EXCEPT ![c.note] = r] /\ r.status = "conflict"
                /\ r.base = local[c.note].base /\ r.life = local[c.note].life
  <2>1. PICK q \in LocalNote : q = local[c.note]
    BY <1>1, <1>4, LocalTypes
  <2>2. PICK r : r = [q EXCEPT !.status = "conflict"]
    OBVIOUS
  <2>3. "conflict" \in Status
    BY DEF Status
  <2>4. r \in LocalNote /\ r.status = "conflict" /\ r.base = q.base /\ r.life = q.life
    BY <2>2, <2>3 DEF LocalNote
  <2>5. local' = [local EXCEPT ![c.note] = r]
    BY <1>4, <2>1, <2>2 DEF SaveNoteConflict
  <2> QED
    BY <2>1, <2>4, <2>5
<1>5. ~Has(c.note) => local' = local
  BY DEF SaveNoteConflict
<1> QED
  BY <1>2, <1>3, <1>4, <1>5

LEMMA RefusedCopies ==
    ASSUME PhoneInv, CopiesInv, SaveRefused
    PROVE  CopiesInv'
<1>0. AndroidTypeOK
  BY DEF PhoneInv
<1>1. PICK c \in refused : SaveNoteConflict(c) /\ refused' = refused \ {c}
  BY DEF SaveRefused
<1>2. UNCHANGED <<serverVars, cursor, using, step, sent, accepted, page>>
  BY DEF SaveRefused, userVars
<1>3. c \in Conflict /\ c.note \in Note
  BY <1>0, ConflictTypes
<1>4. PICK n \in Note : n = c.note
  BY <1>3
<1>5. \A b \in Open' \union refused' :
         \E a \in Open \union refused : a.note = b.note /\ b.theirs = a.theirs
  <2>1. \A b \in Open' : b \in Open \/ (b.note = c.note /\ b.theirs = c.theirs)
    BY <1>0, <1>1, <1>3, SavedTheirs
  <2> QED
    BY <1>1, <2>1
<1>6. InPage(n) => InPage(n)'
  BY <1>2 DEF InPage
<1>7. CASE ~Has(n)
  <2>1. local' = [local EXCEPT ![n] = local[n]] /\ local[n] = None
    BY <1>0, <1>1, <1>3, <1>4, <1>7, SavedTheirs DEF AndroidTypeOK, Has
  <2> QED
    BY <1>2, <1>5, <1>6, <2>1, OneCopies
<1>8. CASE Has(n)
  <2>1. PICK r \in LocalNote : /\ local' = [local EXCEPT ![n] = r] /\ r.status = "conflict"
                               /\ r.base = local[n].base /\ r.life = local[n].life
    BY <1>0, <1>1, <1>3, <1>4, <1>8, SavedTheirs
  <2>2. r # None
    BY <2>1
  <2>3. r.base = 0 /\ r.life = "deleted" => Stillborn(n)
    BY <1>8, <2>1 DEF Stillborn
  <2> QED
    BY <1>2, <1>5, <2>1, <2>2, <2>3, OneCopies
<1> QED
  BY <1>7, <1>8

LEMMA DeletedCopies ==
    ASSUME PhoneInv, CopiesInv, ApplyRemoteDelete
    PROVE  CopiesInv'
<1>0. AndroidTypeOK /\ Phase
  BY DEF PhoneInv
<1>1. PICK n \in Note : n = reading.note
  BY <1>0, UserTypes DEF ApplyRemoteDelete, At
<1>2. reading.seen = local[n] /\ n \in page.deletes
  BY <1>0, <1>1 DEF ApplyRemoteDelete, At, Phase
<1>3. /\ IF local[n] # None /\ local[n].status = "synced"
         THEN Put(n, None) ELSE UNCHANGED local
      /\ page' = [page EXCEPT !.deletes = @ \ {n}]
      /\ UNCHANGED <<serverVars, conflicts, cursor, using, step, sent, accepted, refused>>
  BY <1>1, <1>2 DEF ApplyRemoteDelete, answerVars, userVars
<1>4. /\ page'.revision = page.revision /\ page'.notes = page.notes
      /\ page'.deletes = page.deletes \ {n}
  <2>1. DOMAIN page = {"notes", "deletes", "revision"}
    BY <1>0, NothingFacts DEF AndroidTypeOK
  <2> QED
    BY <1>3, <2>1
<1>5. Open' = Open /\ ~HasRow(n)
  BY <1>2, <1>3 DEF Open, PhoneInv, NoteInv, PageInv
<1>6. PICK r : /\ local' = [local EXCEPT ![n] = r]
               /\ (r = None \/ (r = local[n] /\ r.status # "synced"))
  <2>1. CASE local[n] # None /\ local[n].status = "synced"
    BY <1>3, <2>1 DEF Put
  <2>2. CASE ~(local[n] # None /\ local[n].status = "synced")
    <3>1. local' = [local EXCEPT ![n] = local[n]]
      BY <1>0, <1>3, <2>2 DEF AndroidTypeOK
    <3>2. local[n] = None \/ local[n].status # "synced"
      BY <2>2
    <3> QED
      BY <3>1, <3>2
  <2> QED
    BY <2>1, <2>2
<1>7. r = None => Copy(n, r)
  BY <1>5, GoneIsCopy
<1>8. r # None /\ r.base = 0 /\ r.life = "deleted" => Stillborn(n)
  BY <1>6 DEF Stillborn, Has
<1> QED
  BY <1>3, <1>4, <1>5, <1>6, <1>7, <1>8, OneCopies

LEMMA MergeCopies ==
    ASSUME PhoneInv, CopiesInv, MergeRemoteNote
    PROVE  CopiesInv'
<1>0. AndroidTypeOK /\ Phase
  BY DEF PhoneInv
<1>1. PICK n \in Note : n = reading.note
  BY <1>0, UserTypes DEF MergeRemoteNote, At
<1>2. reading.seen = local[n] /\ n \in DOMAIN page.notes
  BY <1>0, <1>1 DEF MergeRemoteNote, At, Phase
<1>3. PICK t \in Remote : t = page.notes[n]
  BY <1>0, <1>2, ConflictTypes
<1>4. /\ \/ MergeClean(n, local[n], t) \/ MergeOwn(n, local[n], t)
         \/ MergeDiverged(n, local[n], t) \/ MergeLater(n, local[n], t)
      /\ page' = [page EXCEPT !.notes = Without(@, n)]
      /\ UNCHANGED <<serverVars, cursor, using, step, sent, accepted, refused>>
  BY <1>1, <1>2, <1>3 DEF MergeRemoteNote, answerVars, userVars
<1>5. /\ page'.revision = page.revision /\ page'.notes = Without(page.notes, n)
      /\ page'.deletes = page.deletes
  <2>1. DOMAIN page = {"notes", "deletes", "revision"}
    BY <1>0, NothingFacts DEF AndroidTypeOK
  <2> QED
    BY <1>4, <2>1
<1>6. /\ Ahead(n) \/ Is(n, t)
      /\ t.version = Version(n) => Copy(n, t)
      /\ t.version \in Nat /\ t.version >= 1
  <2>1. CopyInv(n) /\ NoteInv(n)
    BY DEF CopiesInv, PhoneInv
  <2>2. Known(n, t) /\ t.version \in Nat
    BY <1>2, <1>3, <2>1 DEF NoteInv, PageInv, Remote
  <2> QED
    BY <1>2, <1>3, <2>1, <2>2 DEF CopyInv, PulledInv, Known
<1>7. CASE MergeClean(n, local[n], t)
  <2>1. local' = [local EXCEPT ![n] = Synced(t)] /\ conflicts' = conflicts
    BY <1>7 DEF MergeClean, Put
  <2>2. PICK r : r = Synced(t)
    OBVIOUS
  <2>3. r # None /\ r.base = t.version
    BY <2>2, SyncedFacts
  <2>4. Ahead(n) \/ Copy(n, r)
    <3>1. Is(n, t) => Copy(n, t)
      <4>1. t # None
        BY SyncedFacts
      <4> QED
        BY <4>1, SideIsCopy DEF Is
    <3>2. Copy(n, t) => Copy(n, r)
      BY <2>2, CopyOfSynced
    <3> QED
      BY <1>6, <3>1, <3>2
  <2>5. r.base # 0
    BY <1>6, <2>3
  <2>6. Open' = Open
    BY <2>1 DEF Open
  <2> QED
    BY <1>4, <1>5, <2>1, <2>2, <2>4, <2>5, <2>6, OneCopies
<1>8. CASE MergeOwn(n, local[n], t)
  <2>1. /\ local[n] # None /\ local[n].status = "pending" /\ conflicts' = conflicts
        /\ IF t.version > local[n].base
           THEN local' = [local EXCEPT ![n] = [local[n] EXCEPT !.base = t.version]]
           ELSE local' = local
    BY <1>8 DEF MergeOwn, Diverged, Put
  <2>2. PICK q \in LocalNote : q = local[n]
    BY <1>0, <2>1, LocalTypes DEF Has
  <2>3. \E r \in LocalNote : /\ local' = [local EXCEPT ![n] = r] /\ r.status = "pending"
                             /\ r.base = t.version \/ r = q
    <3>1. CASE t.version > local[n].base
      <4>1. PICK r : r = [q EXCEPT !.base = t.version]
        OBVIOUS
      <4>2. r \in LocalNote /\ r.status = q.status /\ r.base = t.version
        BY <1>6, <4>1 DEF LocalNote
      <4> QED
        BY <2>1, <2>2, <3>1, <4>1, <4>2
    <3>2. CASE ~(t.version > local[n].base)
      <4>1. local' = [local EXCEPT ![n] = q]
        BY <1>0, <2>1, <2>2, <3>2 DEF AndroidTypeOK
      <4> QED
        BY <2>1, <2>2, <4>1
    <3> QED
      BY <3>1, <3>2
  <2>4. PICK r \in LocalNote : /\ local' = [local EXCEPT ![n] = r] /\ r.status = "pending"
                               /\ r.base = t.version \/ r = q
    BY <2>3
  <2>5. r # None
    BY <2>4
  <2>6. r.base = 0 /\ r.life = "deleted" => Stillborn(n)
    BY <1>6, <2>1, <2>2, <2>4 DEF Stillborn, Has
  <2>7. Open' = Open
    BY <2>1 DEF Open
  <2> QED
    BY <1>4, <1>5, <2>4, <2>5, <2>6, <2>7, OneCopies
<1>9. CASE MergeDiverged(n, local[n], t)
  <2>1. /\ local[n] # None
        /\ SaveNoteConflict([note |-> n, reason |-> "remote_changed",
                             mine |-> Side(local[n]), theirs |-> t])
    BY <1>9 DEF MergeDiverged
  <2>2. Has(n)
    BY <2>1 DEF Has
  <2>3. PICK c \in Conflict : c.note = n /\ c.theirs = t /\ SaveNoteConflict(c)
    <3>1. Side(local[n]) \in Record
      BY <1>0, <2>2, LocalTypes DEF Side, Record
    <3>2. [note |-> n, reason |-> "remote_changed", mine |-> Side(local[n]),
           theirs |-> t] \in Conflict
      BY <3>1 DEF Conflict
    <3> QED
      BY <2>1, <3>2
  <2>4. \A b \in Open' : b \in Open \/ (b.note = n /\ b.theirs = t)
    BY <1>0, <2>3, SavedTheirs
  <2>5. PICK r \in LocalNote : /\ local' = [local EXCEPT ![n] = r] /\ r.status = "conflict"
                               /\ r.base = local[n].base /\ r.life = local[n].life
    BY <1>0, <2>2, <2>3, SavedTheirs
  <2>6. r # None
    BY <2>5
  <2>7. r.base = 0 /\ r.life = "deleted" => Stillborn(n)
    BY <2>2, <2>5 DEF Stillborn
  <2>8. \A b \in Open' \union refused' :
           \/ \E a \in Open \union refused : a.note = b.note /\ b.theirs = a.theirs
           \/ b.note = n /\ (b.theirs.version = Version(n) => Copy(n, b.theirs))
    BY <1>4, <1>6, <2>4
  <2> QED
    BY <1>4, <1>5, <2>5, <2>6, <2>7, <2>8, OneCopies
<1>10. CASE MergeLater(n, local[n], t)
  <2>1. /\ local[n] # None /\ local[n].status # "synced"
        /\ local' = local /\ conflicts' = conflicts
    BY <1>10 DEF MergeLater
  <2>2. local' = [local EXCEPT ![n] = local[n]] /\ Open' = Open
    BY <1>0, <2>1 DEF AndroidTypeOK, Open
  <2>3. PICK r : r = local[n]
    OBVIOUS
  <2>4. r # None /\ r.base = 0 /\ r.life = "deleted" => Stillborn(n)
    BY <2>3 DEF Stillborn, Has
  <2> QED
    BY <1>4, <1>5, <2>1, <2>2, <2>3, <2>4, OneCopies
<1> QED
  BY <1>4, <1>7, <1>8, <1>9, <1>10

(* The push: what is read is sent as it is, but for the notes that are only
   the phone's. *)
LEMMA ReadPendingCopies ==
    ASSUME PhoneInv, CopiesInv, ReadPending
    PROVE  CopiesInv'
<1>0. AndroidTypeOK /\ Phase
  BY DEF PhoneInv
<1>1. /\ step = "idle" /\ DOMAIN sent' = Pending
      /\ step' = IF Pending = {} THEN "pull" ELSE "prepare"
      /\ UNCHANGED <<serverVars, local, conflicts, cursor, using, accepted, refused, page>>
  BY DEF ReadPending, Goto, userVars, answerVars
<1>2. changes' = changes /\ UpTo' = UpTo /\ Open' = Open /\ CursorInv' /\ AliveInv'
  BY <1>1 DEF serverVars, UpTo, Open, CursorInv, AliveInv, CopiesInv
<1>3. DOMAIN accepted = {}
  BY <1>0, <1>1 DEF Phase
<1>4. ASSUME NEW n \in Note
      PROVE  CopyInv(n)'
  <2>1. /\ CopyInv(n) /\ NoteSame(n) /\ (Ahead(n)' <=> Ahead(n))
        /\ (InPage(n)' <=> InPage(n)) /\ (Stillborn(n)' <=> Stillborn(n))
    BY <1>1, <1>2, SameStore DEF CopiesInv, Ahead, LoggedAfter, InPage, Stillborn, Has
  <2>2. n \in DOMAIN sent' => step' = "prepare"
    BY <1>1
  <2> QED
    BY <1>1, <1>2, <1>3, <2>1, <2>2, CopyNext
<1> QED
  BY <1>2, <1>4 DEF CopiesInv

LEMMA PutPreparedCopies ==
    ASSUME PhoneInv, CopiesInv, PutPrepared
    PROVE  CopiesInv'
<1> DEFINE gone == {n \in DOMAIN sent : sent[n].base = 0 /\ sent[n].life = "deleted"}
           put == DOMAIN sent \ gone
<1>0. AndroidTypeOK /\ ServerTypeOK /\ Phase
  BY DEF PhoneInv, AndroidTypeOK
<1>1. /\ step = "prepare"
      /\ local' = [n \in Note |-> IF n \in gone THEN None
                                  ELSE IF n \in put THEN PreparePendingNoteForPush(sent[n])
                                  ELSE local[n]]
      /\ DOMAIN sent' = put
      /\ step' = IF put = {} THEN "pull" ELSE "push"
      /\ UNCHANGED <<serverVars, conflicts, cursor, using, accepted, refused, page>>
  BY DEF PutPrepared, Goto, answerVars, userVars
<1>2. changes' = changes /\ UpTo' = UpTo /\ Open' = Open /\ CursorInv' /\ AliveInv'
  BY <1>1 DEF serverVars, UpTo, Open, CursorInv, AliveInv, CopiesInv
<1>3. /\ DOMAIN accepted = {}
      /\ \A n \in DOMAIN sent : local[n] = sent[n] /\ sent[n] \in LocalNote
  BY <1>0, <1>1 DEF Phase, AndroidTypeOK, NoteMap
<1>4. ASSUME NEW n \in Note
      PROVE  CopyInv(n)'
  <2>1. /\ CopyInv(n) /\ NoteSame(n) /\ (Ahead(n)' <=> Ahead(n))
        /\ (InPage(n)' <=> InPage(n))
    BY <1>1, <1>2, SameStore DEF CopiesInv, Ahead, LoggedAfter, InPage
  <2>2. CASE n \in gone
    <3>1. local'[n] = None
      BY <1>1, <2>2
    <3>2. sent[n] # None /\ Stillborn(n)
      BY <1>3, <2>2 DEF Stillborn, Has
    <3>3. ~HasRow(n)
      BY <1>0, <2>1, <3>2, RowFacts DEF CopyInv, StillbornInv
    <3>4. Copy(n, local'[n]) /\ ~Stillborn(n)'
      BY <3>1, <3>3, GoneIsCopy DEF Stillborn, Has
    <3> QED
      BY <1>1, <1>2, <1>3, <2>1, <3>4, CopyNext
  <2>3. CASE n \in put
    <3>1. local'[n] = PreparePendingNoteForPush(sent[n])
      BY <1>1, <2>3
    <3>2. /\ local'[n] # None /\ local'[n].status = "pending"
          /\ local'[n].base = sent[n].base /\ local'[n].life = sent[n].life
      BY <1>3, <2>3, <3>1, PreparedFacts
    <3>3. Unsynced(n)' /\ ~Stillborn(n)'
      BY <2>3, <3>2 DEF Unsynced, Stillborn, Has
    <3> QED
      BY <1>1, <1>2, <1>3, <2>1, <3>3, CopyNext
  <2>4. CASE n \notin DOMAIN sent
    <3>1. local'[n] = local[n] /\ n \notin DOMAIN sent'
      BY <1>1, <2>4
    <3>2. Stillborn(n)' <=> Stillborn(n)
      BY <3>1 DEF Stillborn, Has
    <3> QED
      BY <1>1, <1>2, <1>3, <2>1, <3>1, <3>2, CopyNext
  <2> QED
    BY <2>2, <2>3, <2>4
<1> QED
  BY <1>2, <1>4 DEF CopiesInv

(* A refused note gets the other side the server has, or the tombstone. *)
LEMMA RefusalIsCopy ==
    ASSUME ServerTypeOK, NEW n \in Note, Refused(n, PushChange(n))
    PROVE  Copy(n, ConflictOf(n, PushChange(n)).theirs)
<1>1. CASE DeletedRemotely(n, PushChange(n))
  <2>1. ~HasRow(n)
    BY <1>1 DEF DeletedRemotely
  <2>2. ConflictOf(n, PushChange(n)).theirs.life = "deleted"
    BY <1>1 DEF ConflictOf
  <2> QED
    BY <2>1, <2>2, GoneIsCopy
<1>2. CASE ~DeletedRemotely(n, PushChange(n))
  <2>1. HasRow(n)
    BY <1>2 DEF Refused, RemoteChanged
  <2>2. PICK t \in Remote : t = RemoteOf(rows[n])
    BY <2>1, RowRemote
  <2>3. t # None /\ SameSide(t, rows[n])
    <3>1. t.content = rows[n].content /\ t.life = rows[n].life
      BY <2>2 DEF RemoteOf
    <3> QED
      BY <3>1, SyncedFacts DEF SameSide
  <2>4. ConflictOf(n, PushChange(n)).theirs = t
    BY <1>2, <2>2 DEF ConflictOf
  <2> QED
    BY <2>1, <2>3, <2>4, SideIsCopy
<1> QED
  BY <1>1, <1>2

LEMMA HandlePushCopies ==
    ASSUME PhoneInv, CopiesInv, HandlePush
    PROVE  CopiesInv'
<1>0. AndroidTypeOK /\ ServerTypeOK /\ Phase
  BY DEF PhoneInv, AndroidTypeOK
<1>1. /\ step = "push" /\ step' = "answered"
      /\ UNCHANGED <<local, conflicts, cursor, using, sent, page>>
  BY DEF HandlePush, Goto, userVars
<1>2. /\ UpTo' = UpTo /\ Open' = Open /\ CursorInv' /\ AliveInv'
      /\ ServerTypeOK' /\ changes \subseteq changes'
  BY <1>1, PushWrites DEF UpTo, Open, CursorInv, AliveInv, CopiesInv, ServerInv
<1>3. /\ DOMAIN accepted' = DOMAIN sent \ RefusedNotes
      /\ \A n \in DOMAIN accepted' : HasRow(n)' /\ SameSide(sent[n], rows'[n])
  BY PushAnswer
<1>4. ASSUME NEW c \in refused'
      PROVE  \E n \in RefusedNotes : /\ c = ConflictOf(n, PushChange(n)) /\ n \in Note
                                     /\ c.note = n /\ Copy(n, c.theirs)
  <2>1. PICK n \in RefusedNotes : c = ConflictOf(n, PushChange(n))
    BY PushAnswer
  <2>2. Refused(n, PushChange(n)) /\ n \in DOMAIN sent /\ n \in Note
    BY <1>1, SentFacts DEF RefusedNotes
  <2>3. c.note = n
    BY <1>0, <2>1, <2>2, RefusalFacts
  <2>4. Copy(n, c.theirs)
    BY <1>0, <2>1, <2>2, RefusalIsCopy
  <2> QED
    BY <2>1, <2>2, <2>3, <2>4
<1>5. ASSUME NEW n \in Note
      PROVE  CopyInv(n)'
  <2>1. CopyInv(n) /\ (Stillborn(n)' <=> Stillborn(n)) /\ (InPage(n)' <=> InPage(n))
    BY <1>1 DEF CopiesInv, Stillborn, Has, InPage
  <2>2. CASE Stored(n)
    <3>1. n \in DOMAIN sent /\ n \notin RefusedNotes /\ NoteMoved(n)
      BY <2>2, PushWrites DEF Stored, RefusedNotes
    <3>2. ~Stillborn(n)'
      BY <1>1, <2>1, <3>1 DEF CopyInv, StillbornInv
    <3>3. \A c \in Open' \union refused' : c.note = n => c \in Open \union refused
      BY <1>2, <1>4, <3>1
    <3> QED
      BY <1>1, <1>2, <2>1, <3>1, <3>2, <3>3, MovedCopies
  <2>3. CASE ~Stored(n)
    <3>1. NoteSame(n)
      BY <2>3, PushWrites
    <3>2. Ahead(n) => Ahead(n)'
      BY <1>2 DEF Ahead, LoggedAfter
    <3>3. ASSUME n \in DOMAIN accepted'
          PROVE  Is(n, sent'[n])
      <4>1. HasRow(n)' /\ SameSide(sent[n], rows'[n])
        BY <1>3, <3>3
      <4> QED
        BY <1>1, <3>1, <4>1 DEF Is, NoteSame, SameSide
    <3>4. \A c \in Open' \union refused' : c.note = n =>
              \/ \E b \in Open \union refused : b.note = n /\ c.theirs = b.theirs
              \/ Copy(n, c.theirs)
      BY <1>2, <1>4
    <3>5. Stillborn(n)' => n \notin DOMAIN sent'
      BY <1>1, <2>1 DEF CopyInv, StillbornInv
    <3> QED
      BY <1>1, <1>2, <2>1, <3>1, <3>2, <3>3, <3>4, <3>5, CopyNext
  <2> QED
    BY <2>2, <2>3
<1> QED
  BY <1>2, <1>5 DEF CopiesInv

LEMMA PushDoneCopies ==
    ASSUME PhoneInv, CopiesInv, PushDone
    PROVE  CopiesInv'
<1>1. /\ step = "answered" /\ step' = "pull" /\ accepted = Nothing /\ sent' = Nothing
      /\ UNCHANGED <<serverVars, local, conflicts, cursor, using, accepted, refused, page>>
  BY DEF PushDone, Goto, userVars, answerVars
<1>2. changes' = changes /\ UpTo' = UpTo /\ Open' = Open /\ CursorInv' /\ AliveInv'
  BY <1>1 DEF serverVars, UpTo, Open, CursorInv, AliveInv, CopiesInv
<1>3. DOMAIN accepted = {} /\ DOMAIN sent' = {}
  BY <1>1, NothingFacts
<1>4. ASSUME NEW n \in Note
      PROVE  CopyInv(n)'
  <2>1. /\ CopyInv(n) /\ NoteSame(n) /\ (Ahead(n)' <=> Ahead(n))
        /\ (InPage(n)' <=> InPage(n)) /\ (Stillborn(n)' <=> Stillborn(n))
    BY <1>1, <1>2, SameStore DEF CopiesInv, Ahead, LoggedAfter, InPage, Stillborn, Has
  <2> QED
    BY <1>1, <1>2, <1>3, <2>1, CopyNext
<1> QED
  BY <1>2, <1>4 DEF CopiesInv

(* What was still to come is in the page now. *)
LEMMA HandlePullCopies ==
    ASSUME PhoneInv, CopiesInv, HandlePull
    PROVE  CopiesInv'
<1> DEFINE fresh == {m \in LoggedPast : HasRow(m)}
           gone == {n \in LoggedPast : ~HasRow(n)}
<1>0. AndroidTypeOK /\ ServerTypeOK /\ Phase
  BY DEF PhoneInv, AndroidTypeOK
<1>1. /\ step = "pull" /\ step' = "pulled"
      /\ page' = [notes |-> [n \in fresh |-> RemoteOf(rows[n])],
                  deletes |-> gone, revision |-> lastRev]
      /\ UNCHANGED <<serverVars, local, conflicts, cursor, using, sent, accepted, refused>>
  BY DEF HandlePull, Goto, userVars, answerVars
<1>2. /\ DOMAIN page'.notes = fresh /\ page'.deletes = gone /\ page'.revision = lastRev
      /\ \A n \in fresh : page'.notes[n] = RemoteOf(rows[n])
  BY <1>1
<1>3. /\ DOMAIN sent = {} /\ DOMAIN accepted = {} /\ refused = {}
      /\ DOMAIN page.notes = {} /\ page.deletes = {}
  BY <1>0, <1>1 DEF Phase
<1>4. CursorInv' /\ AliveInv' /\ Open' = Open /\ changes' = changes
  BY <1>1, <1>2, Bounds DEF CursorInv, AliveInv, CopiesInv, Open, serverVars
<1>5. \A n \in Note : InPage(n)' <=> n \in LoggedPast
  BY <1>2 DEF InPage
<1>6. \A n \in Note : n \in LoggedPast <=> LoggedAfter(n, cursor)
  BY DEF LoggedPast, LoggedAfter
<1> HIDE DEF gone
<1>7. ASSUME NEW n \in Note
      PROVE  CopyInv(n)'
  <2>1. /\ CopyInv(n) /\ NoteSame(n) /\ rows'[n] = rows[n]
        /\ (HasRow(n)' <=> HasRow(n)) /\ Version(n)' = Version(n)
        /\ (Stillborn(n)' <=> Stillborn(n)) /\ (Unsynced(n)' <=> Unsynced(n))
    BY <1>1, SameStore DEF CopiesInv, Stillborn, Has, Unsynced
  <2>2. CleanInv(n)'
    <3>1. Ahead(n) => Coming(n)'
      BY <1>1, <1>5, <1>6 DEF Ahead, UpTo, Coming
    <3>2. ~InPage(n)
      BY <1>3 DEF InPage
    <3>3. Copy(n, local[n]) => Copy(n, local[n])'
      BY <1>1, <2>1 DEF Copy
    <3> QED
      BY <2>1, <3>1, <3>2, <3>3 DEF CopyInv, CleanInv, Coming
  <2>3. PulledInv(n)'
    <3>1. ASSUME n \in fresh
          PROVE  Is(n, page.notes[n])' /\ Copy(n, page.notes[n])'
      <4>1. HasRow(n)
        BY <3>1
      <4>2. PICK t \in Remote : t = RemoteOf(rows[n])
        BY <1>0, <4>1, RowRemote
      <4>3. page'.notes[n] = t
        BY <1>2, <3>1, <4>2
      <4>4. t # None /\ t.content = rows[n].content /\ t.life = rows[n].life
        BY <4>2, SyncedFacts DEF RemoteOf
      <4>5. HasRow(n)' /\ SameSide(t, rows'[n])
        BY <2>1, <4>1, <4>4 DEF SameSide
      <4>6. Is(n, t) /\ Copy(n, t)
        BY <2>1, <4>1, <4>4, <4>5, SideIsCopy DEF Is
      <4>7. Is(n, t)' /\ Copy(n, t)'
        BY <2>1, <4>6, SameCopies
      <4> QED
        BY <4>3, <4>7 DEF Is, Copy
    <3>2. InPage(n)' => LoggedAfter(n, cursor)'
      BY <1>1, <1>4, <1>5, <1>6 DEF LoggedAfter
    <3> QED
      BY <1>2, <3>1, <3>2 DEF PulledInv
  <2>4. TakenInv(n)'
    BY <1>1, <1>3 DEF TakenInv
  <2>5. TheirsInv(n)'
    <3>1. \A r : Copy(n, r) => Copy(n, r)'
      BY <2>1, SameCopies
    <3> QED
      BY <1>1, <1>4, <2>1, <3>1 DEF CopyInv, TheirsInv
  <2>6. StillbornInv(n)'
    BY <1>1, <1>3, <2>1 DEF CopyInv, StillbornInv
  <2> QED
    BY <2>2, <2>3, <2>4, <2>5, <2>6 DEF CopyInv
<1> QED
  BY <1>4, <1>7 DEF CopiesInv

(* The cursor is saved once every note of the page is settled. *)
LEMMA SaveCursorCopies ==
    ASSUME PhoneInv, CopiesInv, SaveCursor
    PROVE  CopiesInv'
<1>0. AndroidTypeOK /\ Phase
  BY DEF PhoneInv
<1>1. /\ step = "pulled" /\ step' = "idle" /\ cursor' = page.revision /\ page' = NoPage
      /\ page.deletes = {} /\ page.notes = Nothing
      /\ UNCHANGED <<serverVars, local, conflicts, using, sent, accepted, refused>>
  BY DEF SaveCursor, NextCursor, Goto, userVars, answerVars
<1>2. /\ changes' = changes /\ UpTo' = UpTo /\ Open' = Open /\ CursorInv' /\ AliveInv'
  BY <1>1 DEF serverVars, UpTo, Open, CursorInv, AliveInv, CopiesInv
<1>3. /\ DOMAIN sent = {} /\ DOMAIN accepted = {} /\ DOMAIN page.notes = {}
      /\ DOMAIN page'.notes = {} /\ page'.deletes = {}
  BY <1>0, <1>1, NothingFacts DEF Phase
<1>4. ASSUME NEW n \in Note
      PROVE  CopyInv(n)'
  <2>1. /\ CopyInv(n) /\ NoteSame(n) /\ (Ahead(n)' <=> Ahead(n))
        /\ (Stillborn(n)' <=> Stillborn(n))
    BY <1>1, <1>2, SameStore DEF CopiesInv, Ahead, LoggedAfter, Stillborn, Has
  <2>2. ~InPage(n) /\ ~InPage(n)'
    BY <1>1, <1>3 DEF InPage
  <2> QED
    BY <1>1, <1>2, <1>3, <2>1, <2>2, CopyNext
<1> QED
  BY <1>2, <1>4 DEF CopiesInv

(* A page that is forgotten is pulled again: the cursor stands where it was. *)
LEMMA ForgetCopies ==
    ASSUME PhoneInv, CopiesInv, SyncFails \/ ProcessDies
    PROVE  CopiesInv'
<1>0. AndroidTypeOK /\ Phase
  BY DEF PhoneInv
<1>1. /\ step' = "idle" /\ page' = NoPage /\ using' \in {using, None}
      /\ sent' = Nothing /\ accepted' = Nothing /\ refused' = {}
      /\ UNCHANGED <<serverVars, local, conflicts, cursor>>
  BY DEF SyncFails, ProcessDies, Forget, Goto, userVars
<1>2. changes' = changes /\ UpTo' = cursor /\ Open' = Open /\ CursorInv' /\ AliveInv'
  BY <1>1 DEF serverVars, UpTo, Open, CursorInv, AliveInv, CopiesInv
<1>3. /\ DOMAIN sent' = {} /\ DOMAIN accepted' = {}
      /\ DOMAIN page'.notes = {} /\ page'.deletes = {}
  BY <1>1, NothingFacts
<1>4. ASSUME NEW n \in Note
      PROVE  CopyInv(n)'
  <2>1. CopyInv(n) /\ NoteSame(n) /\ (Stillborn(n)' <=> Stillborn(n))
    BY <1>1, <1>2, SameStore DEF CopiesInv, Stillborn, Has
  <2>2. LoggedAfter(n, cursor) => Ahead(n)'
    BY <1>2 DEF Ahead, LoggedAfter
  <2>3. Ahead(n) => LoggedAfter(n, cursor)
    <3>1. cursor <= UpTo
      BY Bounds DEF UpTo, CopiesInv, CursorInv
    <3> QED
      BY <3>1, Bounds DEF Ahead, LoggedAfter
  <2>4. InPage(n) => LoggedAfter(n, cursor)
    BY <2>1 DEF CopyInv, PulledInv
  <2>5. ~InPage(n)'
    BY <1>3 DEF InPage
  <2>6. Coming(n)' \/ (local'[n] = local[n] /\ (InPage(n) => InPage(n)'))
    BY <1>1, <2>2, <2>4 DEF Coming
  <2> QED
    BY <1>1, <1>2, <1>3, <2>1, <2>2, <2>3, <2>5, <2>6, CopyNext
<1> QED
  BY <1>2, <1>4 DEF CopiesInv

LEMMA ReadsCopies ==
    ASSUME PhoneInv, CopiesInv, ReadAccepted \/ ReadEcho \/ ReadDeleted \/ ReadMerged
    PROVE  CopiesInv'
<1>1. PICK where, n : Read(where, n)
  BY DEF ReadAccepted, ReadEcho, ReadDeleted, ReadMerged
<1>2. /\ UNCHANGED <<serverVars, local, conflicts, cursor, using>>
      /\ UNCHANGED <<step, sent, accepted, refused, page>>
  BY <1>1 DEF Read, userVars, answerVars
<1>3. AliveInv' /\ Open' = Open
  BY <1>2 DEF AliveInv, Open, CopiesInv
<1> QED
  BY <1>2, <1>3, StillCopies

(***************************************************************************)
(* The copies of every state.                                              *)
(***************************************************************************)
LEMMA CopiesInit == AndroidInit => CopiesInv
<1> SUFFICES ASSUME AndroidInit
             PROVE  CopiesInv
  OBVIOUS
<1>1. /\ local = [n \in Note |-> None] /\ conflicts = <<>> /\ using = None
      /\ step = "idle" /\ sent = Nothing /\ accepted = Nothing /\ refused = {}
      /\ page = NoPage /\ rows = [n \in Note |-> None]
  BY DEF AndroidInit, ServerInit
<1>2. /\ DOMAIN accepted = {} /\ Open = {}
      /\ DOMAIN page.notes = {} /\ page.deletes = {}
  BY <1>1, NothingFacts DEF Open
<1>3. ASSUME NEW n \in Note
      PROVE  CopyInv(n)
  <2>1. local[n] = None /\ ~HasRow(n)
    BY <1>1 DEF HasRow
  <2>2. CleanInv(n) /\ ~Stillborn(n)
    BY <2>1, GoneIsCopy DEF CleanInv, Stillborn, Has
  <2> QED
    BY <1>1, <1>2, <2>2 DEF CopyInv, PulledInv, InPage, TakenInv, TheirsInv, StillbornInv
<1> QED
  BY <1>1, <1>3 DEF CopiesInv, CursorInv, AliveInv

LEMMA SyncCopies ==
    ASSUME PhoneInv, CopiesInv, SyncStep
    PROVE  CopiesInv'
<1>1. CASE ReadPending \/ PutPrepared \/ HandlePush
  BY <1>1, ReadPendingCopies, PutPreparedCopies, HandlePushCopies
<1>2. CASE ReadAccepted \/ ReadEcho \/ ReadDeleted \/ ReadMerged
  BY <1>2, ReadsCopies
<1>3. CASE MarkAccepted \/ Absorb \/ SaveRefused \/ PushDone
  BY <1>3, MarkCopies, AbsorbCopies, RefusedCopies, PushDoneCopies
<1>4. CASE HandlePull \/ ApplyRemoteDelete \/ MergeRemoteNote \/ SaveCursor
  BY <1>4, HandlePullCopies, DeletedCopies, MergeCopies, SaveCursorCopies
<1> QED
  BY <1>1, <1>2, <1>3, <1>4 DEF SyncStep

LEMMA CopiesNext ==
    ASSUME Closed, PhoneInv, CopiesInv, [AndroidNext]_androidVars
    PROVE  CopiesInv'
<1>1. CASE UserStep
  BY <1>1, UserCopies
<1>2. CASE SyncStep
  BY <1>2, SyncCopies
<1>3. CASE SyncFails \/ ProcessDies
  BY <1>3, ForgetCopies
<1>4. ASSUME NEW n \in Note, NEW life \in Life, NEW e \in Edit, OtherPushes(n, life, e)
      PROVE  CopiesInv'
  BY <1>4, EnvironmentCopies
<1>5. CASE Retention \/ UNCHANGED androidVars
  BY <1>5, EnvironmentCopies
<1> QED
  BY <1>1, <1>2, <1>3, <1>4, <1>5 DEF AndroidNext

(* What the phone calls synced is the server's, or its next change is still to
   be pulled. *)
THEOREM CopiesInvariant ==
    ASSUME Closed
    PROVE  AndroidSpec => []CopiesInv
<1>1. PhoneInv /\ CopiesInv /\ [AndroidNext]_androidVars => CopiesInv'
  BY CopiesNext
<1> QED
  BY <1>1, CopiesInit, PhoneInvariant, PTL DEF AndroidSpec

(* A note marked "synced", with no conflict open and the cursor past its last
   change, is the server's: whatever the sync writes inside an operation of the
   user and wherever it is cut off, the cursor never passes a change that was not
   settled.  A user's write between two statements of the sync on the same note
   is assumed away (Closed): inside markAcceptedChanges it breaks this
   (AndroidMark.cfg). *)
THEOREM SyncedIsServerCopy ==
    ASSUME Closed
    PROVE  AndroidSpec => []SyncedMeansServerCopy
<1>1. ASSUME PhoneInv, CopiesInv, NEW n \in Note, Clean(n), UpToDate(n)
      PROVE  Copy(n, local[n])
  <2>1. CopyInv(n) /\ ~Unsynced(n)
    BY <1>1 DEF CopiesInv, Clean, Unsynced
  <2>2. ~LoggedAfter(n, cursor)
    BY <1>1, Bounds DEF UpToDate, LoggedAfter
  <2>3. ~Ahead(n)
    <3>1. cursor <= UpTo
      BY <1>1, Bounds DEF UpTo, CopiesInv, CursorInv
    <3> QED
      BY <1>1, <2>2, <3>1, Bounds DEF Ahead, LoggedAfter
  <2> QED
    BY <2>1, <2>2, <2>3 DEF CopyInv, CleanInv, PulledInv, Coming
<1>2. PhoneInv /\ CopiesInv => SyncedMeansServerCopy
  BY <1>1 DEF SyncedMeansServerCopy, Copy
<1> QED
  BY <1>2, PhoneInvariant, CopiesInvariant, PTL

=============================================================================
