---------------------------- MODULE RecordLimits ----------------------------
(***************************************************************************)
(* The storage limits a push has to pass (server/record-limits.ts), inside *)
(* its transaction and before it writes anything.                          *)
(*                                                                         *)
(* The limits are shares of one budget: every account that signs up makes  *)
(* those of all the others smaller, so an account that kept within them    *)
(* may be far over them at its next push.  The accounts, and what this one *)
(* stores beside its notes, are therefore whatever the push finds.         *)
(*                                                                         *)
(* The check estimates what the push would leave, as if every change were  *)
(* accepted; which of them are is decided after it (NoteServer!Push).      *)
(* Notebooks and devices, whose limits work the same way, are left out,    *)
(* and a server that is configured to enforce none is NoteServer alone.    *)
(***************************************************************************)
EXTENDS NoteServer

CONSTANTS
    Users,               \* how many accounts there may be at a push
    Budget,              \* bytes all accounts share: storageBudgetBytes * safetyRatio
    EstimatedNoteBytes,  \* what a note is taken to need: bounds the count
    NoteBytes,           \* stored size of a note with each content
    LargestNote,         \* the largest of them
    EntryBytes,          \* size of a log entry; a tombstone has twice that
    OtherBytes           \* sizes of the rest: versions, devices, picture

ASSUME LimitsAssumption ==
    /\ Users \subseteq Nat \ {0}
    /\ Budget \in Nat /\ EstimatedNoteBytes \in Nat \ {0}
    /\ LargestNote \in Nat /\ NoteBytes \in [Content -> 1..LargestNote]
    /\ EntryBytes \in Nat /\ OtherBytes \subseteq Nat

(* A trashed note is active here: only deletedAt takes a note out. *)
ActiveNotes == {n \in Note : HasRow(n) /\ rows[n].life # "deleted"}
DeletedNotes == {n \in Note : HasRow(n) /\ rows[n].life = "deleted"}

(* The bytes of a function from notes to rows or changes, one by one. *)
Bytes(records) ==
    Cardinality({p \in (DOMAIN records) \X (1..LargestNote) :
                    p[2] <= NoteBytes[records[p[1]].content]})
StoredBytes(ids) == Bytes([n \in ids |-> rows[n]])

(***************************************************************************)
(* perUserLimits: one account's share of the budget, nine tenths of it for *)
(* its notes.                                                              *)
(***************************************************************************)
AtLeastOne(k) == IF k < 1 THEN 1 ELSE k
MaxNoteBytes(users) == AtLeastOne((9 * Budget) \div (10 * users))
MaxNotes(users) == AtLeastOne(MaxNoteBytes(users) \div EstimatedNoteBytes)
MaxTotalBytes(users) == AtLeastOne(Budget \div users)

(***************************************************************************)
(* The projections: what is stored, and what would be after the push.      *)
(***************************************************************************)
SentActive(batch) == {n \in DOMAIN batch : batch[n].life # "deleted"}
SentDeleted(batch) == {n \in DOMAIN batch : batch[n].life = "deleted"}

CountUsage(batch, users) ==
    [current   |-> Cardinality(ActiveNotes),
     projected |-> Cardinality(ActiveNotes) + Cardinality(SentActive(batch))
                     - Cardinality(SentActive(batch) \intersect ActiveNotes)
                     - Cardinality(SentDeleted(batch) \intersect ActiveNotes),
     limit     |-> MaxNotes(users)]

ByteUsage(batch, users) ==
    [current   |-> StoredBytes(ActiveNotes),
     projected |-> StoredBytes(ActiveNotes)
                     - StoredBytes((DOMAIN batch) \intersect ActiveNotes)
                     + Bytes([n \in SentActive(batch) |-> batch[n]]),
     limit     |-> MaxNoteBytes(users)]

(* auxiliaryStorageBytes: the log, the tombstones and the deleted rows. *)
AuxiliaryBytes(other) ==
    other + EntryBytes * Cardinality(changes)
          + 2 * EntryBytes * Cardinality({n \in Note : HasTombstone(n)})
          + StoredBytes(DeletedNotes)

(* incomingAuxiliaryBytes: the device's row, and for each change two snapshots
   and a log entry. *)
IncomingAuxiliaryBytes(batch) ==
    2 * EntryBytes + 2 * Bytes(batch) + EntryBytes * Cardinality(DOMAIN batch)

TotalUsage(bytes, batch, users, other) ==
    [current   |-> bytes.current + AuxiliaryBytes(other),
     projected |-> bytes.projected + AuxiliaryBytes(other)
                     + IncomingAuxiliaryBytes(batch),
     limit     |-> MaxTotalBytes(users)]

(***************************************************************************)
(* checkRecordLimits.                                                      *)
(***************************************************************************)
UsageAllowed(usages) == \A u \in usages : u.projected <= u.limit

Reduces(usages) == /\ \A u \in usages : u.projected <= u.current
                   /\ \E u \in usages : u.projected < u.current

(* Every change deletes a note that is active at the version it names. *)
GuaranteedActiveDeletes(batch) ==
    \A n \in DOMAIN batch : /\ n \in ActiveNotes
                            /\ batch[n].life = "deleted"
                            /\ batch[n].base = rows[n].version

LimitsAllow_NoWayBack(batch, users, other) ==
    LET bytes == ByteUsage(batch, users) IN
    UsageAllowed({CountUsage(batch, users), bytes,
                  TotalUsage(bytes, batch, users, other)})
LimitsAllow(batch, users, other) ==
    LET bytes  == ByteUsage(batch, users)
        active == {CountUsage(batch, users), bytes}
    IN \/ UsageAllowed(active \union {TotalUsage(bytes, batch, users, other)})
       \/ Reduces(active) /\ GuaranteedActiveDeletes(batch)

BeyondLimits(batch) == \A users \in Users, other \in OtherBytes :
                          ~LimitsAllow(batch, users, other)

(* A push that fails the check is refused as a whole, and changes nothing;
   neither does one of which nothing is written, whether it passes or not. *)
PushWithinLimits(d, batch) ==
    /\ Push(d, batch)
    /\ Written(batch) # {} => ~BeyondLimits(batch)

LimitedServerNext ==
    \/ \E d \in Device, batch \in Batch : PushWithinLimits(d, batch)
    \/ \E n \in Note : Age(n)
    \/ CleanupTrash
    \/ CompactEntityChanges

LimitedServerSpec == ServerInit /\ [][LimitedServerNext]_serverVars

(***************************************************************************)
(* Properties.                                                             *)
(***************************************************************************)
DeleteAll(ids) ==
    [n \in ids |-> [content |-> rows[n].content, life |-> "deleted",
                    base |-> rows[n].version, stripped |-> FALSE]]

(* An account can always make room.  However far over its limits it is, by
   whatever the other accounts, the log, the tombstones or the versions have
   taken, a push that deletes active notes at their present versions passes
   the check, and every one of its changes is accepted. *)
AlwaysRoomToDelete ==
    \A ids \in (SUBSET ActiveNotes) \ {{}},
       users \in Users, other \in OtherBytes :
        /\ LimitsAllow(DeleteAll(ids), users, other)
        /\ Written(DeleteAll(ids)) = ids

(* The notes that are active once a push has been handled. *)
ActiveAfter(batch) ==
    {n \in Note : IF n \in Written(batch) THEN batch[n].life # "deleted"
                  ELSE n \in ActiveNotes}

StaleDelete(batch) == \E n \in SentDeleted(batch) : Refused(n, batch[n])

(* A push that passes leaves no more notes than the limit of the accounts it
   found, or fewer than there were: an account that is over its limit cannot
   grow.  The estimate counts a delete that is then refused as one that makes
   room; a push with such a delete is the exception. *)
LimitHolds ==
    \A batch \in Batch, users \in Users, other \in OtherBytes :
        (LimitsAllow(batch, users, other) /\ ~StaleDelete(batch)) =>
            LET after == Cardinality(ActiveAfter(batch)) IN
            after <= MaxNotes(users) \/ after < Cardinality(ActiveNotes)
=============================================================================
