---------------------------- MODULE MirrorProofs ----------------------------
(***************************************************************************)
(* Mirror implements Replicas for any records, edits, pages and cut-off    *)
(* runs, as long as no client hits a window (Closed): a run merges and     *)
(* never chooses.                                                          *)
(*                                                                         *)
(* What a run may overwrite is decided by the log: a record of the target  *)
(* that was last logged up to the source's cursor was carried over, so     *)
(* that the source has its edits (CursorHonest), and so has one the pass   *)
(* itself wrote (TouchedInv).  The invariant says what the page pulled and *)
(* the page planned still owe to either side while clients go on writing.  *)
(* From the same log it follows that a complete run leaves both sides with *)
(* the same active records.                                                *)
(***************************************************************************)
EXTENDS Mirror, MirrorQueue, FiniteSetTheorems, TLAPS

(* No client hits a window the program leaves open. *)
Closed == Loose = {}

(***************************************************************************)
(* The invariant.                                                          *)
(***************************************************************************)
Maps(T) == UNION {[D -> T] : D \in SUBSET Entity}

Op == {"upsert", "delete"}
Entries == [rev : Nat \ {0}, entity : Entity, op : Op]
Copies  == [record : Record, base : Nat]
Plans   == [copy : Maps(Copies), deleteSource : Maps(SUBSET Edit),
            deleteTarget : Maps(SUBSET Edit), next : Nat, more : BOOLEAN]
Pulls   == [records : Maps(Record), deletes : SUBSET Entity]
Runs ==
    [at : Place, pass : 0..3, outbound : Nat, cursor : Nat,
     touched : SUBSET Entity, pulled : Pulls, plan : Plans, quiet : BOOLEAN]

TypesOK ==
    /\ clock \in 0..MaxEdits
    /\ store \in [Side -> [Entity -> Record \union {None}]]
    /\ log \in [Side -> SUBSET Entries]
    /\ rev \in [Side -> Nat] /\ cur \in [Side -> Nat]
    /\ run \in Runs
    /\ aborts \in Nat

(* Rows and tombstones have versions from 1 on. *)
VersionOf(s, e) == IF store[s][e] = None THEN 0 ELSE store[s][e].version
VersionsOK == \A s \in Side, e \in Entity : store[s][e] # None => VersionOf(s, e) >= 1

(* The newest entry of a record, and whether it is of an operation. *)
IsNewest(s, e, c) == c \in EntriesOf(s, e) /\ Newest(c, log[s])
LastIs(s, e, op) == \E c \in log[s] : IsNewest(s, e, c) /\ c.op = op

(* The log: revisions are distinct and none is ahead of the counter; each
   record has a newest entry, which for a row is an upsert. *)
LogOK(s) ==
    /\ \A c \in log[s] : c.rev <= rev[s]
    /\ \A c, d \in log[s] : c.rev = d.rev => c = d
    /\ \A e \in Entity : EntriesOf(s, e) # {} => \E c \in log[s] : IsNewest(s, e, c)
LogTrue ==
    \A s \in Side, e \in Entity : IsRow(store[s][e]) => LastIs(s, e, "upsert")

Busy == run.at \notin {"idle", "done"}

(* The parts that are about the run under way, from the side a to the side b. *)

(* Its cursors are those it began with, or saved since. *)
PassInv(a, b) ==
    Busy => /\ run.outbound = cur[a] /\ run.cursor = cur[b]
            /\ run.at # "pull" => /\ run.plan.next <= rev[a]
                                  /\ run.cursor <= run.plan.next

(* What the target has of a record is carried over: the source has it too. *)
Settled(b, e) == LatestRevision(b, e) <= run.outbound \/ e \in run.touched
LogsLate(a, e) == run.cursor < LatestRevision(a, e)

(* A record the pass wrote is on the target as the source gave it. *)
TouchedInv(a, b) ==
    \A e \in run.touched : Active(b, e) => Held(b, e) \subseteq Held(a, e)

(* A page that was pulled. *)
Pulled1(a, b, e, r) ==
    /\ r.kind # "tombstone" /\ r.version >= 1
    /\ r.edits \subseteq Held(a, e) /\ LogsLate(a, e)
    /\ r.kind = "deleted" => ~Active(a, e)
    /\ Active(b, e) /\ Settled(b, e) => Held(b, e) \subseteq r.edits
    /\ e \notin run.pulled.deletes
Past(a, e) == Active(a, e) => LatestRevision(a, e) > run.plan.next

PulledInv(a, b) ==
    /\ \A e \in DOMAIN run.pulled.records : Pulled1(a, b, e, run.pulled.records[e])
    /\ \A e \in run.pulled.deletes : Past(a, e)

(* A page that was planned: each record has one verdict at most. *)
CopyInv(a, b, e, c) ==
    /\ e \notin DOMAIN run.plan.deleteSource
    /\ e \notin DOMAIN run.plan.deleteTarget
    /\ c.record.kind # "tombstone" /\ c.record.version >= 1
    /\ c.record.edits \subseteq Held(a, e) /\ LogsLate(a, e)
    /\ c.base <= VersionOf(b, e)
    /\ Active(b, e) /\ VersionOf(b, e) = c.base => Held(b, e) \subseteq c.record.edits
DeleteSourceInv(a, b, e, seen) ==
    /\ e \notin DOMAIN run.plan.deleteTarget
    /\ ~Active(a, e) /\ seen \subseteq Held(b, e)
    /\ Active(b, e) => ~Settled(b, e)
DeleteTargetInv(a, b, e, seen) ==
    /\ seen \subseteq Held(a, e) /\ Past(a, e)
    /\ IF run.at \in {"deleteSource", "deleteTarget"}
       THEN Active(b, e) => Held(b, e) \subseteq seen
       ELSE ~Active(b, e)

PlanInv(a, b) ==
    run.at # "save" =>
    /\ \A e \in DOMAIN run.plan.copy : CopyInv(a, b, e, run.plan.copy[e])
    /\ \A e \in DOMAIN run.plan.deleteSource :
          DeleteSourceInv(a, b, e, run.plan.deleteSource[e])
    /\ \A e \in DOMAIN run.plan.deleteTarget :
          DeleteTargetInv(a, b, e, run.plan.deleteTarget[e])

(* An active record of the source that the page covers is carried over, or is
   in the page as it is. *)
Covered(a, e) == /\ Active(a, e)
                 /\ LogsLate(a, e) /\ LatestRevision(a, e) <= run.plan.next
Carried(a, b, e) ==
    /\ run.at = "plan" => /\ e \in DOMAIN run.pulled.records
                         /\ run.pulled.records[e] = store[a][e]
    /\ run.at \in {"deleteSource", "deleteTarget", "push"} =>
          IF e \in DOMAIN run.plan.copy THEN run.plan.copy[e].record = store[a][e]
          ELSE Held(a, e) \subseteq Held(b, e)
    /\ run.at = "save" => Held(a, e) \subseteq Held(b, e)
PageInv(a, b) == \A e \in Entity : Covered(a, e) => Carried(a, b, e)

RunInv(a, b) ==
    /\ PassInv(a, b) /\ TouchedInv(a, b) /\ PulledInv(a, b)
    /\ PlanInv(a, b) /\ PageInv(a, b)

(* Where the run has what. *)
PhaseInv ==
    /\ run.at # "plan" => DOMAIN run.pulled.records = {} /\ run.pulled.deletes = {}
    /\ run.at \in {"idle", "done", "pull", "plan"} =>
          DOMAIN run.plan.copy = {} /\ DOMAIN run.plan.deleteTarget = {}
    /\ run.at # "deleteSource" => DOMAIN run.plan.deleteSource = {}
    /\ run.at \in {"idle", "done"} => run.touched = {}

CursorsOK == \A s \in Side : cur[s] <= rev[Other(s)]

MirrorInv ==
    /\ TypesOK
    /\ VersionsOK /\ LogTrue /\ CursorsOK
    /\ \A s \in Side : LogOK(s)
    /\ CursorHonest
    /\ PhaseInv
    /\ \A a, b \in Side : (a = Source /\ b = Target) => RunInv(a, b)

(***************************************************************************)
(* The two sides.                                                          *)
(***************************************************************************)
LEMMA Sides ==
    /\ Target \in Side /\ Source \in Side /\ Source # Target
    /\ Source = Other(Target) /\ Target = Other(Source)
    /\ \A s \in Side : /\ s = Source \/ s = Target
                       /\ Other(s) \in Side /\ Other(s) # s /\ Other(Other(s)) = s
BY DEF Source, Target, Side, Other

(***************************************************************************)
(* The log.                                                                *)
(***************************************************************************)
LatestIn(L, e) ==
    IF {c \in L : c.entity = e} = {} THEN 0
    ELSE (CHOOSE c \in {c \in L : c.entity = e} : Newest(c, L)).rev

LEMMA LatestInIs ==
    ASSUME NEW L, \A c \in L : c.rev \in Nat, NEW e, NEW c \in L, c.entity = e, Newest(c, L)
    PROVE  LatestIn(L, e) = c.rev
<1> DEFINE S == {b \in L : b.entity = e}
           d == CHOOSE b \in S : Newest(b, L)
<1>1. c \in S
  OBVIOUS
<1>2. d \in S /\ Newest(d, L)
  BY <1>1
<1>3. d \in L /\ d.entity = e
  BY <1>2
<1>4. d.rev <= c.rev /\ c.rev <= d.rev
  BY <1>2, <1>3 DEF Newest
<1>5. d.rev = c.rev
  BY <1>3, <1>4
<1> QED
  BY <1>1, <1>5 DEF LatestIn

LEMMA LatestRevisionIs ==
    \A s, e : /\ LatestRevision(s, e) = LatestIn(log[s], e)
              /\ LatestRevision(s, e)' = LatestIn(log'[s], e)
BY DEF LatestRevision, LatestIn, EntriesOf

LEMMA LatestIs ==
    ASSUME TypesOK, NEW s \in Side, LogOK(s), NEW e \in Entity, NEW c \in log[s],
           IsNewest(s, e, c)
    PROVE  /\ LatestRevision(s, e) = c.rev
           /\ c.rev \in Nat \ {0} /\ c.rev <= rev[s]
<1>1. log[s] \subseteq Entries
  BY DEF TypesOK
<1>2. \A b \in log[s] : b.rev \in Nat \ {0} /\ b.rev <= rev[s]
  BY <1>1 DEF Entries, LogOK
<1> QED
  BY <1>2, LatestInIs, LatestRevisionIs DEF IsNewest, EntriesOf

LEMMA LatestType ==
    ASSUME TypesOK, NEW s \in Side, LogOK(s), NEW e \in Entity
    PROVE  LatestRevision(s, e) \in Nat /\ LatestRevision(s, e) <= rev[s]
<1>1. CASE EntriesOf(s, e) = {}
  BY <1>1 DEF LatestRevision, TypesOK
<1>2. CASE EntriesOf(s, e) # {}
  BY <1>2, LatestIs DEF LogOK
<1> QED
  BY <1>1, <1>2

LEMMA LatestTypeNext ==
    ASSUME log' \in [Side -> SUBSET Entries], NEW s \in Side, LogOK(s)', NEW e \in Entity
    PROVE  LatestRevision(s, e)' \in Nat
<1>1. \A c \in log'[s] : c.rev \in Nat
  BY DEF Entries
<1>2. CASE EntriesOf(s, e)' = {}
  BY <1>2 DEF LatestRevision
<1>3. CASE EntriesOf(s, e)' # {}
  <2>1. PICK c \in log'[s] : c.entity = e /\ Newest(c, log'[s])
    BY <1>3 DEF LogOK, IsNewest, EntriesOf
  <2>2. LatestIn(log'[s], e) = c.rev
    BY <1>1, <2>1, LatestInIs
  <2> QED
    BY <1>1, <2>2, LatestRevisionIs
<1> QED
  BY <1>2, <1>3

(* Two logs that give a record the same newest entry. *)
SameLatest(s, e) ==
    /\ LatestRevision(s, e)' = LatestRevision(s, e)
    /\ \A op : LastIs(s, e, op) => LastIs(s, e, op)'

LEMMA SameLog ==
    ASSUME NEW s, log'[s] = log[s], NEW e
    PROVE  SameLatest(s, e)
<1>1. EntriesOf(s, e)' = EntriesOf(s, e)
  BY DEF EntriesOf
<1>2. LatestRevision(s, e)' = LatestRevision(s, e)
  BY <1>1 DEF LatestRevision
<1>3. \A op : LastIs(s, e, op) => LastIs(s, e, op)'
  BY <1>1 DEF LastIs, IsNewest
<1> QED
  BY <1>2, <1>3 DEF SameLatest

(* New entries for a set of records, as Put and DeleteByIds write them. *)
Logged(s, es, op) ==
    /\ \E f \in Numbered(s, es) :
          log' = [log EXCEPT ![s] = @ \union {Entry(f[e], e, op) : e \in es}]
    /\ rev' = [rev EXCEPT ![s] = @ + Cardinality(es)]

LEMMA NumberedFacts ==
    ASSUME TypesOK, NEW s \in Side, NEW es \in SUBSET Entity, NEW f \in Numbered(s, es)
    PROVE  /\ Cardinality(es) \in Nat
           /\ \A e \in es : /\ f[e] \in Nat \ {0} /\ f[e] > rev[s]
                             /\ f[e] <= rev[s] + Cardinality(es)
           /\ \A a, b \in es : f[a] = f[b] => a = b
<1>1. Cardinality(es) \in Nat
  BY MirrorBounds, FS_Subset, FS_CardinalityType
<1>2. f \in [es -> (rev[s] + 1)..(rev[s] + Cardinality(es))]
  BY DEF Numbered
<1>3. \A e \in es : f[e] \in (rev[s] + 1)..(rev[s] + Cardinality(es))
  BY <1>2
<1>4. \A a, b \in es : f[a] = f[b] => a = b
  BY DEF Numbered
<1>5. rev[s] \in Nat
  BY DEF TypesOK
<1> QED
  BY <1>1, <1>3, <1>4, <1>5

LEMMA LogGrows ==
    ASSUME TypesOK, \A x \in Side : LogOK(x), NEW s \in Side,
           NEW es \in SUBSET Entity, NEW op \in Op, Logged(s, es, op)
    PROVE  /\ log' \in [Side -> SUBSET Entries] /\ rev' \in [Side -> Nat]
           /\ \A x \in Side : rev[x] <= rev'[x]
           /\ \A x \in Side : LogOK(x)'
           /\ \A e \in es : LatestRevision(s, e)' > rev[s] /\ LastIs(s, e, op)'
           /\ \A e \in Entity \ es : SameLatest(s, e)
           /\ \A x \in Side \ {s}, e \in Entity : SameLatest(x, e)
<1>1. PICK f \in Numbered(s, es) :
         log' = [log EXCEPT ![s] = @ \union {Entry(f[e], e, op) : e \in es}]
  BY DEF Logged
<1> DEFINE new(e) == [rev |-> f[e], entity |-> e, op |-> op]
           New == {new(e) : e \in es}
<1>2. /\ Cardinality(es) \in Nat
      /\ \A e \in es : /\ f[e] \in Nat \ {0} /\ f[e] > rev[s]
                        /\ f[e] <= rev[s] + Cardinality(es)
      /\ \A a, b \in es : f[a] = f[b] => a = b
  BY NumberedFacts
<1>3. /\ log'[s] = log[s] \union New
      /\ \A x \in Side \ {s} : log'[x] = log[x]
      /\ rev'[s] = rev[s] + Cardinality(es)
      /\ \A x \in Side \ {s} : rev'[x] = rev[x]
  BY <1>1 DEF Logged, TypesOK, Entry
<1>4. /\ rev \in [Side -> Nat] /\ log \in [Side -> SUBSET Entries]
      /\ \A c \in log[s] : c.rev \in Nat /\ c.rev <= rev[s]
  BY DEF TypesOK, Entries, LogOK
<1>5. \A e \in es : new(e) \in Entries
  BY <1>2 DEF Entries
<1>6. log' \in [Side -> SUBSET Entries] /\ rev' \in [Side -> Nat]
  <2>1. New \subseteq Entries
    BY <1>5
  <2> QED
    BY <1>1, <1>2, <1>4, <2>1 DEF Logged, Entry
<1>7. \A x \in Side : rev[x] <= rev'[x]
  BY <1>2, <1>3, <1>4
<1>8. \A c \in log'[s] : c \in log[s] \/ \E e \in es : c = new(e)
  BY <1>3
<1>9. \A e \in es : new(e) \in log'[s]
  BY <1>3
<1> HIDE DEF New
<1>10. \A c \in log'[s] : c.rev \in Nat
  BY <1>2, <1>4, <1>8
<1>11. ASSUME NEW e \in es
       PROVE  IsNewest(s, e, new(e))'
  <2>1. new(e) \in EntriesOf(s, e)'
    BY <1>9 DEF EntriesOf
  <2>2. \A d \in log'[s] : d.entity = e => d.rev <= f[e]
    BY <1>2, <1>4, <1>8
  <2> QED
    BY <2>1, <2>2 DEF IsNewest, Newest
<1>12. ASSUME NEW e \in Entity \ es
       PROVE  EntriesOf(s, e)' = EntriesOf(s, e)
  BY <1>3, <1>8 DEF EntriesOf
<1>13. ASSUME NEW e \in Entity \ es, NEW c \in EntriesOf(s, e)
       PROVE  Newest(c, log[s])' <=> Newest(c, log[s])
  <2>1. c.entity = e
    BY DEF EntriesOf
  <2>2. \A d : d \in log'[s] /\ d.entity = e <=> d \in log[s] /\ d.entity = e
    BY <1>3, <1>8
  <2> QED
    BY <2>1, <2>2 DEF Newest
<1>14. ASSUME NEW e \in Entity \ es
       PROVE  SameLatest(s, e)
  <2>1. LatestRevision(s, e)' = LatestRevision(s, e)
    <3>1. CASE EntriesOf(s, e) = {}
      <4>1. EntriesOf(s, e)' = {}
        BY <1>12, <3>1
      <4> QED
        BY <3>1, <4>1 DEF LatestRevision
    <3>2. CASE EntriesOf(s, e) # {}
      <4>1. PICK c \in log[s] : c \in EntriesOf(s, e) /\ Newest(c, log[s])
        BY <3>2 DEF LogOK, IsNewest
      <4>2. c \in log'[s] /\ c.entity = e /\ Newest(c, log'[s])
        BY <1>3, <1>13, <4>1 DEF EntriesOf
      <4>3. LatestIn(log[s], e) = c.rev
        BY <1>4, <4>1, LatestInIs DEF EntriesOf
      <4>4. LatestIn(log'[s], e) = c.rev
        BY <1>10, <4>2, LatestInIs
      <4> QED
        BY <4>3, <4>4, LatestRevisionIs
    <3> QED
      BY <3>1, <3>2
  <2>2. \A o : LastIs(s, e, o) => LastIs(s, e, o)'
    BY <1>3, <1>12, <1>13 DEF LastIs, IsNewest
  <2> QED
    BY <2>1, <2>2 DEF SameLatest
<1>15. LogOK(s)'
  <2>1. \A c \in log'[s] : c.rev <= rev'[s]
    BY <1>2, <1>3, <1>4, <1>8
  <2>2. ASSUME NEW c \in log'[s], NEW d \in log'[s], c.rev = d.rev
        PROVE  c = d
    <3>1. CASE c \in log[s] /\ d \in log[s]
      BY <2>2, <3>1 DEF LogOK
    <3>2. CASE c \notin log[s] /\ d \notin log[s]
      BY <1>2, <1>8, <2>2, <3>2
    <3>3. CASE \/ c \in log[s] /\ d \notin log[s]
               \/ d \in log[s] /\ c \notin log[s]
      BY <1>2, <1>4, <1>8, <2>2, <3>3
    <3> QED
      BY <3>1, <3>2, <3>3
  <2>3. ASSUME NEW e \in Entity, EntriesOf(s, e)' # {}
        PROVE  \E c \in log'[s] : IsNewest(s, e, c)'
    <3>1. CASE e \in es
      BY <1>9, <1>11, <3>1
    <3>2. CASE e \notin es
      <4>1. EntriesOf(s, e)' = EntriesOf(s, e)
        BY <1>12, <3>2
      <4>2. PICK c \in log[s] : c \in EntriesOf(s, e) /\ Newest(c, log[s])
        BY <2>3, <4>1 DEF LogOK, IsNewest
      <4>3. c \in log'[s] /\ Newest(c, log[s])'
        BY <1>3, <1>13, <3>2, <4>2
      <4> QED
        BY <4>1, <4>2, <4>3 DEF IsNewest
    <3> QED
      BY <3>1, <3>2
  <2> QED
    BY <2>1, <2>2, <2>3 DEF LogOK
<1>16. ASSUME NEW x \in Side \ {s}
       PROVE  LogOK(x)' /\ \A e \in Entity : SameLatest(x, e)
  <2>1. log'[x] = log[x] /\ rev'[x] = rev[x]
    BY <1>3
  <2>2. LogOK(x)'
    BY <2>1 DEF LogOK, EntriesOf, IsNewest
  <2> QED
    BY <2>1, <2>2, SameLog
<1>17. \A x \in Side : LogOK(x)'
  BY <1>15, <1>16
<1>18. ASSUME NEW e \in es
       PROVE  LatestRevision(s, e)' > rev[s] /\ LastIs(s, e, op)'
  <2>1. LastIs(s, e, op)'
    BY <1>9, <1>11 DEF LastIs
  <2>2. LatestRevision(s, e)' = f[e]
    <3>1. Newest(new(e), log'[s])
      BY <1>11 DEF IsNewest
    <3>2. LatestIn(log'[s], e) = new(e).rev
      BY <1>9, <1>10, <3>1, LatestInIs
    <3> QED
      BY <3>2, LatestRevisionIs
  <2> QED
    BY <1>2, <2>1, <2>2
<1> QED
  BY <1>6, <1>7, <1>14, <1>16, <1>17, <1>18

(* Compaction keeps the newest entry of each record. *)
LEMMA LogCompacts ==
    ASSUME TypesOK, \A x \in Side : LogOK(x), NEW s \in Side, CompactEntityChanges(s)
    PROVE  /\ log' \in [Side -> SUBSET Entries]
           /\ \A x \in Side : LogOK(x)' /\ \A e \in Entity : SameLatest(x, e)
<1>1. /\ log'[s] = {c \in log[s] : Newest(c, log[s])}
      /\ \A x \in Side \ {s} : log'[x] = log[x]
      /\ rev' = rev
      /\ log' \in [Side -> SUBSET Entries]
  BY DEF CompactEntityChanges, TypesOK
<1>2. /\ rev \in [Side -> Nat]
      /\ \A c \in log[s] : c.rev \in Nat /\ c.rev <= rev[s]
      /\ \A c \in log'[s] : c.rev \in Nat
  BY <1>1 DEF TypesOK, Entries, LogOK
<1>3. ASSUME NEW e \in Entity, NEW c \in log[s], IsNewest(s, e, c)
      PROVE  IsNewest(s, e, c)' /\ c \in log'[s]
  BY <1>1, <1>3 DEF IsNewest, EntriesOf, Newest
<1>4. ASSUME NEW e \in Entity
      PROVE  SameLatest(s, e)
  <2>1. LatestRevision(s, e)' = LatestRevision(s, e)
    <3>1. CASE EntriesOf(s, e) = {}
      <4>1. EntriesOf(s, e)' = {}
        BY <1>1, <3>1 DEF EntriesOf
      <4> QED
        BY <3>1, <4>1 DEF LatestRevision
    <3>2. CASE EntriesOf(s, e) # {}
      <4>1. PICK c \in log[s] : IsNewest(s, e, c)
        BY <3>2 DEF LogOK
      <4>2. c \in log'[s] /\ IsNewest(s, e, c)'
        BY <1>3, <4>1
      <4>3. LatestIn(log[s], e) = c.rev
        BY <1>2, <4>1, LatestInIs DEF IsNewest, EntriesOf
      <4>4. LatestIn(log'[s], e) = c.rev
        <5>1. c.entity = e /\ Newest(c, log'[s])
          BY <4>2 DEF IsNewest, EntriesOf
        <5> QED
          BY <1>2, <4>2, <5>1, LatestInIs
      <4> QED
        BY <4>3, <4>4, LatestRevisionIs
    <3> QED
      BY <3>1, <3>2
  <2>2. \A op : LastIs(s, e, op) => LastIs(s, e, op)'
    BY <1>3 DEF LastIs
  <2> QED
    BY <2>1, <2>2 DEF SameLatest
<1>5. LogOK(s)'
  <2>1. ASSUME NEW e \in Entity, EntriesOf(s, e)' # {}
        PROVE  \E c \in log'[s] : IsNewest(s, e, c)'
    <3>1. EntriesOf(s, e) # {}
      BY <1>1, <2>1 DEF EntriesOf
    <3>2. PICK c \in log[s] : IsNewest(s, e, c)
      BY <3>1 DEF LogOK
    <3> QED
      BY <1>3, <3>2
  <2>2. /\ \A c \in log'[s] : c.rev <= rev'[s]
        /\ \A c, d \in log'[s] : c.rev = d.rev => c = d
    BY <1>1, <1>2 DEF LogOK
  <2> QED
    BY <2>1, <2>2 DEF LogOK
<1>6. ASSUME NEW x \in Side \ {s}
      PROVE  LogOK(x)' /\ \A e \in Entity : SameLatest(x, e)
  <2>1. log'[x] = log[x] /\ rev'[x] = rev[x]
    BY <1>1
  <2>2. LogOK(x)'
    BY <2>1 DEF LogOK, EntriesOf, IsNewest
  <2> QED
    BY <2>1, <2>2, SameLog
<1> QED
  BY <1>1, <1>4, <1>5, <1>6

(***************************************************************************)
(* What a step does to the records of the sides.                           *)
(***************************************************************************)
Still(x, e) == store'[x][e] = store[x][e] /\ SameLatest(x, e)

LEMMA StillMeans ==
    ASSUME NEW x, NEW e, Still(x, e)
    PROVE  /\ Held(x, e)' = Held(x, e) /\ Active(x, e)' = Active(x, e)
           /\ VersionOf(x, e)' = VersionOf(x, e)
           /\ LatestRevision(x, e)' = LatestRevision(x, e)
BY DEF Still, SameLatest, Held, Active, VersionOf, IsRow

LEMMA RecordFacts ==
    ASSUME TypesOK, NEW x \in Side, NEW e \in Entity
    PROVE  /\ store[x][e] \in Record \union {None}
           /\ Held(x, e) \subseteq Edit /\ VersionOf(x, e) \in Nat
           /\ Active(x, e) \in BOOLEAN
           /\ store[x][e] # None =>
                 /\ store[x][e] \in Record
                 /\ Held(x, e) = store[x][e].edits
                 /\ VersionOf(x, e) = store[x][e].version
<1>1. store[x][e] \in Record \union {None}
  BY DEF TypesOK
<1> QED
  BY <1>1 DEF Held, VersionOf, Active, IsRow, Record

LEMMA AllStill ==
    ASSUME UNCHANGED <<store, log>>
    PROVE  \A x, e : Still(x, e)
BY SameLog DEF Still

(* The records es of the side s change; those in logged are logged. *)
Changes(s, es, logged, op) ==
    /\ store' \in [Side -> [Entity -> Record \union {None}]]
    /\ \A x \in Side, e \in Entity :
          (x # s \/ e \notin es) => store'[x][e] = store[x][e]
    /\ \A e \in es : /\ store'[s][e] # None /\ store'[s][e].version >= 1
                     /\ IsRow(store'[s][e]) => e \in logged /\ op = "upsert"
    /\ logged \subseteq es /\ Logged(s, logged, op)

(* What all steps keep of the stores and their logs. *)
StoresOK ==
    /\ store \in [Side -> [Entity -> Record \union {None}]]
    /\ log \in [Side -> SUBSET Entries] /\ rev \in [Side -> Nat]
    /\ VersionsOK /\ LogTrue
    /\ \A s \in Side : LogOK(s)

LEMMA ChangesKeep ==
    ASSUME TypesOK, StoresOK, NEW s \in Side, NEW es \in SUBSET Entity, NEW logged,
           NEW op \in Op, Changes(s, es, logged, op)
    PROVE  /\ StoresOK'
           /\ \A x \in Side : rev[x] <= rev'[x]
           /\ \A x \in Side, e \in Entity : (x # s \/ e \notin es) => Still(x, e)
           /\ \A e \in es : Active(s, e)' => LatestRevision(s, e)' > rev[s]
           /\ \A e \in logged : LatestRevision(s, e)' > rev[s]
<1>1. logged \in SUBSET Entity /\ Logged(s, logged, op)
  BY DEF Changes
<1>2. /\ log' \in [Side -> SUBSET Entries] /\ rev' \in [Side -> Nat]
      /\ \A x \in Side : rev[x] <= rev'[x]
      /\ \A x \in Side : LogOK(x)'
      /\ \A e \in logged : LatestRevision(s, e)' > rev[s] /\ LastIs(s, e, op)'
      /\ \A e \in Entity \ logged : SameLatest(s, e)
      /\ \A x \in Side \ {s}, e \in Entity : SameLatest(x, e)
  BY <1>1, LogGrows DEF StoresOK
<1>3. \A x \in Side, e \in Entity : (x # s \/ e \notin es) => Still(x, e)
  BY <1>2 DEF Changes, Still
<1>4. \A e \in es : Active(s, e)' => LatestRevision(s, e)' > rev[s]
  BY <1>2 DEF Changes, Active
<1>5. VersionsOK'
  BY DEF Changes, VersionsOK, VersionOf, StoresOK
<1>6. ASSUME NEW x \in Side, NEW e \in Entity, IsRow(store'[x][e])
      PROVE  LastIs(x, e, "upsert")'
  <2>1. CASE x = s /\ e \in es
    BY <1>2, <1>6, <2>1 DEF Changes
  <2>2. CASE x # s \/ e \notin es
    BY <1>3, <1>6, <2>2 DEF Still, SameLatest, LogTrue, StoresOK
  <2> QED
    BY <2>1, <2>2
<1> QED
  BY <1>2, <1>3, <1>4, <1>5, <1>6 DEF StoresOK, LogTrue, Changes

(* A cursor stays honest where what its side holds goes only for records the
   cursor does not cover. *)
LEMMA CursorsStay ==
    ASSUME MirrorInv, StoresOK', cur' = cur, NEW s \in Side, NEW es \in SUBSET Entity,
           rev' \in [Side -> Nat], \A x \in Side : rev[x] <= rev'[x],
           \A x \in Side, e \in Entity : (x # s \/ e \notin es) => Still(x, e),
           \A e \in es : Active(s, e)' => LatestRevision(s, e)' > rev[s],
           \A e \in es :
              LatestRevision(Other(s), e) <= cur[s] /\ Active(Other(s), e)
                 => Held(Other(s), e) \subseteq Held(s, e)'
    PROVE  CursorHonest' /\ CursorsOK'
<1>1. cur \in [Side -> Nat] /\ rev \in [Side -> Nat]
  BY DEF MirrorInv, TypesOK
<1>2. CursorsOK'
  BY <1>1, Sides DEF MirrorInv, CursorsOK
<1>3. ASSUME NEW x \in Side, NEW e \in Entity,
             LatestRevision(Other(x), e)' <= cur[x], Active(Other(x), e)'
      PROVE  Held(Other(x), e)' \subseteq Held(x, e)'
  <2> DEFINE o == Other(x)
  <2>1. o \in Side /\ o # x /\ Other(o) = x /\ (x = s \/ o = s)
    BY Sides
  <2> HIDE DEF o
  <2>2. CASE e \notin es
    <3>1. Still(x, e) /\ Still(o, e)
      BY <2>1, <2>2
    <3> QED
      BY <1>3, <3>1, StillMeans DEF MirrorInv, CursorHonest, o
  <2>3. CASE e \in es /\ x = s
    <3>1. Still(o, e)
      BY <2>1, <2>3
    <3> QED
      BY <1>3, <2>3, <3>1, StillMeans DEF o
  <2>4. CASE e \in es /\ o = s
    <3>1. LatestRevision(o, e)' > rev[o]
      BY <1>3, <2>4 DEF o
    <3>2. cur[x] <= rev[o]
      BY <2>1 DEF MirrorInv, CursorsOK, o
    <3>3. LatestRevision(o, e)' \in Nat
      BY <2>1, LatestTypeNext DEF StoresOK
    <3> QED
      BY <1>1, <1>3, <2>1, <3>1, <3>2, <3>3 DEF o
  <2> QED
    BY <2>1, <2>2, <2>3, <2>4
<1> QED
  BY <1>2, <1>3 DEF CursorHonest

(***************************************************************************)
(* Clients, retention and compaction beside a run: a record stays as it    *)
(* is, or grows on one side and is logged there, outside the windows.      *)
(***************************************************************************)
Grows(x, e) ==
    \/ Still(x, e)
    \/ /\ Held(x, e) \subseteq Held(x, e)'
       /\ VersionOf(x, e) < VersionOf(x, e)'
       /\ LatestRevision(x, e)' > rev[x]
       /\ Active(x, e)' => ~InWindow(x, e)

Beside ==
    /\ MirrorInv /\ Closed /\ StoresOK'
    /\ \A x \in Side, e \in Entity : Grows(x, e)
    /\ \A x \in Side : rev[x] <= rev'[x]
    /\ cur' = cur /\ run'.at = run.at /\ run'.pass = run.pass
    /\ run'.outbound = run.outbound /\ run'.cursor = run.cursor
    /\ run'.touched = run.touched /\ run'.pulled = run.pulled
    /\ run'.plan = run.plan

LEMMA GrowsFacts ==
    ASSUME Beside, NEW x \in Side, NEW e \in Entity
    PROVE  /\ Held(x, e) \subseteq Held(x, e)'
           /\ VersionOf(x, e) \in Nat /\ VersionOf(x, e)' \in Nat
           /\ LatestRevision(x, e) \in Nat /\ LatestRevision(x, e) <= rev[x]
           /\ LatestRevision(x, e)' \in Nat
           /\ rev[x] \in Nat
           /\ LatestRevision(x, e) <= LatestRevision(x, e)'
           /\ VersionOf(x, e) <= VersionOf(x, e)'
<1>1. /\ LatestRevision(x, e) \in Nat /\ LatestRevision(x, e) <= rev[x]
      /\ LatestRevision(x, e)' \in Nat /\ rev[x] \in Nat
  BY LatestType, LatestTypeNext DEF Beside, MirrorInv, StoresOK, TypesOK
<1>2. store[x][e] \in Record \union {None} /\ store'[x][e] \in Record \union {None}
  BY DEF Beside, MirrorInv, TypesOK, StoresOK
<1>3. VersionOf(x, e) \in Nat /\ VersionOf(x, e)' \in Nat
  BY <1>2 DEF VersionOf, Record
<1>4. CASE Still(x, e)
  BY <1>1, <1>3, <1>4, StillMeans
<1>5. CASE ~Still(x, e)
  BY <1>1, <1>3, <1>5 DEF Beside, Grows
<1> QED
  BY <1>1, <1>3, <1>4, <1>5

LEMMA BesideRun ==
    ASSUME Beside, NEW a \in Side, NEW b \in Side, a = Source, b = Target
    PROVE  RunInv(a, b)'
<1> USE DEF Beside
<1>1. /\ RunInv(a, b) /\ PhaseInv /\ run \in Runs /\ CursorsOK
      /\ a # b /\ Other(a) = b /\ Other(b) = a
      /\ cur \in [Side -> Nat] /\ rev \in [Side -> Nat] /\ rev' \in [Side -> Nat]
      /\ rev[a] <= rev'[a] /\ rev[b] <= rev'[b]
  BY Sides DEF MirrorInv, TypesOK, StoresOK
<1>2. /\ run.touched \subseteq Entity
      /\ DOMAIN run.pulled.records \subseteq Entity /\ run.pulled.deletes \subseteq Entity
      /\ DOMAIN run.plan.copy \subseteq Entity /\ DOMAIN run.plan.deleteSource \subseteq Entity
      /\ DOMAIN run.plan.deleteTarget \subseteq Entity
      /\ run.plan.next \in Nat /\ run.cursor \in Nat /\ run.outbound \in Nat
  BY <1>1 DEF Runs, Plans, Pulls, Maps
<1>3. run.plan.next <= rev[a] \/ ~Busy \/ run.at = "pull"
  BY <1>1 DEF RunInv, PassInv
<1>4. Busy => run.outbound = cur[a] /\ cur[a] <= rev[b] /\ run.cursor = cur[b]
  BY <1>1 DEF RunInv, PassInv, CursorsOK
<1>5. /\ DOMAIN run.pulled.records # {} \/ run.pulled.deletes # {} => run.at = "plan"
      /\ DOMAIN run.plan.copy # {} \/ DOMAIN run.plan.deleteTarget # {}
            => run.at \notin {"idle", "done", "pull", "plan"}
      /\ DOMAIN run.plan.deleteSource # {} => run.at = "deleteSource"
      /\ run.touched # {} => run.at \notin {"idle", "done"}
  BY <1>1 DEF PhaseInv
<1>6. \A e \in Entity :
         Active(b, e)' /\ ~Still(b, e) => e \notin run.touched
  BY <1>1, <1>5 DEF Grows, InWindow, Closed
<1>7. \A e \in Entity :
         Active(b, e)' /\ ~Still(b, e) => e \notin DOMAIN run.plan.deleteTarget
  BY <1>1, <1>5 DEF Grows, InWindow, Closed
<1>8. \A e \in Entity :
         Active(a, e)' /\ ~Still(a, e) => e \notin DOMAIN run.plan.deleteSource
  BY <1>1, <1>5 DEF Grows, InWindow, Closed
<1>9. \A e \in DOMAIN run.pulled.records :
         Active(a, e)' /\ ~Still(a, e) => run.pulled.records[e].kind # "deleted"
  BY <1>1, <1>2, <1>5 DEF Grows, InWindow, Closed
<1>10. \A e \in Entity : Busy /\ Active(b, e)' /\ ~Still(b, e) => ~Settled(b, e)'
  <2> SUFFICES ASSUME NEW e \in Entity, Busy, Active(b, e)', ~Still(b, e)
               PROVE  ~Settled(b, e)'
    OBVIOUS
  <2>1. LatestRevision(b, e)' > rev[b] /\ LatestRevision(b, e)' \in Nat /\ rev[b] \in Nat
    BY GrowsFacts DEF Grows
  <2> QED
    BY <1>1, <1>4, <1>6, <2>1 DEF Settled
<1>11. \A e \in Entity : Past(a, e) /\ Busy /\ run.at # "pull" => Past(a, e)'
  <2> SUFFICES ASSUME NEW e \in Entity, Past(a, e), Busy, run.at # "pull", ~Still(a, e)
               PROVE  Past(a, e)'
    BY StillMeans DEF Past
  <2>1. LatestRevision(a, e)' > rev[a] /\ LatestRevision(a, e)' \in Nat /\ rev[a] \in Nat
    BY GrowsFacts DEF Grows
  <2> QED
    BY <1>2, <1>3, <2>1 DEF Past
<1>12. \A e \in Entity : LogsLate(a, e) => LogsLate(a, e)'
  BY <1>2, GrowsFacts DEF LogsLate
<1>13. PassInv(a, b)'
  BY <1>1, <1>2 DEF PassInv, RunInv, Busy
<1>14. TouchedInv(a, b)'
  <2> SUFFICES ASSUME NEW e \in run.touched, Active(b, e)'
               PROVE  Held(b, e)' \subseteq Held(a, e)'
    BY DEF TouchedInv
  <2>1. Still(b, e)
    BY <1>2, <1>6
  <2> QED
    BY <1>1, <1>2, <2>1, StillMeans, GrowsFacts DEF RunInv, TouchedInv
<1>15. PulledInv(a, b)'
  <2>1. ASSUME NEW e \in DOMAIN run.pulled.records
        PROVE  Pulled1(a, b, e, run.pulled.records[e])'
    <3>1. e \in Entity /\ Pulled1(a, b, e, run.pulled.records[e]) /\ Busy
      BY <1>1, <1>2, <1>5 DEF RunInv, PulledInv, Busy
    <3>2. LogsLate(a, e)' /\ Held(a, e) \subseteq Held(a, e)'
      BY <1>12, <3>1, GrowsFacts DEF Pulled1
    <3>3. Active(a, e)' => Still(a, e) \/ run.pulled.records[e].kind # "deleted"
      BY <1>9, <3>1
    <3>4. Active(b, e)' /\ Settled(b, e)' => Still(b, e)
      BY <1>10, <3>1
    <3>5. Still(b, e) => (Settled(b, e)' <=> Settled(b, e))
      BY StillMeans DEF Settled
    <3> QED
      BY <3>1, <3>2, <3>3, <3>4, <3>5, StillMeans DEF Pulled1
  <2>2. ASSUME NEW e \in run.pulled.deletes
        PROVE  Past(a, e)'
    BY <1>1, <1>2, <1>5, <1>11 DEF RunInv, PulledInv, Busy
  <2> QED
    BY <2>1, <2>2 DEF PulledInv
<1>16. PlanInv(a, b)'
  <2> SUFFICES ASSUME run.at # "save"
               PROVE  PlanInv(a, b)'
    BY DEF PlanInv
  <2>1. ASSUME NEW e \in DOMAIN run.plan.copy
        PROVE  CopyInv(a, b, e, run.plan.copy[e])'
    <3>1. e \in Entity /\ CopyInv(a, b, e, run.plan.copy[e])
      BY <1>1, <1>2 DEF RunInv, PlanInv
    <3>2. LogsLate(a, e)' /\ Held(a, e) \subseteq Held(a, e)'
      BY <1>12, <3>1, GrowsFacts DEF CopyInv
    <3>3. run.plan.copy[e].base \in Nat
      BY <1>1 DEF Runs, Plans, Maps, Copies
    <3>4. /\ run.plan.copy[e].base <= VersionOf(b, e)'
          /\ VersionOf(b, e)' = run.plan.copy[e].base => Still(b, e)
      BY <3>1, <3>3, GrowsFacts DEF CopyInv, Grows
    <3> QED
      BY <3>1, <3>2, <3>4, StillMeans DEF CopyInv
  <2>2. ASSUME NEW e \in DOMAIN run.plan.deleteSource
        PROVE  DeleteSourceInv(a, b, e, run.plan.deleteSource[e])'
    <3>1. e \in Entity /\ DeleteSourceInv(a, b, e, run.plan.deleteSource[e]) /\ Busy
      BY <1>1, <1>2, <1>5 DEF RunInv, PlanInv, Busy
    <3>2. Active(a, e)' => Still(a, e)
      BY <1>8, <3>1
    <3>3. Active(b, e)' => Still(b, e) \/ ~Settled(b, e)'
      BY <1>10, <3>1
    <3>4. Still(b, e) => (Settled(b, e)' <=> Settled(b, e))
      BY StillMeans DEF Settled
    <3>5. Held(b, e) \subseteq Held(b, e)'
      BY <3>1, GrowsFacts
    <3> QED
      BY <3>1, <3>2, <3>3, <3>4, <3>5, StillMeans DEF DeleteSourceInv
  <2>3. ASSUME NEW e \in DOMAIN run.plan.deleteTarget
        PROVE  DeleteTargetInv(a, b, e, run.plan.deleteTarget[e])'
    <3>1. /\ e \in Entity /\ DeleteTargetInv(a, b, e, run.plan.deleteTarget[e])
          /\ Busy /\ run.at # "pull"
      BY <1>1, <1>2, <1>5 DEF RunInv, PlanInv, Busy
    <3>2. Past(a, e)' /\ Held(a, e) \subseteq Held(a, e)'
      BY <1>11, <3>1, GrowsFacts DEF DeleteTargetInv
    <3>3. Active(b, e)' => Still(b, e)
      BY <1>7, <3>1
    <3> QED
      BY <3>1, <3>2, <3>3, StillMeans DEF DeleteTargetInv
  <2> QED
    BY <2>1, <2>2, <2>3 DEF PlanInv
<1>17. PageInv(a, b)'
  <2> SUFFICES ASSUME NEW e \in Entity, Covered(a, e)', Busy, run.at # "pull"
               PROVE  Carried(a, b, e)'
    BY DEF PageInv, Carried, Busy
  <2>1. LatestRevision(a, e)' <= rev[a]
    BY <1>1, <1>2, <1>3, GrowsFacts DEF Covered
  <2>2. Still(a, e)
    BY <2>1, GrowsFacts DEF Grows
  <2>3. Covered(a, e) /\ Carried(a, b, e)
    BY <1>1, <2>2, StillMeans DEF Covered, LogsLate, RunInv, PageInv
  <2>4. Held(b, e) \subseteq Held(b, e)' /\ Held(a, e)' = Held(a, e)
    BY <2>2, GrowsFacts, StillMeans
  <2>5. store'[a][e] = store[a][e]
    BY <2>2 DEF Still
  <2> QED
    BY <2>3, <2>4, <2>5 DEF Carried
<1> QED
  BY <1>13, <1>14, <1>15, <1>16, <1>17 DEF RunInv

LEMMA BesideKeeps ==
    ASSUME Beside, run' \in Runs, clock' \in 0..MaxEdits, aborts' = aborts
    PROVE  MirrorInv'
<1>1. /\ MirrorInv /\ StoresOK' /\ cur' = cur /\ cur \in [Side -> Nat]
      /\ rev \in [Side -> Nat] /\ rev' \in [Side -> Nat]
      /\ \A x \in Side : cur[x] <= rev[Other(x)] /\ rev[x] <= rev'[x]
  BY DEF Beside, MirrorInv, TypesOK, StoresOK, CursorsOK
<1>2. TypesOK'
  BY <1>1 DEF TypesOK, StoresOK, MirrorInv
<1>3. CursorsOK'
  BY <1>1, Sides DEF CursorsOK
<1>4. CursorHonest'
  <2> SUFFICES ASSUME NEW x \in Side, NEW o \in Side, o = Other(x), NEW e \in Entity,
                      LatestRevision(o, e)' <= cur[x], Active(o, e)'
               PROVE  Held(o, e)' \subseteq Held(x, e)'
    BY <1>1, Sides DEF CursorHonest
  <2>1. LatestRevision(o, e)' <= rev[o]
    BY <1>1, GrowsFacts
  <2>2. Still(o, e)
    BY <2>1, GrowsFacts DEF Beside, Grows
  <2>3. Held(o, e) \subseteq Held(x, e)
    BY <1>1, <2>2, StillMeans DEF MirrorInv, CursorHonest
  <2> QED
    BY <2>2, <2>3, StillMeans, GrowsFacts
<1>5. PhaseInv'
  BY DEF Beside, MirrorInv, PhaseInv
<1>6. \A a, b \in Side : (a = Source' /\ b = Target') => RunInv(a, b)'
  <2>1. Source' = Source /\ Target' = Target
    BY DEF Beside, Source, Target, Other
  <2> QED
    BY <2>1, BesideRun
<1> QED
  BY <1>1, <1>2, <1>3, <1>4, <1>5, <1>6 DEF MirrorInv, StoresOK

LEMMA PutChanges ==
    ASSUME TypesOK, NEW s \in Side, NEW es \in SUBSET Entity, NEW new \in [es -> Record],
           NEW op \in Op, Put(s, new, op),
           \A e \in es : new[e].version >= 1 /\ (IsRow(new[e]) => op = "upsert")
    PROVE  Changes(s, es, es, op) /\ \A e \in es : store'[s][e] = new[e]
<1>1. DOMAIN new = es
  OBVIOUS
<1>2. store' = [store EXCEPT ![s] = [e \in Entity |->
                   IF e \in es THEN new[e] ELSE store[s][e]]]
  BY <1>1 DEF Put
<1>3. store \in [Side -> [Entity -> Record \union {None}]]
  BY DEF TypesOK
<1>4. /\ \A e \in Entity : store'[s][e] = IF e \in es THEN new[e] ELSE store[s][e]
      /\ \A x \in Side \ {s} : store'[x] = store[x]
  BY <1>2, <1>3
<1>5. store' \in [Side -> [Entity -> Record \union {None}]]
  <2>1. \A e \in Entity : (IF e \in es THEN new[e] ELSE store[s][e]) \in Record \union {None}
    BY <1>3
  <2> QED
    BY <1>2, <1>3, <2>1
<1>6. Logged(s, es, op)
  BY <1>1 DEF Put, Logged
<1>7. \A e \in es : store'[s][e] = new[e] /\ new[e] # None
  BY <1>4, NoneAssumption
<1> QED
  BY <1>4, <1>5, <1>6, <1>7 DEF Changes

LEMMA StoresNow ==
    ASSUME MirrorInv
    PROVE  StoresOK /\ TypesOK
BY DEF MirrorInv, StoresOK, TypesOK

(* A record that changes by an edit of its side. *)
LEMMA PutBeside ==
    ASSUME MirrorInv, Closed, NEW s \in Side, NEW x \in Entity, NEW r \in Record,
           NEW op \in Op, Put(s, [y \in {x} |-> r], op),
           r.version > VersionOf(s, x), r.version >= 1,
           IsRow(r) => op = "upsert",
           Held(s, x) \subseteq r.edits, r.kind = "active" => ~InWindow(s, x),
           run' = [run EXCEPT !.quiet = FALSE], cur' = cur
    PROVE  Beside /\ store'[s][x] = r /\ \A z \in Side, e \in Entity :
              (z # s \/ e # x) => Still(z, e)
<1>1. [y \in {x} |-> r] \in [{x} -> Record] /\ {x} \in SUBSET Entity
  OBVIOUS
<1>2. Changes(s, {x}, {x}, op) /\ store'[s][x] = r
  BY <1>1, PutChanges, StoresNow
<1>3. /\ StoresOK' /\ \A z \in Side : rev[z] <= rev'[z]
      /\ \A z \in Side, e \in Entity : (z # s \/ e \notin {x}) => Still(z, e)
      /\ LatestRevision(s, x)' > rev[s]
  BY <1>2, ChangesKeep, StoresNow
<1>4. Grows(s, x)
  <2>1. store'[s][x] # None
    BY <1>2, NoneAssumption
  <2>2. VersionOf(s, x)' = r.version /\ Held(s, x)' = r.edits
    BY <1>2, <2>1 DEF VersionOf, Held
  <2>3. Active(s, x)' => ~InWindow(s, x)
    BY <1>2 DEF Active
  <2> QED
    BY <1>3, <2>2, <2>3 DEF Grows
<1>5. run \in Runs
  BY DEF MirrorInv, TypesOK
<1>6. /\ run'.at = run.at /\ run'.pass = run.pass
      /\ run'.outbound = run.outbound /\ run'.cursor = run.cursor
      /\ run'.touched = run.touched /\ run'.pulled = run.pulled
      /\ run'.plan = run.plan
  BY <1>5 DEF Runs
<1>7. \A z \in Side, e \in Entity : Grows(z, e)
  BY <1>3, <1>4 DEF Grows
<1> QED
  BY <1>2, <1>3, <1>6, <1>7 DEF Beside

LEMMA QuietRun ==
    ASSUME TypesOK, run' = [run EXCEPT !.quiet = FALSE]
    PROVE  run' \in Runs
BY DEF TypesOK, Runs

LEMMA WriteKeeps ==
    ASSUME MirrorInv, Closed, NEW s \in Side, NEW x \in Entity,
           NEW kind \in {"active", "deleted"}, Write(s, x, kind)
    PROVE  /\ MirrorInv'
           /\ \A z \in Side, e \in Entity : (z # s \/ e # x) => Still(z, e)
           /\ clock + 1 \in Edit /\ Held(s, x)' = Held(s, x) \union {clock + 1}
<1> DEFINE r == Edited(store[s][x], kind)
<1>1. /\ store[s][x] \in Record \union {None}
      /\ clock \in 0..MaxEdits /\ clock + 1 \in Edit /\ clock' \in 0..MaxEdits
      /\ MaxEdits \in Nat
  BY MirrorBounds DEF MirrorInv, TypesOK, Write, Edit
<1>2. /\ r \in Record /\ r.edits = Held(s, x) \union {clock + 1}
      /\ r.kind # "tombstone" /\ r.version > VersionOf(s, x) /\ r.version >= 1
  <2>1. CASE store[s][x] = None
    BY <1>1, <2>1 DEF Edited, Record, Held, VersionOf
  <2>2. CASE store[s][x] # None
    BY <1>1, <2>2 DEF Edited, Record, Held, VersionOf
  <2> QED
    BY <2>1, <2>2
<1> HIDE DEF r
<1>3. Put(s, [y \in {x} |-> r], "upsert") /\ ~InWindow(s, x)
  BY DEF Write, r
<1>4. /\ Beside /\ store'[s][x] = r
      /\ \A z \in Side, e \in Entity : (z # s \/ e # x) => Still(z, e)
  <2>1. "upsert" \in Op
    BY DEF Op
  <2> QED
    BY <1>2, <1>3, <2>1, PutBeside DEF Write
<1>5. run' \in Runs
  BY QuietRun, StoresNow DEF Write
<1>6. MirrorInv'
  BY <1>1, <1>4, <1>5, BesideKeeps DEF Write
<1>7. Held(s, x)' = r.edits
  BY <1>2, <1>4, NoneAssumption DEF Held
<1> QED
  BY <1>1, <1>2, <1>4, <1>6, <1>7

LEMMA CleanupKeeps ==
    ASSUME MirrorInv, Closed, NEW s \in Side, NEW x \in Entity, CleanupTrash(s, x)
    PROVE  /\ MirrorInv'
           /\ \A z \in Side, e \in Entity : (z # s \/ e # x) => Still(z, e)
           /\ Held(s, x)' = Held(s, x) /\ ~Active(s, x)'
<1> DEFINE r == Buried(store[s][x])
<1>1. store[s][x] \in Record /\ clock \in 0..MaxEdits /\ MaxEdits \in Nat
  BY MirrorBounds DEF MirrorInv, TypesOK, CleanupTrash, IsRow
<1>2. /\ r \in Record /\ r.edits = Held(s, x) /\ store[s][x] # None
      /\ r.kind = "tombstone" /\ r.version > VersionOf(s, x) /\ r.version >= 1
  BY <1>1, NoneAssumption DEF Buried, Record, Held, VersionOf
<1> HIDE DEF r
<1>3. /\ Put(s, [y \in {x} |-> r], "delete") /\ ~IsRow(r) /\ r.kind # "active"
      /\ run' = [run EXCEPT !.quiet = FALSE] /\ cur' = cur
      /\ Held(s, x) \subseteq r.edits
  BY <1>2 DEF CleanupTrash, IsRow, r
<1>4. /\ Beside /\ store'[s][x] = r
      /\ \A z \in Side, e \in Entity : (z # s \/ e # x) => Still(z, e)
  <2>1. "delete" \in Op
    BY DEF Op
  <2> QED
    BY <1>2, <1>3, <2>1, PutBeside
<1>5. run' \in Runs
  BY QuietRun, StoresNow DEF CleanupTrash
<1>6. clock' \in 0..MaxEdits /\ aborts' = aborts
  BY <1>1 DEF CleanupTrash
<1>7. MirrorInv'
  BY <1>4, <1>5, <1>6, BesideKeeps
<1>8. Held(s, x)' = r.edits /\ ~Active(s, x)'
  BY <1>2, <1>4, NoneAssumption DEF Held, Active, IsRow
<1> QED
  BY <1>2, <1>4, <1>7, <1>8

LEMMA CompactKeeps ==
    ASSUME MirrorInv, Closed, NEW s \in Side, CompactEntityChanges(s)
    PROVE  MirrorInv' /\ \A x \in Side, e \in Entity : Still(x, e)
<1>1. /\ log' \in [Side -> SUBSET Entries] /\ \A x \in Side : LogOK(x)'
      /\ \A x \in Side, e \in Entity : SameLatest(x, e)
  BY LogCompacts DEF MirrorInv
<1>2. /\ clock' = clock /\ store' = store /\ rev' = rev /\ cur' = cur
      /\ run' = run /\ aborts' = aborts
  BY DEF CompactEntityChanges
<1>3. \A x \in Side, e \in Entity : Still(x, e)
  BY <1>1, <1>2 DEF Still
<1>4. StoresOK'
  <2>1. VersionsOK'
    BY <1>2 DEF MirrorInv, VersionsOK, VersionOf
  <2>2. LogTrue'
    BY <1>1, <1>2 DEF MirrorInv, LogTrue, SameLatest, IsRow
  <2> QED
    BY <1>1, <1>2, <2>1, <2>2 DEF StoresOK, MirrorInv, TypesOK
<1>5. rev \in [Side -> Nat] /\ run \in Runs /\ clock \in 0..MaxEdits
  BY DEF MirrorInv, TypesOK
<1>6. Beside
  BY <1>2, <1>3, <1>4, <1>5 DEF Beside, Grows
<1> QED
  BY <1>2, <1>3, <1>5, <1>6, BesideKeeps

(***************************************************************************)
(* The steps of a run that leave the databases alone.                      *)
(***************************************************************************)
Standing == UNCHANGED <<clock, store, log, rev>>

LEMMA StandStill ==
    ASSUME MirrorInv, Standing
    PROVE  /\ StoresOK' /\ clock' \in 0..MaxEdits
           /\ \A x \in Side, e \in Entity : Still(x, e)
           /\ cur' = cur => CursorsOK' /\ CursorHonest'
<1>1. \A x, e : Still(x, e)
  BY AllStill DEF Standing
<1>2. StoresOK'
  <2>1. VersionsOK' /\ \A s \in Side : LogOK(s)'
    BY DEF Standing, MirrorInv, VersionsOK, VersionOf, LogOK, EntriesOf, IsNewest
  <2>2. LogTrue'
    BY <1>1 DEF Standing, MirrorInv, LogTrue, Still, SameLatest
  <2> QED
    BY <2>1, <2>2 DEF StoresOK, MirrorInv, TypesOK, Standing
<1>3. ASSUME cur' = cur
      PROVE  CursorsOK' /\ CursorHonest'
  <2>1. CursorsOK'
    BY <1>3 DEF MirrorInv, CursorsOK, Standing
  <2>2. CursorHonest'
    BY <1>1, <1>3, StillMeans DEF MirrorInv, CursorHonest
  <2> QED
    BY <2>1, <2>2
<1>4. clock' \in 0..MaxEdits
  BY DEF Standing, MirrorInv, TypesOK
<1> QED
  BY <1>1, <1>2, <1>3, <1>4

LEMMA InvNext ==
    ASSUME StoresOK', clock' \in 0..MaxEdits, cur' \in [Side -> Nat], aborts' \in Nat,
           run' \in Runs, CursorsOK', CursorHonest', PhaseInv',
           \A a, b \in Side : (a = Source' /\ b = Target') => RunInv(a, b)'
    PROVE  MirrorInv'
BY DEF MirrorInv, TypesOK, StoresOK

LEMMA NothingMaps ==
    ASSUME NEW T
    PROVE  Nothing \in Maps(T) /\ DOMAIN Nothing = {}
<1>1. Nothing \in [{} -> T] /\ DOMAIN Nothing = {}
  BY DEF Nothing
<1>2. {} \in SUBSET Entity
  OBVIOUS
<1> QED
  BY <1>1, <1>2 DEF Maps

LEMMA IdleRun ==
    /\ Idle \in Runs
    /\ Idle.at = "idle" /\ Idle.touched = {}
    /\ Idle.plan = NothingPlanned /\ Idle.pulled = NothingPulled
<1>1. NothingPulled \in Pulls
  BY NothingMaps DEF NothingPulled, Pulls
<1>2. NothingPlanned \in Plans
  BY NothingMaps DEF NothingPlanned, Plans
<1> QED
  BY <1>1, <1>2 DEF Idle, Runs, Place

LEMMA PassIs ==
    ASSUME NEW n \in 1..3, NEW cursors \in [Side -> Nat], NEW quiet, quiet \in BOOLEAN,
           NEW b, b = IF n = 2 THEN "remote" ELSE "local",
           NEW r, r = Pass(n, cursors, quiet)
    PROVE  /\ r \in Runs /\ r.at = "pull" /\ r.pass = n /\ r.touched = {}
           /\ r.plan = NothingPlanned /\ r.pulled = NothingPulled
           /\ r.outbound = cursors[Other(b)] /\ r.cursor = cursors[b] /\ r.quiet = quiet
<1>1. cursors[Other(b)] \in Nat /\ cursors[b] \in Nat
  BY DEF Side, Other
<1>2. r = [at |-> "pull", pass |-> n, outbound |-> cursors[Other(b)],
          cursor |-> cursors[b], touched |-> {}, pulled |-> NothingPulled,
          plan |-> NothingPlanned, quiet |-> quiet]
  BY DEF Pass, Idle
<1>3. NothingPulled \in Pulls /\ NothingPlanned \in Plans
  BY NothingMaps DEF NothingPulled, Pulls, NothingPlanned, Plans
<1> QED
  BY <1>1, <1>2, <1>3 DEF Runs, Place

(* A run with nothing in hand. *)
Fresh ==
    /\ run' \in Runs /\ run'.at \in {"idle", "pull", "done"}
    /\ run'.touched = {} /\ run'.plan = NothingPlanned /\ run'.pulled = NothingPulled
    /\ \A a, b \in Side : (a = Source' /\ b = Target' /\ run'.at = "pull") =>
          run'.outbound = cur'[a] /\ run'.cursor = cur'[b]

LEMMA FreshRun ==
    ASSUME Fresh
    PROVE  PhaseInv' /\ \A a, b \in Side : (a = Source' /\ b = Target') => RunInv(a, b)'
<1> SUFFICES ASSUME NEW a \in Side, NEW b \in Side
             PROVE  PhaseInv' /\ (a = Source' /\ b = Target' => RunInv(a, b)')
  BY DEF Side
<1> USE DEF Fresh
<1>2. /\ DOMAIN run'.plan.copy = {} /\ DOMAIN run'.plan.deleteSource = {}
      /\ DOMAIN run'.plan.deleteTarget = {}
      /\ DOMAIN run'.pulled.records = {} /\ run'.pulled.deletes = {}
  BY NothingMaps DEF NothingPlanned, NothingPulled
<1>3. PhaseInv'
  BY <1>2 DEF PhaseInv
<1>4. a = Source' /\ b = Target' => PassInv(a, b)'
  BY DEF PassInv, Busy
<1>5. TouchedInv(a, b)' /\ PulledInv(a, b)' /\ PlanInv(a, b)'
  BY <1>2 DEF TouchedInv, PulledInv, PlanInv
<1>6. PageInv(a, b)'
  BY DEF PageInv, Carried
<1> QED
  BY <1>3, <1>4, <1>5, <1>6 DEF RunInv

LEMMA IdleKeeps ==
    ASSUME MirrorInv, StoresOK', clock' \in 0..MaxEdits, cur' = cur, CursorsOK',
           CursorHonest', aborts' \in Nat, run' = Idle
    PROVE  MirrorInv'
<1>1. Fresh
  BY IdleRun DEF Fresh
<1> QED
  BY <1>1, FreshRun, InvNext DEF MirrorInv, TypesOK, Fresh

LEMMA StartRunKeeps ==
    ASSUME MirrorInv, StartRun
    PROVE  MirrorInv' /\ \A x \in Side, e \in Entity : Still(x, e)
<1>1. Standing /\ cur' = cur /\ aborts' = aborts /\ run' = Pass(1, cur, TRUE)
  BY DEF StartRun, Standing
<1>2. cur \in [Side -> Nat] /\ aborts \in Nat
  BY DEF MirrorInv, TypesOK
<1>3. \E quiet \in BOOLEAN : run' = Pass(1, cur, quiet)
  BY <1>1
<1>4. PICK quiet \in BOOLEAN : run' = Pass(1, cur, quiet)
  BY <1>3
<1>5. /\ run' \in Runs /\ run'.at = "pull" /\ run'.pass = 1 /\ run'.touched = {}
      /\ run'.plan = NothingPlanned /\ run'.pulled = NothingPulled
      /\ run'.outbound = cur["remote"] /\ run'.cursor = cur["local"]
  <2>1. 1 \in 1..3 /\ "local" = IF 1 = 2 THEN "remote" ELSE "local"
    OBVIOUS
  <2>2. Other("local") = "remote"
    BY DEF Other
  <2> QED
    BY <1>2, <1>4, <2>1, <2>2, PassIs
<1>6. Source' = "remote" /\ Target' = "local"
  BY <1>5 DEF Source, Target, Other
<1>7. Fresh
  BY <1>1, <1>5, <1>6 DEF Fresh
<1> QED
  BY <1>1, <1>2, <1>5, <1>7, FreshRun, StandStill, InvNext

LEMMA IdleStepsKeep ==
    ASSUME MirrorInv, Halt \/ RunEnds \/ Abort
    PROVE  MirrorInv' /\ \A x \in Side, e \in Entity : Still(x, e)
<1>1. Standing /\ cur' = cur /\ run' = Idle
  BY DEF Halt, RunEnds, Abort, Standing
<1>2. aborts' \in Nat
  BY DEF Halt, RunEnds, Abort, MirrorInv, TypesOK
<1> QED
  BY <1>1, <1>2, StandStill, IdleKeeps

Done(quiet) == [Idle EXCEPT !.at = "done", !.quiet = quiet]

LEMMA DoneRun ==
    ASSUME NEW quiet, quiet \in BOOLEAN, NEW r, r = Done(quiet)
    PROVE  /\ r \in Runs /\ r.at = "done" /\ r.touched = {}
           /\ r.plan = NothingPlanned /\ r.pulled = NothingPulled
<1>1. r = [at |-> "done", pass |-> 0, outbound |-> 0, cursor |-> 0, touched |-> {},
          pulled |-> NothingPulled, plan |-> NothingPlanned, quiet |-> quiet]
  BY DEF Idle, Done
<1>2. NothingPulled \in Pulls /\ NothingPlanned \in Plans
  BY NothingMaps DEF NothingPulled, Pulls, NothingPlanned, Plans
<1>3. r \in Runs
  BY <1>1, <1>2 DEF Runs, Place
<1> QED
  BY <1>1, <1>3

LEMMA SaveCursorKeeps ==
    ASSUME MirrorInv, SaveCursor
    PROVE  MirrorInv' /\ \A x \in Side, e \in Entity : Still(x, e)
<1>0. PICK a \in Side, b \in Side : a = Source /\ b = Target
  BY Sides
<1>1. /\ a \in Side /\ b \in Side /\ a # b /\ Other(b) = a /\ Other(a) = b
      /\ \A x \in Side : x = a \/ x = b
      /\ RunInv(a, b)
  BY <1>0, Sides DEF MirrorInv
<1>2. /\ run.at = "save" /\ Standing /\ aborts' = aborts
      /\ cur' = [cur EXCEPT ![b] = run.plan.next]
  BY <1>0 DEF SaveCursor, Standing
<1>3. /\ cur \in [Side -> Nat] /\ run \in Runs /\ aborts \in Nat
      /\ run.plan \in Plans /\ run.plan.next \in Nat
  BY DEF MirrorInv, TypesOK, Runs, Plans
<1>4. /\ cur' \in [Side -> Nat] /\ cur'[b] = run.plan.next /\ cur'[a] = cur[a]
  BY <1>1, <1>2, <1>3
<1>5. /\ run.outbound = cur[a] /\ run.cursor = cur[b]
      /\ run.plan.next <= rev[a] /\ run.cursor <= run.plan.next
  BY <1>1, <1>2 DEF RunInv, PassInv, Busy
<1>6. StoresOK' /\ clock' \in 0..MaxEdits /\ \A x \in Side, e \in Entity : Still(x, e)
  BY <1>2, StandStill
<1>7. CursorsOK'
  BY <1>1, <1>2, <1>4, <1>5 DEF CursorsOK, MirrorInv, Standing
<1>8. CursorHonest'
  <2> SUFFICES ASSUME NEW x \in Side, NEW e \in Entity,
                      LatestRevision(Other(x), e)' <= cur'[x], Active(Other(x), e)'
               PROVE  Held(Other(x), e)' \subseteq Held(x, e)'
    BY DEF CursorHonest
  <2>1. Still(x, e) /\ Still(Other(x), e)
    BY <1>1, <1>6
  <2>2. CASE LatestRevision(Other(x), e) <= cur[x]
    BY <2>1, <2>2, StillMeans DEF MirrorInv, CursorHonest
  <2>3. CASE ~(LatestRevision(Other(x), e) <= cur[x])
    <3>1. LatestRevision(Other(x), e) <= cur'[x] /\ Active(Other(x), e)
      BY <2>1, StillMeans
    <3>2. x = b
      BY <1>1, <1>4, <2>3, <3>1
    <3>3. LatestRevision(a, e) \in Nat
      BY <1>1, LatestType DEF MirrorInv
    <3>4. Covered(a, e)
      BY <1>1, <1>3, <1>4, <1>5, <2>3, <3>1, <3>2, <3>3 DEF Covered, LogsLate
    <3>5. Held(a, e) \subseteq Held(b, e)
      BY <1>1, <1>2, <3>4 DEF RunInv, PageInv, Carried
    <3> QED
      BY <1>1, <2>1, <3>2, <3>5, StillMeans
  <2> QED
    BY <2>2, <2>3
<1>9. /\ run' \in Runs /\ PhaseInv'
      /\ \A x, y \in Side : (x = Source' /\ y = Target') => RunInv(x, y)'
  <2>1. CASE run.plan.more
    <3>1. run' = [run EXCEPT !.at = "pull", !.cursor = run.plan.next,
                             !.plan = NothingPlanned]
      BY <2>1 DEF SaveCursor
    <3>2. NothingPlanned \in Plans
      BY IdleRun DEF Runs
    <3>3. /\ run' \in Runs /\ run'.at = "pull" /\ run'.cursor = run.plan.next
          /\ run'.plan = NothingPlanned /\ run'.pulled = run.pulled
          /\ run'.touched = run.touched /\ run'.outbound = run.outbound
          /\ run'.pass = run.pass
      BY <1>3, <3>1, <3>2 DEF Runs, Place
    <3>4. /\ DOMAIN run'.plan.copy = {} /\ DOMAIN run'.plan.deleteSource = {}
          /\ DOMAIN run'.plan.deleteTarget = {}
          /\ DOMAIN run'.pulled.records = {} /\ run'.pulled.deletes = {}
      BY <1>2, <3>3, NothingMaps DEF NothingPlanned, MirrorInv, PhaseInv
    <3>5. PhaseInv'
      BY <3>3, <3>4 DEF PhaseInv
    <3>6. a = Source' /\ b = Target'
      BY <1>0, <3>3 DEF Source, Target, Other
    <3>7. PassInv(a, b)'
      BY <1>4, <1>5, <3>3 DEF PassInv
    <3>8. TouchedInv(a, b)'
      <4>1. run.touched \subseteq Entity
        BY <1>3 DEF Runs
      <4> QED
        BY <1>1, <1>6, <3>3, <4>1, StillMeans DEF RunInv, TouchedInv
    <3>9. PulledInv(a, b)' /\ PlanInv(a, b)' /\ PageInv(a, b)'
      BY <3>3, <3>4 DEF PulledInv, PlanInv, PageInv, Carried
    <3> QED
      BY <3>3, <3>5, <3>6, <3>7, <3>8, <3>9 DEF RunInv
  <2>2. CASE ~run.plan.more /\ run.pass < 3
    <3>1. run' = Pass(run.pass + 1, cur', run.quiet)
      BY <2>2 DEF SaveCursor
    <3>2. run.pass + 1 \in 1..3 /\ run.quiet \in BOOLEAN
      BY <1>3, <2>2 DEF Runs
    <3>3. PICK y : y = IF run.pass + 1 = 2 THEN "remote" ELSE "local"
      OBVIOUS
    <3>4. /\ run' \in Runs /\ run'.at = "pull" /\ run'.pass = run.pass + 1
          /\ run'.touched = {}
          /\ run'.plan = NothingPlanned /\ run'.pulled = NothingPulled
          /\ run'.outbound = cur'[Other(y)] /\ run'.cursor = cur'[y]
      BY <1>4, <3>1, <3>2, <3>3, PassIs
    <3>5. Target' = y /\ Source' = Other(y)
      BY <3>3, <3>4 DEF Target, Source, Other
    <3>6. Fresh
      BY <3>4, <3>5 DEF Fresh
    <3> QED
      BY <3>4, <3>6, FreshRun
  <2>3. CASE ~run.plan.more /\ ~(run.pass < 3)
    <3>1. run' = Done(run.quiet)
      BY <2>3 DEF SaveCursor, Done
    <3>2. Fresh
      BY <1>3, <3>1, DoneRun DEF Fresh, Runs
    <3> QED
      BY <3>2, FreshRun DEF Fresh
  <2> QED
    BY <2>1, <2>2, <2>3
<1> QED
  BY <1>2, <1>3, <1>4, <1>6, <1>7, <1>8, <1>9, InvNext

LEMMA EntryBelow ==
    ASSUME TypesOK, NEW s \in Side, LogOK(s), NEW e \in Entity, NEW c \in log[s],
           c.entity = e
    PROVE  c.rev <= LatestRevision(s, e)
<1>1. EntriesOf(s, e) # {}
  BY DEF EntriesOf
<1>2. PICK d \in log[s] : IsNewest(s, e, d)
  BY <1>1 DEF LogOK
<1>3. LatestRevision(s, e) = d.rev
  BY <1>2, LatestIs
<1> QED
  BY <1>2, <1>3 DEF IsNewest, Newest, EntriesOf

LEMMA RowsEntry ==
    ASSUME MirrorInv, NEW s \in Side, NEW e \in Entity, IsRow(store[s][e])
    PROVE  \E c \in log[s] : /\ c.entity = e /\ Newest(c, log[s]) /\ c.op = "upsert"
                             /\ c.rev = LatestRevision(s, e)
<1>1. PICK c \in log[s] : IsNewest(s, e, c) /\ c.op = "upsert"
  BY DEF MirrorInv, LogTrue, LastIs
<1>2. LatestRevision(s, e) = c.rev
  BY <1>1, LatestIs DEF MirrorInv
<1> QED
  BY <1>1, <1>2 DEF IsNewest, EntriesOf

LEMMA ActiveIsRow ==
    ASSUME NEW s, NEW e, Active(s, e)
    PROVE  IsRow(store[s][e])
BY DEF Active

LEMMA PlannedNextIs ==
    ASSUME NEW n \in Nat, NEW more, more \in BOOLEAN, NEW p,
           \/ p = [NothingPlanned EXCEPT !.next = n, !.more = more]
           \/ p = [NothingPlanned EXCEPT !.next = n]
    PROVE  /\ p \in Plans /\ p.next = n
           /\ DOMAIN p.copy = {} /\ DOMAIN p.deleteSource = {} /\ DOMAIN p.deleteTarget = {}
<1>1. NothingPlanned \in Plans
  BY IdleRun DEF Runs
<1>2. /\ p \in Plans /\ p.next = n /\ p.copy = NothingPlanned.copy
      /\ p.deleteSource = NothingPlanned.deleteSource
      /\ p.deleteTarget = NothingPlanned.deleteTarget
  BY <1>1 DEF Plans
<1>3. /\ NothingPlanned.copy = Nothing /\ NothingPlanned.deleteSource = Nothing
      /\ NothingPlanned.deleteTarget = Nothing
  BY DEF NothingPlanned
<1> QED
  BY <1>2, <1>3, NothingMaps

(* A step within a pass: the cursors of the run stay. *)
InPass == /\ run'.pass = run.pass /\ run'.outbound = run.outbound
          /\ run'.cursor = run.cursor /\ run'.quiet = run.quiet
SamePage == /\ InPass /\ run'.plan.next = run.plan.next
            /\ run'.plan.more = run.plan.more

LEMMA SamePass ==
    ASSUME MirrorInv, Standing, cur' = cur, aborts' = aborts, run' \in Runs,
           run'.pass = run.pass, run'.touched = run.touched,
           run'.outbound = run.outbound, run'.cursor = run.cursor, Busy,
           NEW a \in Side, NEW b \in Side, a = Source, b = Target,
           run'.plan.next <= rev[a], run.cursor <= run'.plan.next,
           PhaseInv', PulledInv(a, b)', PlanInv(a, b)', PageInv(a, b)'
    PROVE  MirrorInv' /\ \A x \in Side, e \in Entity : Still(x, e)
<1>1. /\ StoresOK' /\ clock' \in 0..MaxEdits /\ CursorsOK' /\ CursorHonest'
      /\ \A x \in Side, e \in Entity : Still(x, e)
  BY StandStill
<1>2. RunInv(a, b) /\ run \in Runs /\ cur \in [Side -> Nat] /\ aborts \in Nat
  BY DEF MirrorInv, TypesOK
<1>3. a = Source' /\ b = Target'
  BY DEF Source, Target, Other
<1>4. PassInv(a, b)'
  BY <1>2 DEF RunInv, PassInv, Standing, Busy
<1>5. run.touched \subseteq Entity
  BY <1>2 DEF Runs
<1>6. TouchedInv(a, b)'
  BY <1>1, <1>2, <1>5, StillMeans DEF RunInv, TouchedInv
<1>7. RunInv(a, b)'
  BY <1>4, <1>6 DEF RunInv
<1>8. \A x, y \in Side : (x = Source' /\ y = Target') => RunInv(x, y)'
  BY <1>3, <1>7
<1> QED
  BY <1>1, <1>2, <1>8, InvNext

(* What is pulled is what the side has, and all that the page covers; a pull
   finds nothing when the cursor covers the log. *)
PageIs(a) ==
    /\ InPass /\ run'.at \in {"plan", "save"}
    /\ run'.at = "save" => \A c \in log[a] : c.rev <= run.cursor
    /\ ~run'.plan.more => \A c \in log[a] : c.rev <= run'.plan.next
    /\ run'.at = "plan" =>
          /\ \A e \in DOMAIN run'.pulled.records : run'.pulled.records[e] = store[a][e]
          /\ \A c \in log[a] :
                (Newest(c, log[a]) /\ run.cursor < c.rev /\ c.rev <= run'.plan.next) =>
                /\ (c.op = "upsert" /\ IsRow(store[a][c.entity]))
                      => c.entity \in DOMAIN run'.pulled.records
                /\ c.op = "delete" => c.entity \in run'.pulled.deletes

LEMMA PullEndKeeps ==
    ASSUME MirrorInv, PullPage, Waiting = {}
    PROVE  /\ MirrorInv' /\ PageIs(Source)
           /\ \A x \in Side, e \in Entity : Still(x, e)
<1>0. PICK a \in Side, b \in Side : a = Source /\ b = Target
  BY Sides
<1>1. /\ run.at = "pull" /\ Standing /\ cur' = cur /\ aborts' = aborts
      /\ run' = [run EXCEPT !.at = "save", !.pulled = NothingPulled,
                            !.plan = [NothingPlanned EXCEPT !.next = rev[a]]]
  BY <1>0 DEF PullPage, Standing
<1>2. /\ run \in Runs /\ rev[a] \in Nat /\ CursorsOK /\ RunInv(a, b) /\ PhaseInv
      /\ cur \in [Side -> Nat]
  BY <1>0 DEF MirrorInv, TypesOK
<1> DEFINE p == [NothingPlanned EXCEPT !.next = rev[a]]
<1>3. /\ p \in Plans /\ p.next = rev[a]
      /\ DOMAIN p.copy = {} /\ DOMAIN p.deleteSource = {} /\ DOMAIN p.deleteTarget = {}
  BY <1>2, PlannedNextIs
<1> HIDE DEF p
<1>4. NothingPulled \in Pulls
  BY IdleRun DEF Runs
<1>5. /\ run' \in Runs /\ run'.at = "save" /\ run'.pulled = NothingPulled /\ run'.plan = p
      /\ run'.pass = run.pass /\ run'.touched = run.touched
      /\ run'.outbound = run.outbound /\ run'.cursor = run.cursor
  BY <1>1, <1>2, <1>3, <1>4 DEF Runs, Place, p
<1>6. DOMAIN run'.pulled.records = {} /\ run'.pulled.deletes = {}
  BY <1>5, NothingMaps DEF NothingPulled
<1>7. PhaseInv' /\ PulledInv(a, b)' /\ PlanInv(a, b)'
  BY <1>3, <1>5, <1>6 DEF PhaseInv, PulledInv, PlanInv
<1>8. run.cursor = cur[b] /\ cur[b] <= rev[a]
  BY <1>0, <1>1, <1>2, Sides DEF RunInv, PassInv, Busy, CursorsOK
<1>9. PageInv(a, b)'
  <2> SUFFICES ASSUME NEW e \in Entity, Covered(a, e)'
               PROVE  FALSE
    BY DEF PageInv
  <2>1. Active(a, e) /\ run.cursor < LatestRevision(a, e)
    BY <1>1, <1>5, StandStill, StillMeans DEF Covered, LogsLate
  <2>2. PICK c \in log[a] : c.rev = LatestRevision(a, e)
    BY <2>1, ActiveIsRow, RowsEntry
  <2> QED
    BY <1>0, <2>1, <2>2 DEF Waiting
<1>10. PageIs(a)
  <2>1. \A c \in log[a] : c.rev <= rev[a]
    BY <1>0 DEF MirrorInv, LogOK
  <2>2. \A c \in log[a] : c.rev \in Nat /\ c.rev <= run.cursor
    BY <1>0, <1>2 DEF Waiting, MirrorInv, TypesOK, Entries, Runs
  <2>3. run'.quiet = run.quiet
    BY <1>1, <1>2 DEF Runs
  <2> QED
    BY <1>3, <1>5, <2>1, <2>2, <2>3 DEF PageIs, InPass
<1> QED
  BY <1>0, <1>1, <1>2, <1>3, <1>5, <1>7, <1>8, <1>9, <1>10, SamePass DEF Busy

LEMMA PullMoreKeeps ==
    ASSUME MirrorInv, PullPage, Waiting # {}
    PROVE  /\ MirrorInv' /\ PageIs(Source)
           /\ \A x \in Side, e \in Entity : Still(x, e)
<1>0. PICK a \in Side, b \in Side : a = Source /\ b = Target
  BY Sides
<1>1. PICK last \in {c.rev : c \in Waiting} :
         run' = [run EXCEPT !.at = "plan", !.pulled = Pulled(InPage(last)),
                            !.plan = [NothingPlanned EXCEPT !.next = NextCursor(last),
                                          !.more = InPage(last) # Waiting]]
  BY DEF PullPage
<1>2. /\ run.at = "pull" /\ Standing /\ cur' = cur /\ aborts' = aborts
  BY DEF PullPage, Standing
<1>3. /\ run \in Runs /\ rev[a] \in Nat /\ RunInv(a, b) /\ PhaseInv
      /\ cur \in [Side -> Nat] /\ LogOK(a) /\ log[a] \subseteq Entries
      /\ run.cursor \in Nat /\ run.touched \subseteq Entity
      /\ store[a] \in [Entity -> Record \union {None}]
      /\ run.outbound = cur[a] /\ Other(a) = b /\ Other(b) = a
  BY <1>0, <1>2, Sides DEF MirrorInv, TypesOK, Runs, RunInv, PassInv, Busy
<1> DEFINE page == InPage(last)
<1>4. /\ page = {c \in log[a] : c.rev > run.cursor /\ c.rev <= last}
      /\ \A c \in page : c \in Entries /\ c \in log[a]
  BY <1>0, <1>3 DEF InPage, Waiting
<1>5. /\ last \in Nat /\ last <= rev[a] /\ run.cursor <= last
  <2>1. PICK c \in log[a] : c.rev > run.cursor /\ last = c.rev
    BY <1>0 DEF Waiting
  <2> QED
    BY <1>3, <2>1 DEF Entries, LogOK
<1> HIDE DEF page
<1>6. PICK recs, dels, pulled :
         /\ recs = [e \in {x \in NewestIn(page, "upsert") : IsRow(store[a][x])} |-> store[a][e]]
         /\ dels = NewestIn(page, "delete")
         /\ pulled = [records |-> recs, deletes |-> dels] /\ pulled = Pulled(page)
  BY <1>0 DEF Pulled
<1>7. \A op : \A e \in NewestIn(page, op) :
         /\ e \in Entity
         /\ \E c \in page : c.entity = e /\ c.op = op /\ Newest(c, page)
  BY DEF NewestIn
<1>8. \A e \in DOMAIN recs : /\ e \in NewestIn(page, "upsert") /\ e \in Entity
                              /\ recs[e] = store[a][e] /\ IsRow(store[a][e])
  BY <1>6, <1>7
<1>9. /\ pulled \in Pulls /\ pulled.records = recs /\ pulled.deletes = dels
  <2>1. \A e \in DOMAIN recs : recs[e] \in Record
    BY <1>3, <1>8 DEF IsRow
  <2>2. recs \in [DOMAIN recs -> Record] /\ DOMAIN recs \in SUBSET Entity
    BY <1>6, <1>8, <2>1
  <2>3. recs \in Maps(Record)
    BY <2>2 DEF Maps
  <2>4. dels \in SUBSET Entity
    BY <1>6, <1>7
  <2> QED
    BY <1>6, <2>3, <2>4 DEF Pulls
<1> DEFINE p == [NothingPlanned EXCEPT !.next = NextCursor(last),
                                       !.more = page # Waiting]
<1>10. /\ p \in Plans /\ p.next = last /\ p.more = (page # Waiting)
       /\ DOMAIN p.copy = {} /\ DOMAIN p.deleteSource = {} /\ DOMAIN p.deleteTarget = {}
  <2>1. PICK more \in BOOLEAN : p = [NothingPlanned EXCEPT !.next = last, !.more = more]
    BY DEF NextCursor
  <2>2. p.more = (page # Waiting)
    BY DEF NothingPlanned
  <2> HIDE DEF p
  <2> QED
    BY <1>5, <2>1, <2>2, PlannedNextIs
<1> HIDE DEF p
<1>11. /\ run' \in Runs /\ run'.at = "plan" /\ run'.pulled = pulled /\ run'.plan = p
       /\ run'.pass = run.pass /\ run'.touched = run.touched
       /\ run'.outbound = run.outbound /\ run'.cursor = run.cursor
  <2>1. run' = [run EXCEPT !.at = "plan", !.pulled = pulled, !.plan = p]
    BY <1>1, <1>6 DEF p, page
  <2> QED
    BY <1>3, <1>9, <1>10, <2>1 DEF Runs, Place
<1>12. \A x \in Side, e \in Entity : Still(x, e)
  BY <1>2, StandStill
<1>13. PulledInv(a, b)'
  <2>1. ASSUME NEW e \in DOMAIN recs
        PROVE  Pulled1(a, b, e, recs[e])'
    <3>1. /\ e \in Entity /\ recs[e] = store[a][e] /\ IsRow(store[a][e])
          /\ recs[e] \in Record /\ store[a][e] # None
      BY <1>3, <1>8 DEF IsRow
    <3>2. PICK c \in page : c.entity = e /\ c.op = "upsert" /\ Newest(c, page)
      BY <1>7, <1>8
    <3>3. /\ recs[e].kind # "tombstone" /\ recs[e].version >= 1
          /\ recs[e].edits = Held(a, e)
          /\ recs[e].kind = "deleted" => ~Active(a, e)
      BY <3>1 DEF IsRow, Held, Active, MirrorInv, VersionsOK, VersionOf
    <3>4. LogsLate(a, e)
      <4>1. c \in log[a] /\ c.rev \in Nat /\ run.cursor < c.rev
        BY <1>3, <1>4 DEF Entries
      <4>2. c.rev <= LatestRevision(a, e) /\ LatestRevision(a, e) \in Nat
        BY <1>3, <3>1, <3>2, <4>1, EntryBelow, LatestType DEF MirrorInv
      <4> QED
        BY <1>3, <4>1, <4>2 DEF LogsLate
    <3>5. Active(b, e) /\ Settled(b, e) => Held(b, e) \subseteq Held(a, e)
      <4>1. CASE e \in run.touched
        BY <1>3, <4>1 DEF RunInv, TouchedInv
      <4>2. CASE e \notin run.touched
        BY <1>3, <3>1, <4>2 DEF Settled, MirrorInv, CursorHonest
      <4> QED
        BY <4>1, <4>2
    <3>6. e \notin dels
      <4> SUFFICES ASSUME e \in dels
                   PROVE  FALSE
        OBVIOUS
      <4>1. PICK d \in page : d.entity = e /\ d.op = "delete" /\ Newest(d, page)
        BY <1>6, <1>7
      <4>2. c.rev \in Nat /\ d.rev \in Nat /\ c.rev <= d.rev /\ d.rev <= c.rev
        BY <1>4, <3>2, <4>1 DEF Newest, Entries
      <4>3. c = d
        BY <1>3, <1>4, <4>2 DEF LogOK
      <4> QED
        BY <3>2, <4>1, <4>3
    <3>7. LogsLate(a, e)' <=> LogsLate(a, e)
      BY <1>11, <1>12, <3>1, StillMeans DEF LogsLate
    <3>8. Settled(b, e)' <=> Settled(b, e)
      BY <1>11, <1>12, <3>1, StillMeans DEF Settled
    <3>9. /\ Held(a, e)' = Held(a, e) /\ Held(b, e)' = Held(b, e)
          /\ Active(a, e)' = Active(a, e) /\ Active(b, e)' = Active(b, e)
      BY <1>12, <3>1, StillMeans
    <3>10. run'.pulled.deletes = dels
      BY <1>9, <1>11
    <3> QED
      BY <3>3, <3>4, <3>5, <3>6, <3>7, <3>8, <3>9, <3>10 DEF Pulled1
  <2>2. ASSUME NEW e \in dels
        PROVE  Past(a, e)'
    <3>1. PICK d \in page : d.entity = e /\ d.op = "delete" /\ Newest(d, page)
      BY <1>6, <1>7
    <3>2. e \in Entity
      BY <1>6, <1>7
    <3>3. ASSUME Active(a, e), ~(LatestRevision(a, e) > last)
          PROVE  FALSE
      <4>1. PICK c \in log[a] : /\ c.entity = e /\ Newest(c, log[a]) /\ c.op = "upsert"
                                /\ c.rev = LatestRevision(a, e)
        BY <3>2, <3>3, ActiveIsRow, RowsEntry
      <4>2. /\ c.rev \in Nat /\ d.rev \in Nat /\ d \in log[a] /\ d.rev > run.cursor
            /\ d.rev <= c.rev
        BY <1>3, <1>4, <3>1, <4>1 DEF Entries, Newest
      <4>3. c \in page
        BY <1>3, <1>4, <1>5, <3>3, <4>1, <4>2
      <4>4. c.rev <= d.rev
        BY <3>1, <4>1, <4>3 DEF Newest
      <4>5. c = d
        BY <1>3, <4>2, <4>4 DEF LogOK
      <4> QED
        BY <3>1, <4>1, <4>5
    <3> QED
      BY <1>10, <1>11, <1>12, <3>2, <3>3, StillMeans DEF Past
  <2> QED
    BY <1>9, <1>11, <2>1, <2>2 DEF PulledInv
<1>14. PlanInv(a, b)' /\ PhaseInv'
  BY <1>10, <1>11 DEF PlanInv, PhaseInv
<1>15. PageInv(a, b)'
  <2> SUFFICES ASSUME NEW e \in Entity, Covered(a, e)'
               PROVE  e \in DOMAIN recs /\ recs[e] = store[a][e]
    BY <1>2, <1>9, <1>11 DEF PageInv, Carried, Standing
  <2>1. /\ Active(a, e) /\ run.cursor < LatestRevision(a, e)
        /\ LatestRevision(a, e) <= last
    BY <1>10, <1>11, <1>12, StillMeans DEF Covered, LogsLate
  <2>2. PICK c \in log[a] : /\ c.entity = e /\ Newest(c, log[a]) /\ c.op = "upsert"
                            /\ c.rev = LatestRevision(a, e)
    BY <2>1, ActiveIsRow, RowsEntry
  <2>3. c \in page /\ Newest(c, page)
    BY <1>4, <2>1, <2>2 DEF Newest
  <2>4. e \in NewestIn(page, "upsert")
    BY <2>2, <2>3 DEF NewestIn
  <2> QED
    BY <1>6, <2>1, <2>4, ActiveIsRow
<1>16. PageIs(a)
  <2>1. \A c \in log[a] : c.rev \in Nat
    BY <1>3 DEF Entries
  <2>2. ASSUME NEW c \in log[a], Newest(c, log[a]), run.cursor < c.rev, c.rev <= last
        PROVE  /\ c.op = "upsert" /\ IsRow(store[a][c.entity]) => c.entity \in DOMAIN recs
               /\ c.op = "delete" => c.entity \in dels
    <3>1. c \in page /\ Newest(c, page) /\ c.entity \in Entity
      BY <1>3, <1>4, <2>2 DEF Newest, Entries
    <3>2. \A op : c.op = op => c.entity \in NewestIn(page, op)
      BY <3>1 DEF NewestIn
    <3> QED
      BY <1>6, <3>2
  <2>3. ASSUME ~run'.plan.more, NEW c \in log[a]
        PROVE  c.rev <= last
    <3>1. page = Waiting
      BY <1>10, <1>11, <2>3 DEF p
    <3>2. CASE c.rev > run.cursor
      BY <1>0, <1>4, <3>1, <3>2 DEF Waiting
    <3>3. CASE ~(c.rev > run.cursor)
      BY <1>3, <1>5, <2>1, <3>3
    <3> QED
      BY <3>2, <3>3
  <2>4. run'.quiet = run.quiet
    BY <1>1, <1>3 DEF Runs
  <2> QED
    BY <1>8, <1>9, <1>10, <1>11, <2>2, <2>3, <2>4 DEF PageIs, InPass
<1> QED
  BY <1>0, <1>2, <1>3, <1>5, <1>10, <1>11, <1>13, <1>14, <1>15, <1>16, SamePass DEF Busy

LEMMA PullPageKeeps ==
    ASSUME MirrorInv, PullPage
    PROVE  /\ MirrorInv' /\ PageIs(Source)
           /\ \A x \in Side, e \in Entity : Still(x, e)
BY PullEndKeeps, PullMoreKeeps

LEMMA AheadIs ==
    ASSUME NEW r \in Runs, NEW q, q = Ahead(r)
    PROVE  /\ q \in Runs /\ q.pass = r.pass /\ q.outbound = r.outbound
           /\ q.cursor = r.cursor /\ q.touched = r.touched
           /\ q.pulled = r.pulled /\ q.plan = r.plan /\ q.quiet = r.quiet
           /\ q.at \in {"deleteSource", "deleteTarget", "push"}
           /\ q.at # "deleteSource" => DOMAIN r.plan.deleteSource = {}
           /\ (q.at = "push" /\ r.at = "deleteSource") => DOMAIN r.plan.deleteTarget = {}
<1>1. CASE DOMAIN r.plan.deleteSource # {}
  BY <1>1 DEF Ahead, Runs, Place
<1>2. CASE DOMAIN r.plan.deleteSource = {} /\ DOMAIN r.plan.deleteTarget # {}
           /\ r.at = "deleteSource"
  BY <1>2 DEF Ahead, Runs, Place
<1>3. CASE /\ DOMAIN r.plan.deleteSource = {}
           /\ ~(DOMAIN r.plan.deleteTarget # {} /\ r.at = "deleteSource")
  BY <1>3 DEF Ahead, Runs, Place
<1> QED
  BY <1>1, <1>2, <1>3

(* What a verdict says of the two sides. *)
LEMMA VerdictIs ==
    ASSUME MirrorInv, NEW b, b = Target, NEW e, NEW r
    PROVE  LET t == store[b][e] IN
           /\ (Verdict(e, r) = "copy" /\ Active(b, e))
                 => t.edits = r.edits \/ NoUnmirroredChange(e)
           /\ Verdict(e, r) = "deleteSource"
                 => r.kind = "deleted" /\ t # None /\ ~Active(b, e)
           /\ Verdict(e, r) = "same" => t # None /\ t.edits = r.edits
           /\ Verdict(e, r) \in {"copy", "same", "deleteSource", "diverged"}
<1> DEFINE t == store[b][e]
<1>1. CASE IsRow(t) /\ ~Differ(r, t)
  <2>1. Verdict(e, r) \in {"copy", "same"} /\ t # None /\ t.edits = r.edits
    BY <1>1 DEF Verdict, IsRow, Differ
  <2> QED
    BY <2>1
<1>2. CASE IsRow(t) /\ Differ(r, t) /\ Overwrites(r, t) /\ NoUnmirroredChange(e)
  <2>1. Verdict(e, r) = "copy"
    BY <1>2 DEF Verdict
  <2> QED
    BY <1>2, <2>1
<1>3. CASE IsRow(t) /\ Differ(r, t) /\ ~(Overwrites(r, t) /\ NoUnmirroredChange(e))
  <2>1. Verdict(e, r) = IF r.kind = "deleted" /\ t.kind = "deleted"
                        THEN "deleteSource" ELSE "diverged"
    BY <1>3 DEF Verdict
  <2> QED
    BY <1>3, <2>1 DEF Active, IsRow
<1>4. CASE ~IsRow(t)
  <2>1. Verdict(e, r) = IF t = None \/ (NewerOrTie(r, t) /\ NoUnmirroredChange(e))
                        THEN "copy"
                        ELSE IF r.kind = "deleted" THEN "deleteSource" ELSE "diverged"
    BY <1>4 DEF Verdict
  <2>2. ~Active(b, e)
    BY <1>4 DEF Active
  <2> QED
    BY <2>1, <2>2
<1> QED
  BY <1>1, <1>2, <1>3, <1>4

LEMMA DeleteVerdictIs ==
    ASSUME NEW a, NEW b, a = Source, b = Target, NEW e, DeleteVerdict(e) = "delete"
    PROVE  /\ ~IsRow(store[a][e])
           /\ Active(b, e) => NoUnmirroredChange(e)
<1>1. ~IsRow(store[a][e])
  BY DEF DeleteVerdict
<1>2. CASE ~IsRow(store[b][e]) \/ store[b][e].kind = "deleted"
  BY <1>1, <1>2 DEF Active
<1>3. CASE ~(~IsRow(store[b][e]) \/ store[b][e].kind = "deleted")
  BY <1>1, <1>3 DEF DeleteVerdict
<1> QED
  BY <1>1, <1>2, <1>3

(* What was carried over is on the source: a cursor is honest, and so is what
   the pass wrote. *)
LEMMA SettledHeld ==
    ASSUME MirrorInv, Busy, NEW a \in Side, NEW b \in Side, a = Source, b = Target,
           NEW e \in Entity, NoUnmirroredChange(e), Active(b, e)
    PROVE  Settled(b, e) /\ Held(b, e) \subseteq Held(a, e)
<1>1. RunInv(a, b) /\ run.outbound = cur[a] /\ Other(a) = b
  BY Sides DEF MirrorInv, RunInv, PassInv
<1>2. Settled(b, e)
  BY DEF NoUnmirroredChange, Settled
<1>3. CASE e \in run.touched
  BY <1>1, <1>2, <1>3 DEF RunInv, TouchedInv
<1>4. CASE e \notin run.touched
  BY <1>1, <1>2, <1>4 DEF Settled, MirrorInv, CursorHonest
<1> QED
  BY <1>2, <1>3, <1>4

(* A plan is the verdicts of its page. *)
PlannedIs ==
    /\ SamePage /\ run'.at \in {"deleteSource", "deleteTarget", "push"}
    /\ \A e \in DOMAIN run.pulled.records : VerdictOf(e) = "copy" => e \in DOMAIN run'.plan.copy
    /\ \A e \in DOMAIN run'.plan.copy :
          /\ e \in DOMAIN run.pulled.records
          /\ run'.plan.copy[e].record = run.pulled.records[e]
    /\ \A e \in DOMAIN run'.plan.deleteSource :
          e \in DOMAIN run.pulled.records /\ VerdictOf(e) = "deleteSource"
    /\ \A e \in DOMAIN run'.plan.deleteTarget : DeleteVerdict(e) = "delete"
    /\ \A e \in run.pulled.deletes :
          DeleteVerdict(e) = "delete" => e \in DOMAIN run'.plan.deleteTarget

LEMMA PlanPageKeeps ==
    ASSUME MirrorInv, PlanPage
    PROVE  /\ MirrorInv' /\ PlannedIs
           /\ \A x \in Side, e \in Entity : Still(x, e)
<1>0. PICK a \in Side, b \in Side : a = Source /\ b = Target
  BY Sides
<1> DEFINE recs == run.pulled.records
<1>1. PICK copy, away, gone :
         /\ copy = [e \in {x \in Records : VerdictOf(x) = "copy"} |->
                       [record |-> run.pulled.records[e], base |-> Base(e)]]
         /\ away = [e \in {x \in Records : VerdictOf(x) = "deleteSource"}
                       |-> store[b][e].edits]
         /\ gone = [e \in {x \in run.pulled.deletes : DeleteVerdict(x) = "delete"}
                       |-> IF store[a][e] = None THEN {} ELSE store[a][e].edits]
  OBVIOUS
<1>2. /\ run.at = "plan" /\ Diverged = {} /\ Standing /\ cur' = cur /\ aborts' = aborts
      /\ run' = Ahead([run EXCEPT !.at = "deleteSource", !.pulled = NothingPulled,
                          !.plan.copy = copy, !.plan.deleteSource = away,
                          !.plan.deleteTarget = gone])
  BY <1>0, <1>1 DEF PlanPage, Standing
<1>3. /\ run \in Runs /\ RunInv(a, b) /\ PhaseInv /\ Busy
      /\ run.plan.next <= rev[a] /\ run.cursor <= run.plan.next
  BY <1>0, <1>2 DEF MirrorInv, TypesOK, RunInv, PassInv, Busy
<1>4. /\ DOMAIN recs \subseteq Entity /\ run.pulled.deletes \subseteq Entity
      /\ \A e \in DOMAIN recs : recs[e] \in Record
      /\ run.plan \in Plans
  BY <1>3 DEF Runs, Pulls, Maps
<1>5. \A x \in Side, e \in Entity : store[x][e] \in Record \union {None}
  BY DEF MirrorInv, TypesOK
<1>6. /\ \A e \in DOMAIN copy : /\ e \in DOMAIN recs /\ VerdictOf(e) = "copy"
                                 /\ copy[e] = [record |-> recs[e], base |-> Base(e)]
      /\ \A e \in DOMAIN away : /\ e \in DOMAIN recs /\ VerdictOf(e) = "deleteSource"
                                 /\ away[e] = store[b][e].edits
      /\ \A e \in DOMAIN gone :
            /\ e \in run.pulled.deletes /\ DeleteVerdict(e) = "delete"
            /\ gone[e] = IF store[a][e] = None THEN {} ELSE store[a][e].edits
  BY <1>1 DEF Records
<1>7. \A e \in Entity : Base(e) = VersionOf(b, e) /\ VersionOf(b, e) \in Nat
  BY <1>0, RecordFacts DEF Base, VersionOf, MirrorInv
<1>8. copy \in Maps(Copies)
  <2>1. \A e \in DOMAIN copy : copy[e] \in Copies
    BY <1>4, <1>6, <1>7 DEF Copies
  <2>2. copy \in [DOMAIN copy -> Copies] /\ DOMAIN copy \in SUBSET Entity
    BY <1>1, <1>4, <1>6, <2>1
  <2> QED
    BY <2>2 DEF Maps
<1>9. \A e \in DOMAIN away : /\ e \in Entity /\ store[b][e] # None /\ ~Active(b, e)
                              /\ recs[e].kind = "deleted" /\ away[e] = Held(b, e)
  BY <1>0, <1>4, <1>6, VerdictIs DEF VerdictOf, Held
<1>10. away \in Maps(SUBSET Edit)
  <2>1. \A e \in DOMAIN away : away[e] \in SUBSET Edit
    BY <1>9, RecordFacts DEF MirrorInv
  <2>2. away \in [DOMAIN away -> SUBSET Edit] /\ DOMAIN away \in SUBSET Entity
    BY <1>1, <1>9, <2>1
  <2> QED
    BY <2>2 DEF Maps
<1>11. \A e \in DOMAIN gone : e \in Entity /\ gone[e] = Held(a, e)
  BY <1>4, <1>6 DEF Held
<1>12. gone \in Maps(SUBSET Edit)
  <2>1. \A e \in DOMAIN gone : gone[e] \in SUBSET Edit
    BY <1>11, RecordFacts DEF MirrorInv
  <2>2. gone \in [DOMAIN gone -> SUBSET Edit] /\ DOMAIN gone \in SUBSET Entity
    BY <1>1, <1>11, <2>1
  <2> QED
    BY <2>2 DEF Maps
<1>13. /\ run' \in Runs /\ run'.pass = run.pass /\ run'.touched = run.touched
       /\ run'.outbound = run.outbound /\ run'.cursor = run.cursor
       /\ run'.at \in {"deleteSource", "deleteTarget", "push"}
       /\ run'.at # "deleteSource" => DOMAIN away = {}
       /\ run'.at = "push" => DOMAIN gone = {}
       /\ run'.pulled = NothingPulled /\ run'.plan.next = run.plan.next
       /\ run'.plan.copy = copy /\ run'.plan.deleteSource = away
       /\ run'.plan.deleteTarget = gone /\ SamePage
  <2> DEFINE r == [run EXCEPT !.at = "deleteSource", !.pulled = NothingPulled,
                          !.plan.copy = copy, !.plan.deleteSource = away,
                          !.plan.deleteTarget = gone]
             p == [run.plan EXCEPT !.copy = copy, !.deleteSource = away,
                                   !.deleteTarget = gone]
  <2>1. /\ p \in Plans /\ p.next = run.plan.next /\ p.copy = copy
        /\ p.deleteSource = away /\ p.deleteTarget = gone /\ p.more = run.plan.more
    BY <1>4, <1>8, <1>10, <1>12 DEF Plans
  <2>2. r = [run EXCEPT !.at = "deleteSource", !.pulled = NothingPulled, !.plan = p]
    BY <1>3, <1>4 DEF Runs, Plans
  <2> HIDE DEF p
  <2>3. NothingPulled \in Pulls
    BY IdleRun DEF Runs
  <2>4. /\ r \in Runs /\ r.at = "deleteSource" /\ r.pulled = NothingPulled /\ r.plan = p
        /\ r.pass = run.pass /\ r.touched = run.touched
        /\ r.outbound = run.outbound /\ r.cursor = run.cursor /\ r.quiet = run.quiet
    BY <1>3, <2>1, <2>2, <2>3 DEF Runs, Place
  <2>5. run' = Ahead(r)
    BY <1>2
  <2> HIDE DEF r
  <2> QED
    BY <2>1, <2>4, <2>5, AheadIs DEF SamePage, InPass
<1>14. DOMAIN run'.pulled.records = {} /\ run'.pulled.deletes = {}
  BY <1>13, NothingMaps DEF NothingPulled
<1>15. PhaseInv' /\ PulledInv(a, b)'
  BY <1>13, <1>14 DEF PhaseInv, PulledInv
<1>16. \A x \in Side, e \in Entity : Still(x, e)
  BY <1>2, StandStill
<1>17. \A e \in DOMAIN recs : Pulled1(a, b, e, recs[e])
  BY <1>3 DEF RunInv, PulledInv
<1>18. PlanInv(a, b)'
  <2>1. ASSUME NEW e \in DOMAIN copy
        PROVE  CopyInv(a, b, e, copy[e])'
    <3>1. /\ e \in Entity /\ e \in DOMAIN recs /\ Pulled1(a, b, e, recs[e])
          /\ copy[e].record = recs[e] /\ copy[e].base = VersionOf(b, e)
          /\ VersionOf(b, e) \in Nat
      BY <1>4, <1>6, <1>7, <1>17
    <3>2. e \notin DOMAIN away
      BY <1>6
    <3>3. e \notin DOMAIN gone
      BY <1>6, <3>1 DEF Pulled1
    <3>4. Active(b, e) => Held(b, e) \subseteq recs[e].edits
      <4> SUFFICES ASSUME Active(b, e)
                   PROVE  Held(b, e) \subseteq recs[e].edits
        OBVIOUS
      <4>1. CASE NoUnmirroredChange(e)
        BY <1>0, <1>3, <3>1, <4>1, SettledHeld DEF Pulled1
      <4>2. CASE ~NoUnmirroredChange(e)
        <5>1. store[b][e].edits = recs[e].edits
          BY <1>0, <1>6, <4>2, VerdictIs DEF VerdictOf
        <5> QED
          BY <5>1, ActiveIsRow DEF Held, IsRow
      <4> QED
        BY <4>1, <4>2
    <3>5. LogsLate(a, e)' <=> LogsLate(a, e)
      BY <1>13, <1>16, <3>1, StillMeans DEF LogsLate
    <3>6. /\ Held(a, e)' = Held(a, e) /\ Held(b, e)' = Held(b, e)
          /\ Active(b, e)' = Active(b, e) /\ VersionOf(b, e)' = VersionOf(b, e)
      BY <1>16, <3>1, StillMeans
    <3> QED
      BY <1>13, <3>1, <3>2, <3>3, <3>4, <3>5, <3>6 DEF CopyInv, Pulled1
  <2>2. ASSUME NEW e \in DOMAIN away
        PROVE  DeleteSourceInv(a, b, e, away[e])'
    <3>1. /\ e \in Entity /\ e \in DOMAIN recs /\ Pulled1(a, b, e, recs[e])
          /\ ~Active(b, e) /\ recs[e].kind = "deleted" /\ away[e] = Held(b, e)
      BY <1>6, <1>9, <1>17
    <3>2. e \notin DOMAIN gone
      BY <1>6, <3>1 DEF Pulled1
    <3> QED
      BY <1>13, <1>16, <3>1, <3>2, StillMeans DEF DeleteSourceInv, Pulled1
  <2>3. ASSUME NEW e \in DOMAIN gone
        PROVE  DeleteTargetInv(a, b, e, gone[e])'
    <3>1. /\ e \in Entity /\ gone[e] = Held(a, e) /\ Past(a, e)
      BY <1>3, <1>6, <1>11 DEF RunInv, PulledInv
    <3>2. Active(b, e) => Held(b, e) \subseteq Held(a, e)
      BY <1>0, <1>3, <1>6, <3>1, DeleteVerdictIs, SettledHeld
    <3>3. run'.at \in {"deleteSource", "deleteTarget"}
      BY <1>13
    <3>4. Past(a, e)'
      BY <1>13, <1>16, <3>1, StillMeans DEF Past
    <3> QED
      BY <1>16, <3>1, <3>2, <3>3, <3>4, StillMeans DEF DeleteTargetInv
  <2> QED
    BY <1>13, <2>1, <2>2, <2>3 DEF PlanInv
<1>19. PageInv(a, b)'
  <2> SUFFICES ASSUME NEW e \in Entity, Covered(a, e)'
               PROVE  Carried(a, b, e)'
    BY DEF PageInv
  <2>1. Covered(a, e)
    BY <1>13, <1>16, StillMeans DEF Covered, LogsLate
  <2>2. e \in DOMAIN recs /\ recs[e] = store[a][e] /\ Active(a, e)
    BY <1>2, <1>3, <2>1 DEF RunInv, PageInv, Carried, Covered
  <2>3. recs[e].kind = "active"
    BY <2>2 DEF Active
  <2>4. VerdictOf(e) # "diverged"
    BY <1>2, <2>2 DEF Diverged, Records
  <2>5. VerdictOf(e) \in {"copy", "same"}
    BY <1>0, <2>3, <2>4, VerdictIs DEF VerdictOf
  <2>6. CASE VerdictOf(e) = "copy"
    <3>1. e \in DOMAIN copy /\ copy[e].record = store[a][e]
      BY <1>1, <1>6, <2>2, <2>6 DEF Records
    <3>2. store'[a][e] = store[a][e]
      BY <1>2 DEF Standing
    <3> QED
      BY <1>13, <3>1, <3>2 DEF Carried
  <2>7. CASE VerdictOf(e) = "same"
    <3>1. e \notin DOMAIN copy
      BY <1>6, <2>7
    <3>2. store[b][e] # None /\ store[b][e].edits = store[a][e].edits
      BY <1>0, <2>2, <2>7, VerdictIs DEF VerdictOf
    <3>3. Held(a, e) = Held(b, e)
      BY <2>2, <3>2, ActiveIsRow DEF Held, IsRow
    <3>4. Held(a, e)' = Held(a, e) /\ Held(b, e)' = Held(b, e)
      BY <1>16, StillMeans
    <3> QED
      BY <1>13, <3>1, <3>3, <3>4 DEF Carried
  <2> QED
    BY <2>5, <2>6, <2>7
<1>20. PlannedIs
  <2>1. \A e \in DOMAIN recs : VerdictOf(e) = "copy" => e \in DOMAIN copy
    BY <1>1 DEF Records
  <2>2. \A e \in run.pulled.deletes : DeleteVerdict(e) = "delete" => e \in DOMAIN gone
    BY <1>1
  <2>3. \A e \in DOMAIN copy : copy[e].record = recs[e]
    BY <1>6
  <2> QED
    BY <1>6, <1>13, <2>1, <2>2, <2>3 DEF PlannedIs
<1> QED
  BY <1>0, <1>2, <1>3, <1>13, <1>15, <1>18, <1>19, <1>20, SamePass

(***************************************************************************)
(* The steps of a run that write.                                          *)
(***************************************************************************)
LEMMA DeletesChange ==
    ASSUME MirrorInv, NEW s \in Side, NEW seen \in Maps(SUBSET Edit), DeleteByIds(s, seen)
    PROVE  /\ DOMAIN seen \in SUBSET Entity
           /\ \E logged : Changes(s, DOMAIN seen, logged, "delete")
           /\ \A e \in DOMAIN seen :
                 /\ ~Active(s, e)'
                 /\ Held(s, e)' = IF IsTombstone(store[s][e]) THEN Held(s, e) ELSE seen[e]
<1> DEFINE es == DOMAIN seen
           logged == {e \in es : ~LastIsDelete(s, e)}
<1>1. es \in SUBSET Entity /\ \A e \in es : seen[e] \in SUBSET Edit
  BY DEF Maps
<1>2. /\ store \in [Side -> [Entity -> Record \union {None}]]
      /\ clock \in Nat /\ 2 * clock + 1 \in Nat
  BY MirrorBounds DEF MirrorInv, TypesOK
<1>3. store' = [store EXCEPT ![s] = [e \in Entity |->
                   IF e \in es THEN Deleted(store[s][e], seen[e]) ELSE store[s][e]]]
  BY DEF DeleteByIds
<1>4. /\ \A e \in Entity :
            store'[s][e] = IF e \in es THEN Deleted(store[s][e], seen[e]) ELSE store[s][e]
      /\ \A x \in Side \ {s} : store'[x] = store[x]
  BY <1>2, <1>3
<1>5. ASSUME NEW e \in es
      PROVE  LET d == Deleted(store[s][e], seen[e]) IN
             /\ d \in Record /\ d.version >= 1 /\ d.kind = "tombstone"
             /\ d.edits = IF IsTombstone(store[s][e]) THEN Held(s, e) ELSE seen[e]
  <2>1. e \in Entity /\ store[s][e] \in Record \union {None} /\ seen[e] \in SUBSET Edit
    BY <1>1, <1>2
  <2>2. store[s][e] # None => store[s][e].version >= 1 /\ store[s][e].version \in Nat
    BY <2>1 DEF MirrorInv, VersionsOK, VersionOf, Record
  <2>3. CASE IsRow(store[s][e])
    BY <1>2, <2>1, <2>2, <2>3, NoneAssumption
       DEF Deleted, Buried, IsRow, IsTombstone, Record
  <2>4. CASE store[s][e] = None
    BY <1>2, <2>1, <2>4 DEF Deleted, IsRow, IsTombstone, Record
  <2>5. CASE IsTombstone(store[s][e])
    BY <2>1, <2>2, <2>5, NoneAssumption DEF Deleted, IsRow, IsTombstone, Record, Held
  <2> QED
    BY <2>3, <2>4, <2>5 DEF IsRow, IsTombstone
<1>6. \A e \in es : /\ store'[s][e] = Deleted(store[s][e], seen[e])
                    /\ store'[s][e] \in Record /\ store'[s][e].version >= 1
                    /\ store'[s][e] # None /\ ~IsRow(store'[s][e])
  BY <1>1, <1>4, <1>5, NoneAssumption DEF IsRow
<1>7. store' \in [Side -> [Entity -> Record \union {None}]]
  <2>1. \A e \in Entity : (IF e \in es THEN Deleted(store[s][e], seen[e]) ELSE store[s][e])
                             \in Record \union {None}
    BY <1>2, <1>5
  <2> QED
    BY <1>2, <1>3, <2>1
<1>8. Logged(s, logged, "delete") /\ logged \subseteq es
  BY DEF DeleteByIds, Logged
<1>9. Changes(s, es, logged, "delete")
  BY <1>4, <1>6, <1>7, <1>8 DEF Changes
<1>10. \A e \in es : /\ ~Active(s, e)'
                     /\ Held(s, e)' = IF IsTombstone(store[s][e]) THEN Held(s, e) ELSE seen[e]
  BY <1>5, <1>6 DEF Active, Held
<1> QED
  BY <1>1, <1>9, <1>10

(* What changes on one side, as the rest of the invariant needs it. *)
LEMMA SideChanges ==
    ASSUME MirrorInv, NEW s \in Side, NEW o \in Side, o = Other(s), NEW es \in SUBSET Entity,
           NEW op \in Op, NEW logged, Changes(s, es, logged, op),
           cur' = cur, clock' = clock,
           \A e \in es : LatestRevision(o, e) <= cur[s] /\ Active(o, e)
                            => Held(o, e) \subseteq Held(s, e)'
    PROVE  /\ StoresOK' /\ CursorHonest' /\ CursorsOK' /\ clock' \in 0..MaxEdits
           /\ \A x \in Side : rev[x] <= rev'[x]
           /\ \A x \in Side, e \in Entity : (x # s \/ e \notin es) => Still(x, e)
<1>1. TypesOK /\ StoresOK
  BY StoresNow
<1>2. /\ StoresOK'
      /\ \A x \in Side : rev[x] <= rev'[x]
      /\ \A x \in Side, e \in Entity : (x # s \/ e \notin es) => Still(x, e)
      /\ \A e \in es : Active(s, e)' => LatestRevision(s, e)' > rev[s]
  BY <1>1, ChangesKeep
<1>3. CursorHonest' /\ CursorsOK'
  BY <1>2, CursorsStay DEF StoresOK
<1> QED
  BY <1>2, <1>3 DEF MirrorInv, TypesOK

LEMMA DeleteSourceKeeps ==
    ASSUME MirrorInv, DeleteSource, NEW a \in Side, NEW b \in Side, a = Source, b = Target,
           NEW away, away = run.plan.deleteSource
    PROVE  /\ MirrorInv' /\ DOMAIN away \in SUBSET Entity
           /\ \A x \in Side, e \in Entity : (x # a \/ e \notin DOMAIN away) => Still(x, e)
           /\ \A e \in DOMAIN away :
                 ~Active(a, e) /\ ~Active(a, e)'
                 /\ Held(a, e)' \subseteq Held(a, e) \union Held(b, e)
           /\ SamePage /\ run'.at \in {"deleteTarget", "push"}
           /\ run'.plan.copy = run.plan.copy /\ DOMAIN run'.plan.deleteSource = {}
           /\ run'.plan.deleteTarget = run.plan.deleteTarget
<1>1. /\ run.at = "deleteSource" /\ DeleteByIds(a, away)
      /\ run' = Ahead([run EXCEPT !.plan.deleteSource = Nothing])
      /\ clock' = clock /\ cur' = cur /\ aborts' = aborts
  BY DEF DeleteSource
<1>2. /\ run \in Runs /\ RunInv(a, b) /\ PhaseInv /\ Busy /\ cur \in [Side -> Nat]
      /\ run.plan \in Plans /\ away \in Maps(SUBSET Edit)
      /\ aborts \in Nat /\ a # b /\ Other(a) = b
  BY <1>1, Sides DEF MirrorInv, TypesOK, Busy, Runs, Plans
<1>3. /\ DOMAIN away \in SUBSET Entity
      /\ \E logged : Changes(a, DOMAIN away, logged, "delete")
      /\ \A e \in DOMAIN away :
            /\ ~Active(a, e)'
            /\ Held(a, e)' = IF IsTombstone(store[a][e]) THEN Held(a, e) ELSE away[e]
  BY <1>1, <1>2, DeletesChange
<1>4. \A e \in DOMAIN away : DeleteSourceInv(a, b, e, away[e])
  BY <1>1, <1>2 DEF RunInv, PlanInv
<1>5. run.outbound = cur[a] /\ run.cursor = cur[b] /\ run.plan.next <= rev[a]
      /\ run.cursor <= run.plan.next
  BY <1>1, <1>2 DEF RunInv, PassInv
<1>6. \A e \in DOMAIN away : LatestRevision(b, e) <= cur[a] => ~Active(b, e)
  BY <1>4, <1>5 DEF DeleteSourceInv, Settled
<1>7. /\ StoresOK' /\ CursorHonest' /\ CursorsOK' /\ clock' \in 0..MaxEdits
      /\ \A x \in Side : rev[x] <= rev'[x]
      /\ \A x \in Side, e \in Entity : (x # a \/ e \notin DOMAIN away) => Still(x, e)
  <2>1. PICK logged : Changes(a, DOMAIN away, logged, "delete")
    BY <1>3
  <2>2. \A e \in DOMAIN away : LatestRevision(b, e) <= cur[a] /\ Active(b, e)
                                => Held(b, e) \subseteq Held(a, e)'
    BY <1>6
  <2>3. "delete" \in Op
    BY DEF Op
  <2> QED
    BY <1>1, <1>2, <1>3, <2>1, <2>2, <2>3, SideChanges
<1>8. /\ run' \in Runs /\ run'.pass = run.pass /\ run'.touched = run.touched
      /\ run'.outbound = run.outbound /\ run'.cursor = run.cursor
      /\ run'.at \in {"deleteTarget", "push"}
      /\ run'.at = "push" => DOMAIN run.plan.deleteTarget = {}
      /\ run'.pulled = run.pulled /\ run'.plan.next = run.plan.next
      /\ run'.plan.copy = run.plan.copy /\ DOMAIN run'.plan.deleteSource = {}
      /\ run'.plan.deleteTarget = run.plan.deleteTarget
      /\ SamePage
  <2> DEFINE p == [run.plan EXCEPT !.deleteSource = Nothing]
             r == [run EXCEPT !.plan.deleteSource = Nothing]
  <2>1. /\ p \in Plans /\ p.next = run.plan.next /\ p.copy = run.plan.copy
        /\ p.deleteSource = Nothing /\ p.deleteTarget = run.plan.deleteTarget
        /\ p.more = run.plan.more
    BY <1>2, NothingMaps DEF Plans
  <2>2. r = [run EXCEPT !.plan = p]
    BY <1>2 DEF Runs, Plans
  <2> HIDE DEF p
  <2>3. /\ r \in Runs /\ r.at = "deleteSource" /\ r.pulled = run.pulled /\ r.plan = p
        /\ r.pass = run.pass /\ r.touched = run.touched
        /\ r.outbound = run.outbound /\ r.cursor = run.cursor /\ r.quiet = run.quiet
    BY <1>1, <1>2, <2>1, <2>2 DEF Runs
  <2>4. run' = Ahead(r)
    BY <1>1
  <2> HIDE DEF r
  <2>5. DOMAIN p.deleteSource = {} /\ Ahead(r).at # "deleteSource"
    BY <2>1, <2>3, NothingMaps DEF Ahead, Runs
  <2> QED
    BY <2>1, <2>3, <2>4, <2>5, AheadIs DEF SamePage, InPass
<1>9. a = Source' /\ b = Target'
  BY <1>8 DEF Source, Target, Other
<1>10. /\ run.touched \subseteq Entity /\ DOMAIN run.plan.copy \subseteq Entity
       /\ DOMAIN run.plan.deleteTarget \subseteq Entity
  BY <1>2 DEF Runs, Plans, Maps
<1>11. /\ DOMAIN run'.pulled.records = {} /\ run'.pulled.deletes = {}
  BY <1>1, <1>2, <1>8 DEF PhaseInv
<1>12. PhaseInv' /\ PulledInv(a, b)'
  BY <1>1, <1>2, <1>8, <1>11 DEF PhaseInv, PulledInv
<1>13. PassInv(a, b)'
  BY <1>1, <1>2, <1>5, <1>7, <1>8 DEF PassInv, StoresOK, MirrorInv, TypesOK, Runs, Plans
<1>14. TouchedInv(a, b)'
  <2> SUFFICES ASSUME NEW e \in run.touched, Active(b, e)'
               PROVE  Held(b, e)' \subseteq Held(a, e)'
    BY <1>8 DEF TouchedInv
  <2>1. e \in Entity /\ Still(b, e)
    BY <1>2, <1>7, <1>10
  <2>2. e \notin DOMAIN away
    BY <1>4, <2>1, StillMeans DEF DeleteSourceInv, Settled
  <2> QED
    BY <1>2, <1>7, <2>1, <2>2, StillMeans DEF RunInv, TouchedInv
<1>15. PlanInv(a, b)'
  <2>1. ASSUME NEW e \in DOMAIN run.plan.copy
        PROVE  CopyInv(a, b, e, run.plan.copy[e])'
    <3>1. e \in Entity /\ CopyInv(a, b, e, run.plan.copy[e])
      BY <1>1, <1>2, <1>10 DEF RunInv, PlanInv
    <3>2. Still(a, e) /\ Still(b, e)
      BY <1>2, <1>7, <3>1 DEF CopyInv
    <3>3. LogsLate(a, e)' <=> LogsLate(a, e)
      BY <1>8, <3>2, StillMeans DEF LogsLate
    <3> QED
      BY <1>8, <3>1, <3>2, <3>3, StillMeans DEF CopyInv
  <2>2. ASSUME NEW e \in DOMAIN run.plan.deleteTarget
        PROVE  DeleteTargetInv(a, b, e, run.plan.deleteTarget[e])'
    <3>1. e \in Entity /\ DeleteTargetInv(a, b, e, run.plan.deleteTarget[e])
      BY <1>1, <1>2, <1>10 DEF RunInv, PlanInv
    <3>2. Still(a, e) /\ Still(b, e)
      BY <1>2, <1>4, <1>7, <3>1 DEF DeleteSourceInv
    <3>3. Past(a, e)'
      BY <1>8, <3>1, <3>2, StillMeans DEF Past, DeleteTargetInv
    <3>4. run'.at = "deleteTarget"
      BY <1>8
    <3>5. DeleteTargetInv(a, b, e, run.plan.deleteTarget[e])'
      <4>1. /\ run.plan.deleteTarget[e] \subseteq Held(a, e)
            /\ Active(b, e) => Held(b, e) \subseteq run.plan.deleteTarget[e]
        BY <1>1, <3>1 DEF DeleteTargetInv
      <4> QED
        BY <1>8, <3>2, <3>3, <3>4, <4>1, StillMeans DEF DeleteTargetInv
    <3> QED
      BY <3>5
  <2> QED
    BY <1>8, <2>1, <2>2 DEF PlanInv
<1>16. PageInv(a, b)'
  <2> SUFFICES ASSUME NEW e \in Entity, Covered(a, e)'
               PROVE  Carried(a, b, e)'
    BY DEF PageInv
  <2>1. e \notin DOMAIN away
    BY <1>3 DEF Covered
  <2>2. Still(a, e) /\ Still(b, e)
    BY <1>7, <2>1
  <2>3. Covered(a, e)
    BY <1>8, <2>2, StillMeans DEF Covered, LogsLate
  <2>4. Carried(a, b, e)
    BY <1>2, <2>3 DEF RunInv, PageInv
  <2>5. store'[a][e] = store[a][e]
    BY <2>2 DEF Still
  <2> QED
    BY <1>1, <1>8, <2>2, <2>4, <2>5, StillMeans DEF Carried
<1>17. RunInv(a, b)'
  BY <1>12, <1>13, <1>14, <1>15, <1>16 DEF RunInv
<1>18. MirrorInv'
  <2>1. \A x, y \in Side : (x = Source' /\ y = Target') => RunInv(x, y)'
    BY <1>9, <1>17
  <2> QED
    BY <1>1, <1>2, <1>7, <1>8, <1>12, <2>1, InvNext
<1> QED
  BY <1>3, <1>4, <1>7, <1>8, <1>18 DEF DeleteSourceInv

LEMMA DeleteTargetKeeps ==
    ASSUME MirrorInv, DeleteTarget, NEW a \in Side, NEW b \in Side, a = Source, b = Target,
           NEW gone, gone = run.plan.deleteTarget
    PROVE  /\ MirrorInv' /\ DOMAIN gone \in SUBSET Entity
           /\ \A x \in Side, e \in Entity : (x # b \/ e \notin DOMAIN gone) => Still(x, e)
           /\ \A e \in DOMAIN gone :
                 /\ ~Active(b, e)'
                 /\ Active(b, e) => Held(b, e) \subseteq Held(b, e)'
                 /\ Held(b, e)' \subseteq Held(a, e) \union Held(b, e)
           /\ SamePage /\ run'.at = "push" /\ run'.plan = run.plan
<1>1. /\ run.at = "deleteTarget" /\ DeleteByIds(b, gone)
      /\ run' = [run EXCEPT !.at = "push"]
      /\ clock' = clock /\ cur' = cur /\ aborts' = aborts
  BY DEF DeleteTarget
<1>2. /\ run \in Runs /\ RunInv(a, b) /\ PhaseInv /\ Busy /\ cur \in [Side -> Nat]
      /\ gone \in Maps(SUBSET Edit) /\ aborts \in Nat /\ a # b /\ Other(b) = a
  BY <1>1, Sides DEF MirrorInv, TypesOK, Busy, Runs, Plans
<1>3. /\ DOMAIN gone \in SUBSET Entity
      /\ \E logged : Changes(b, DOMAIN gone, logged, "delete")
      /\ \A e \in DOMAIN gone :
            /\ ~Active(b, e)'
            /\ Held(b, e)' = IF IsTombstone(store[b][e]) THEN Held(b, e) ELSE gone[e]
  BY <1>1, <1>2, DeletesChange
<1>4. \A e \in DOMAIN gone :
         /\ gone[e] \subseteq Held(a, e) /\ Past(a, e)
         /\ Active(b, e) => Held(b, e) \subseteq gone[e]
  BY <1>1, <1>2 DEF RunInv, PlanInv, DeleteTargetInv
<1>5. /\ run.outbound = cur[a] /\ run.cursor = cur[b] /\ run.plan.next <= rev[a]
      /\ run.cursor <= run.plan.next /\ run.cursor \in Nat /\ run.plan.next \in Nat
  BY <1>1, <1>2 DEF RunInv, PassInv, Runs, Plans
<1>6. \A e \in Entity : LatestRevision(a, e) \in Nat
  BY LatestType DEF MirrorInv
<1>7. /\ StoresOK' /\ CursorHonest' /\ CursorsOK' /\ clock' \in 0..MaxEdits
      /\ \A x \in Side : rev[x] <= rev'[x]
      /\ \A x \in Side, e \in Entity : (x # b \/ e \notin DOMAIN gone) => Still(x, e)
  <2>1. PICK logged : Changes(b, DOMAIN gone, logged, "delete")
    BY <1>3
  <2>2. \A e \in DOMAIN gone : LatestRevision(a, e) <= cur[b] /\ Active(a, e)
                                => Held(a, e) \subseteq Held(b, e)'
    BY <1>3, <1>4, <1>5, <1>6 DEF Past
  <2>3. "delete" \in Op
    BY DEF Op
  <2> QED
    BY <1>1, <1>2, <1>3, <2>1, <2>2, <2>3, SideChanges
<1>8. /\ run' \in Runs /\ run'.pass = run.pass /\ run'.touched = run.touched
      /\ run'.outbound = run.outbound /\ run'.cursor = run.cursor
      /\ run'.at = "push" /\ run'.pulled = run.pulled /\ run'.plan = run.plan
      /\ SamePage
  BY <1>1, <1>2 DEF Runs, Place, SamePage, InPass
<1>9. a = Source' /\ b = Target'
  BY <1>8 DEF Source, Target, Other
<1>10. run.touched \subseteq Entity /\ DOMAIN run.plan.copy \subseteq Entity
  BY <1>2 DEF Runs, Plans, Maps
<1>11. /\ DOMAIN run.pulled.records = {} /\ run.pulled.deletes = {}
       /\ DOMAIN run.plan.deleteSource = {}
  BY <1>1, <1>2 DEF PhaseInv
<1>12. PhaseInv' /\ PulledInv(a, b)'
  BY <1>8, <1>11 DEF PhaseInv, PulledInv
<1>13. PassInv(a, b)'
  BY <1>1, <1>2, <1>5, <1>7, <1>8 DEF PassInv, StoresOK, MirrorInv, TypesOK
<1>14. TouchedInv(a, b)'
  <2> SUFFICES ASSUME NEW e \in run.touched, Active(b, e)'
               PROVE  Held(b, e)' \subseteq Held(a, e)'
    BY <1>8 DEF TouchedInv
  <2>1. e \in Entity /\ e \notin DOMAIN gone
    BY <1>3, <1>10
  <2> QED
    BY <1>2, <1>7, <2>1, StillMeans DEF RunInv, TouchedInv
<1>15. PlanInv(a, b)'
  <2>1. ASSUME NEW e \in DOMAIN run.plan.copy
        PROVE  CopyInv(a, b, e, run.plan.copy[e])'
    <3>1. e \in Entity /\ CopyInv(a, b, e, run.plan.copy[e])
      BY <1>1, <1>2, <1>10 DEF RunInv, PlanInv
    <3>2. Still(a, e) /\ Still(b, e)
      BY <1>2, <1>7, <3>1 DEF CopyInv
    <3>3. LogsLate(a, e)' <=> LogsLate(a, e)
      BY <1>8, <3>2, StillMeans DEF LogsLate
    <3> QED
      BY <1>8, <3>1, <3>2, <3>3, StillMeans DEF CopyInv
  <2>2. ASSUME NEW e \in DOMAIN gone
        PROVE  DeleteTargetInv(a, b, e, gone[e])'
    <3>1. e \in Entity /\ Still(a, e)
      BY <1>2, <1>3, <1>7
    <3>2. Past(a, e)'
      BY <1>4, <1>8, <3>1, StillMeans DEF Past
    <3> QED
      BY <1>3, <1>4, <1>8, <3>1, <3>2, StillMeans DEF DeleteTargetInv
  <2> QED
    BY <1>8, <1>11, <2>1, <2>2 DEF PlanInv
<1>16. PageInv(a, b)'
  <2> SUFFICES ASSUME NEW e \in Entity, Covered(a, e)'
               PROVE  Carried(a, b, e)'
    BY DEF PageInv
  <2>1. Still(a, e)
    BY <1>2, <1>7
  <2>2. Covered(a, e)
    BY <1>8, <2>1, StillMeans DEF Covered, LogsLate
  <2>3. e \notin DOMAIN gone
    BY <1>4, <1>5, <1>6, <2>2 DEF Past, Covered
  <2>4. Still(b, e) /\ Carried(a, b, e)
    BY <1>2, <1>7, <2>2, <2>3 DEF RunInv, PageInv
  <2>5. store'[a][e] = store[a][e]
    BY <2>1 DEF Still
  <2> QED
    BY <1>1, <1>8, <2>1, <2>4, <2>5, StillMeans DEF Carried
<1>17. RunInv(a, b)'
  BY <1>12, <1>13, <1>14, <1>15, <1>16 DEF RunInv
<1>18. MirrorInv'
  <2>1. \A x, y \in Side : (x = Source' /\ y = Target') => RunInv(x, y)'
    BY <1>9, <1>17
  <2> QED
    BY <1>1, <1>2, <1>7, <1>8, <1>12, <2>1, InvNext
<1>19. \A e \in DOMAIN gone : IsTombstone(store[b][e]) => ~Active(b, e)
  BY DEF IsTombstone, Active, IsRow
<1> QED
  BY <1>3, <1>4, <1>7, <1>8, <1>18, <1>19

(* What a push writes for a record. *)
LEMMA AcceptedIs ==
    ASSUME NEW b, b = Target, NEW e, store[b][e] \in Record \union {None},
           NEW r \in Record, r.kind # "tombstone", r.version >= 1
    PROVE  /\ Accepted(e, r) \in Record /\ Accepted(e, r).version >= 1
           /\ Accepted(e, r).kind = r.kind /\ Accepted(e, r).edits = r.edits
<1>1. CASE IsTombstone(store[b][e])
  <2>1. store[b][e] \in Record /\ store[b][e].version \in Nat
    BY <1>1 DEF IsTombstone, Record
  <2>2. Accepted(e, r) = [r EXCEPT !.version = store[b][e].version + 1]
    BY <1>1 DEF Accepted
  <2> QED
    BY <2>1, <2>2 DEF Record
<1>2. CASE ~IsTombstone(store[b][e])
  <2>1. Accepted(e, r) = r
    BY <1>2 DEF Accepted
  <2> QED
    BY <2>1
<1> QED
  BY <1>1, <1>2

LEMMA PushKeeps ==
    ASSUME MirrorInv, Push, NEW a \in Side, NEW b \in Side, a = Source, b = Target
    PROVE  /\ MirrorInv'
           /\ \E written \in SUBSET Entity :
                 /\ \A x \in Side, e \in Entity : (x # b \/ e \notin written) => Still(x, e)
                 /\ \A e \in written :
                       /\ Active(b, e) => Held(b, e) \subseteq Held(b, e)'
                       /\ Held(b, e)' \subseteq Held(a, e)
<1>1. PICK written, refused, copy :
         /\ copy = run.plan.copy
         /\ written = {e \in DOMAIN copy : ~Refused(e, copy[e])
                          /\ Accepted(e, copy[e].record) # store[b][e]}
         /\ refused = {e \in DOMAIN copy : Refused(e, copy[e])}
  OBVIOUS
<1>2. /\ run.at = "push" /\ clock' = clock /\ cur' = cur /\ aborts' = aborts
      /\ Put(b, [e \in written |-> Accepted(e, copy[e].record)], "upsert")
      /\ run' = IF refused = {} THEN [run EXCEPT !.at = "save", !.touched = Touched]
                ELSE Idle
  BY <1>1 DEF Push
<1>3. /\ run \in Runs /\ RunInv(a, b) /\ PhaseInv /\ Busy /\ cur \in [Side -> Nat]
      /\ copy \in Maps(Copies) /\ aborts \in Nat /\ a # b /\ Other(b) = a
  BY <1>1, <1>2, Sides DEF MirrorInv, TypesOK, Busy, Runs, Plans
<1>4. /\ DOMAIN copy \in SUBSET Entity /\ written \in SUBSET DOMAIN copy
      /\ \A e \in DOMAIN copy : copy[e] \in Copies
  BY <1>1, <1>3 DEF Maps
<1>5. \A e \in DOMAIN copy : CopyInv(a, b, e, copy[e])
  BY <1>1, <1>2, <1>3 DEF RunInv, PlanInv
<1>6. /\ run.outbound = cur[a] /\ run.cursor = cur[b] /\ run.plan.next <= rev[a]
      /\ run.cursor <= run.plan.next /\ run.cursor \in Nat /\ run.plan.next \in Nat
  BY <1>2, <1>3 DEF RunInv, PassInv, Runs, Plans
<1>7. ASSUME NEW e \in DOMAIN copy
      PROVE  LET r == Accepted(e, copy[e].record) IN
             /\ r \in Record /\ r.version >= 1 /\ r.kind # "tombstone"
             /\ r.edits = copy[e].record.edits
  <2>1. /\ e \in Entity /\ copy[e].record \in Record /\ store[b][e] \in Record \union {None}
        /\ copy[e].record.kind # "tombstone" /\ copy[e].record.version >= 1
    BY <1>4, <1>5 DEF Copies, CopyInv, MirrorInv, TypesOK
  <2> QED
    BY <2>1, AcceptedIs
<1> DEFINE new == [e \in written |-> Accepted(e, copy[e].record)]
<1>8. /\ new \in [written -> Record] /\ DOMAIN new = written
      /\ \A e \in written : /\ new[e] = Accepted(e, copy[e].record)
                            /\ new[e].version >= 1
  BY <1>4, <1>7
<1>9. Put(b, new, "upsert")
  BY <1>2
<1> HIDE DEF new
<1>10. "upsert" \in Op /\ written \in SUBSET Entity
  BY <1>4 DEF Op
<1>11. /\ Changes(b, written, written, "upsert")
       /\ \A e \in written : store'[b][e] = new[e]
  <2>1. TypesOK
    BY StoresNow
  <2> QED
    BY <1>8, <1>9, <1>10, <2>1, PutChanges
<1>12. \A e \in written : Held(b, e)' = copy[e].record.edits
  BY <1>4, <1>7, <1>8, <1>11, NoneAssumption DEF Held
<1>13. \A e \in DOMAIN copy :
          /\ LatestRevision(a, e) > cur[b] /\ LatestRevision(a, e) \in Nat
          /\ copy[e].record.edits \subseteq Held(a, e)
  BY <1>4, <1>5, <1>6, LatestType DEF CopyInv, LogsLate, MirrorInv
<1>14. /\ StoresOK' /\ CursorHonest' /\ CursorsOK' /\ clock' \in 0..MaxEdits
       /\ \A x \in Side : rev[x] <= rev'[x]
       /\ \A x \in Side, e \in Entity : (x # b \/ e \notin written) => Still(x, e)
  <2>1. \A e \in written : LatestRevision(a, e) <= cur[b] /\ Active(a, e)
                              => Held(a, e) \subseteq Held(b, e)'
    BY <1>3, <1>4, <1>13
  <2> QED
    BY <1>2, <1>3, <1>10, <1>11, <2>1, SideChanges
<1>15. ASSUME NEW e \in written, Active(b, e)
       PROVE  Held(b, e) \subseteq Held(b, e)'
  <2>1. /\ e \in DOMAIN copy /\ IsRow(store[b][e]) /\ ~Refused(e, copy[e])
        /\ store[b][e] # None
    BY <1>1, <1>15 DEF Active, IsRow
  <2>2. \/ copy[e].record.edits = store[b][e].edits
        \/ copy[e].base = store[b][e].version
    BY <2>1 DEF Refused, Differ
  <2>3. Held(b, e) = store[b][e].edits /\ VersionOf(b, e) = store[b][e].version
    BY <2>1 DEF Held, VersionOf
  <2>4. Held(b, e) \subseteq copy[e].record.edits
    BY <1>5, <1>15, <2>1, <2>2, <2>3 DEF CopyInv
  <2> QED
    BY <1>12, <2>4
<1>16. CASE refused # {}
  <2>1. run' = Idle
    BY <1>2, <1>16
  <2>2. MirrorInv'
    BY <1>2, <1>3, <1>14, <2>1, IdleKeeps
  <2> QED
    BY <1>4, <1>10, <1>12, <1>13, <1>14, <1>15, <2>2
<1>17. CASE refused = {}
  <2>1. run' = [run EXCEPT !.at = "save", !.touched = Touched]
    BY <1>2, <1>17
  <2>2. /\ run.touched \subseteq Entity /\ DOMAIN run.plan.deleteTarget \subseteq Entity
        /\ Touched = run.touched \union DOMAIN copy \union DOMAIN run.plan.deleteTarget
    BY <1>1, <1>3 DEF Runs, Plans, Maps, Touched
  <2>3. PICK touched \in SUBSET Entity : touched = Touched
    BY <1>4, <2>2
  <2>4. /\ run' \in Runs /\ run'.pass = run.pass /\ run'.touched = touched
        /\ run'.outbound = run.outbound /\ run'.cursor = run.cursor
        /\ run'.at = "save" /\ run'.pulled = run.pulled /\ run'.plan = run.plan
    BY <1>3, <2>1, <2>3 DEF Runs, Place
  <2>5. a = Source' /\ b = Target'
    BY <2>4 DEF Source, Target, Other
  <2>6. /\ DOMAIN run.pulled.records = {} /\ run.pulled.deletes = {}
        /\ DOMAIN run.plan.deleteSource = {}
    BY <1>2, <1>3 DEF PhaseInv
  <2>7. PhaseInv' /\ PulledInv(a, b)' /\ PlanInv(a, b)'
    BY <2>4, <2>6 DEF PhaseInv, PulledInv, PlanInv
  <2>8. PassInv(a, b)'
    BY <1>2, <1>3, <1>6, <1>14, <2>4 DEF PassInv, StoresOK, MirrorInv, TypesOK
  <2>9. \A e \in DOMAIN copy : e \notin written => Held(b, e)' = copy[e].record.edits
    <3> SUFFICES ASSUME NEW e \in DOMAIN copy, e \notin written
                 PROVE  Held(b, e)' = copy[e].record.edits
      OBVIOUS
    <3>1. Accepted(e, copy[e].record) = store[b][e]
      BY <1>1, <1>17
    <3>2. Held(b, e) = copy[e].record.edits
      BY <1>7, <3>1, NoneAssumption DEF Held
    <3> QED
      BY <1>4, <1>14, <3>2, StillMeans
  <2>10. \A e \in DOMAIN copy : Held(b, e)' = copy[e].record.edits
    BY <1>12, <2>9
  <2>11. \A e \in Entity : /\ Held(a, e)' = Held(a, e) /\ store'[a][e] = store[a][e]
                           /\ Still(a, e)
    BY <1>3, <1>14, StillMeans DEF Still
  <2>12. TouchedInv(a, b)'
    <3> SUFFICES ASSUME NEW e \in touched, Active(b, e)'
                 PROVE  Held(b, e)' \subseteq Held(a, e)'
      BY <2>4 DEF TouchedInv
    <3>1. CASE e \in DOMAIN copy
      BY <1>13, <2>10, <2>11, <3>1
    <3>2. CASE e \notin DOMAIN copy
      <4>1. e \notin written /\ Still(b, e)
        BY <1>4, <1>14, <3>2
      <4>2. Active(b, e) /\ Held(b, e)' = Held(b, e)
        BY <4>1, StillMeans
      <4>3. e \notin DOMAIN run.plan.deleteTarget
        BY <1>2, <1>3, <4>2 DEF RunInv, PlanInv, DeleteTargetInv
      <4> QED
        BY <1>3, <2>2, <2>3, <2>11, <3>2, <4>2, <4>3 DEF RunInv, TouchedInv
    <3> QED
      BY <3>1, <3>2
  <2>13. PageInv(a, b)'
    <3> SUFFICES ASSUME NEW e \in Entity, Covered(a, e)'
                 PROVE  Held(a, e)' \subseteq Held(b, e)'
      BY <2>4 DEF PageInv, Carried
    <3>1. Covered(a, e)
      BY <2>4, <2>11, StillMeans DEF Covered, LogsLate
    <3>2. Carried(a, b, e)
      BY <1>3, <3>1 DEF RunInv, PageInv
    <3>3. CASE e \in DOMAIN copy
      <4>1. copy[e].record = store[a][e]
        BY <1>1, <1>2, <3>2, <3>3 DEF Carried
      <4>2. Held(a, e) = store[a][e].edits
        BY <3>1 DEF Covered, Active, IsRow, Held
      <4> QED
        BY <2>10, <2>11, <3>3, <4>1, <4>2
    <3>4. CASE e \notin DOMAIN copy
      <4>1. Held(a, e) \subseteq Held(b, e)
        BY <1>1, <1>2, <3>2, <3>4 DEF Carried
      <4>2. Still(b, e)
        BY <1>4, <1>14, <3>4
      <4> QED
        BY <2>11, <4>1, <4>2, StillMeans
    <3> QED
      BY <3>3, <3>4
  <2>14. RunInv(a, b)'
    BY <2>7, <2>8, <2>12, <2>13 DEF RunInv
  <2>15. MirrorInv'
    <3>1. \A x, y \in Side : (x = Source' /\ y = Target') => RunInv(x, y)'
      BY <2>5, <2>14
    <3> QED
      BY <1>2, <1>3, <1>14, <2>4, <2>7, <3>1, InvNext
  <2> QED
    BY <1>4, <1>10, <1>12, <1>13, <1>14, <1>15, <2>15
<1> QED
  BY <1>16, <1>17

(***************************************************************************)
(* The invariant holds.                                                    *)
(***************************************************************************)
LEMMA InitOK ==
    ASSUME MirrorInit
    PROVE  MirrorInv
<1>1. /\ \A s \in Side, e \in Entity : store[s][e] = None
      /\ \A s \in Side : log[s] = {} /\ rev[s] = 0 /\ cur[s] = 0
      /\ run = Idle /\ clock = 0 /\ aborts = 0
  BY DEF MirrorInit
<1>2. TypesOK
  BY IdleRun, MirrorBounds DEF MirrorInit, TypesOK
<1>3. VersionsOK /\ LogTrue /\ CursorsOK
  BY <1>1, Sides DEF VersionsOK, LogTrue, CursorsOK, IsRow
<1>4. \A s \in Side : LogOK(s)
  BY <1>1 DEF LogOK, EntriesOf
<1>5. CursorHonest
  BY <1>1, Sides DEF CursorHonest, Active, IsRow
<1>6. /\ DOMAIN run.plan.copy = {} /\ DOMAIN run.plan.deleteSource = {}
      /\ DOMAIN run.plan.deleteTarget = {}
      /\ DOMAIN run.pulled.records = {} /\ run.pulled.deletes = {}
      /\ run.at = "idle" /\ run.touched = {}
  BY <1>1, IdleRun, NothingMaps DEF NothingPlanned, NothingPulled
<1>7. PhaseInv
  BY <1>6 DEF PhaseInv
<1>8. \A a, b \in Side : RunInv(a, b)
  BY <1>6 DEF RunInv, PassInv, Busy, TouchedInv, PulledInv, PlanInv, PageInv, Carried
<1> QED
  BY <1>2, <1>3, <1>4, <1>5, <1>7, <1>8 DEF MirrorInv

(***************************************************************************)
(* Every step is one of the replicas', or is not seen.                     *)
(***************************************************************************)
HeldBy == [s \in Side |-> [e \in Entity |-> Held(s, e)]]
LiveOn == [s \in Side |-> {e \in Entity : Active(s, e)}]

Merges == Abstract!ReplicaNext \/ UNCHANGED Abstract!replicaVars

LEMMA SameHeld ==
    ASSUME \A x \in Side, e \in Entity : Still(x, e)
    PROVE  Merges
<1>1. \A x \in Side, e \in Entity : /\ Held(x, e)' = Held(x, e)
                                    /\ Active(x, e)' = Active(x, e)
  BY StillMeans
<1>2. HeldBy' = HeldBy /\ LiveOn' = LiveOn
  BY <1>1 DEF HeldBy, LiveOn
<1> QED
  BY <1>2 DEF Merges, Abstract!replicaVars, HeldBy, LiveOn

LEMMA Takes ==
    ASSUME MirrorInv, NEW s \in Side, NEW o \in Side, NEW es \in SUBSET Entity,
           \A x \in Side, e \in Entity : (x # s \/ e \notin es) => Still(x, e),
           \A e \in es : /\ Active(s, e) => Held(s, e) \subseteq Held(s, e)'
                         /\ Held(s, e)' \subseteq Held(o, e) \union Held(s, e)
    PROVE  Merges
<1>1. \A x \in Side, e \in Entity : (x # s \/ e \notin es) =>
         Held(x, e)' = Held(x, e) /\ Active(x, e)' = Active(x, e)
  BY StillMeans
<1>2. PICK new : new = [e \in es |-> Held(s, e)']
  OBVIOUS
<1>3. PICK shown : shown = {e \in es : Active(s, e)'}
  OBVIOUS
<1>4. \A x \in Side, e \in Entity : Held(x, e) \subseteq Abstract!Made
  BY DEF Abstract!Made
<1>5. new \in [es -> SUBSET Abstract!Made]
  <2>1. \A e \in es : Held(s, e)' \subseteq Abstract!Made
    BY <1>4
  <2> QED
    BY <1>2, <2>1
<1>6. \A e \in es \intersect LiveOn[s] : HeldBy[s][e] \subseteq new[e]
  BY <1>2 DEF HeldBy, LiveOn
<1>7. HeldBy' = [HeldBy EXCEPT ![s] =
                    [e \in Entity |-> IF e \in es THEN new[e] ELSE @[e]]]
  BY <1>1, <1>2 DEF HeldBy
<1>8. shown \in SUBSET es
  BY <1>3
<1>9. LiveOn' = [LiveOn EXCEPT ![s] = (@ \ es) \union shown]
  BY <1>1, <1>3 DEF LiveOn
<1>10. Abstract!TakeOver(s)
  BY <1>5, <1>6, <1>7, <1>8, <1>9 DEF Abstract!TakeOver, HeldBy, LiveOn
<1> QED
  BY <1>10 DEF Merges, Abstract!ReplicaNext

LEMMA Edits ==
    ASSUME MirrorInv, NEW s \in Side, NEW e \in Entity, NEW n \in Edit,
           \A x \in Side, f \in Entity : (x # s \/ f # e) => Still(x, f),
           Held(s, e)' = Held(s, e) \union {n}
    PROVE  Merges
<1>1. \A x \in Side, f \in Entity : (x # s \/ f # e) =>
         Held(x, f)' = Held(x, f) /\ Active(x, f)' = Active(x, f)
  BY StillMeans
<1>2. HeldBy' = [HeldBy EXCEPT ![s][e] = @ \union {n}]
  BY <1>1 DEF HeldBy
<1>3. \E shown \in BOOLEAN :
         LiveOn' = [LiveOn EXCEPT ![s] = IF shown THEN @ \union {e} ELSE @ \ {e}]
  <2>1. CASE Active(s, e)'
    <3>1. LiveOn' = [LiveOn EXCEPT ![s] = @ \union {e}]
      BY <1>1, <2>1 DEF LiveOn
    <3> WITNESS TRUE \in BOOLEAN
    <3> QED
      BY <3>1
  <2>2. CASE ~Active(s, e)'
    <3>1. LiveOn' = [LiveOn EXCEPT ![s] = @ \ {e}]
      BY <1>1, <2>2 DEF LiveOn
    <3> WITNESS FALSE \in BOOLEAN
    <3> QED
      BY <3>1
  <2> QED
    BY <2>1, <2>2
<1>4. Abstract!EditRecord(s, e)
  BY <1>2, <1>3 DEF Abstract!EditRecord, HeldBy, LiveOn
<1> QED
  BY <1>4 DEF Merges, Abstract!ReplicaNext

LEMMA StepMerges ==
    ASSUME MirrorInv, Closed, [MirrorNext]_mirrorVars
    PROVE  MirrorInv' /\ Merges
<1>0. PICK a \in Side, b \in Side : a = Source /\ b = Target
  BY Sides
<1>1. ASSUME NEW s \in Side, NEW e \in Entity, NEW kind \in {"active", "deleted"},
             Write(s, e, kind)
      PROVE  MirrorInv' /\ Merges
  BY <1>1, WriteKeeps, Edits
<1>2. ASSUME NEW s \in Side, NEW e \in Entity, CleanupTrash(s, e)
      PROVE  MirrorInv' /\ Merges
  <2>1. PICK es \in SUBSET Entity : es = {e}
    OBVIOUS
  <2>2. /\ MirrorInv'
        /\ \A z \in Side, x \in Entity : (z # s \/ x \notin es) => Still(z, x)
        /\ \A x \in es : Held(s, x)' = Held(s, x)
    BY <1>2, <2>1, CleanupKeeps
  <2> QED
    BY <2>2, Takes
<1>3. ASSUME NEW s \in Side, CompactEntityChanges(s)
      PROVE  MirrorInv' /\ Merges
  BY <1>3, CompactKeeps, SameHeld
<1>4. CASE StartRun
  BY <1>4, StartRunKeeps, SameHeld
<1>5. CASE PullPage
  BY <1>5, PullPageKeeps, SameHeld
<1>6. CASE PlanPage
  BY <1>6, PlanPageKeeps, SameHeld
<1>7. CASE Halt \/ RunEnds \/ Abort
  BY <1>7, IdleStepsKeep, SameHeld
<1>8. CASE SaveCursor
  BY <1>8, SaveCursorKeeps, SameHeld
<1>9. CASE DeleteSource
  <2>1. PICK away : away = run.plan.deleteSource
    OBVIOUS
  <2>2. /\ MirrorInv' /\ DOMAIN away \in SUBSET Entity
        /\ \A x \in Side, e \in Entity : (x # a \/ e \notin DOMAIN away) => Still(x, e)
        /\ \A e \in DOMAIN away :
              ~Active(a, e) /\ Held(a, e)' \subseteq Held(a, e) \union Held(b, e)
    BY <1>0, <1>9, <2>1, DeleteSourceKeeps
  <2> QED
    BY <2>2, Takes
<1>10. CASE DeleteTarget
  <2>1. PICK gone : gone = run.plan.deleteTarget
    OBVIOUS
  <2>2. /\ MirrorInv' /\ DOMAIN gone \in SUBSET Entity
        /\ \A x \in Side, e \in Entity : (x # b \/ e \notin DOMAIN gone) => Still(x, e)
        /\ \A e \in DOMAIN gone :
              /\ Active(b, e) => Held(b, e) \subseteq Held(b, e)'
              /\ Held(b, e)' \subseteq Held(a, e) \union Held(b, e)
    BY <1>0, <1>10, <2>1, DeleteTargetKeeps
  <2> QED
    BY <2>2, Takes
<1>11. CASE Push
  <2>1. MirrorInv' /\ \E written \in SUBSET Entity :
           /\ \A x \in Side, e \in Entity : (x # b \/ e \notin written) => Still(x, e)
           /\ \A e \in written : /\ Active(b, e) => Held(b, e) \subseteq Held(b, e)'
                                 /\ Held(b, e)' \subseteq Held(a, e)
    BY <1>0, <1>11, PushKeeps
  <2>2. PICK written \in SUBSET Entity :
           /\ \A x \in Side, e \in Entity : (x # b \/ e \notin written) => Still(x, e)
           /\ \A e \in written : /\ Active(b, e) => Held(b, e) \subseteq Held(b, e)'
                                 /\ Held(b, e)' \subseteq Held(a, e) \union Held(b, e)
    BY <2>1
  <2> QED
    BY <2>1, <2>2, Takes
<1>12. CASE UNCHANGED mirrorVars
  <2>1. /\ Standing /\ cur' = cur /\ run' = run /\ aborts' = aborts
    BY <1>12 DEF mirrorVars, Standing
  <2>2. \A x \in Side, e \in Entity : Still(x, e)
    BY <2>1, StandStill
  <2>3. Beside
    BY <2>1, <2>2, StandStill DEF Beside, Grows, MirrorInv, TypesOK, Standing
  <2>4. MirrorInv'
    BY <2>1, <2>3, BesideKeeps DEF MirrorInv, TypesOK, Standing
  <2> QED
    BY <2>2, <2>4, SameHeld
<1> QED
  BY <1>1, <1>2, <1>3, <1>4, <1>5, <1>6, <1>7, <1>8, <1>9, <1>10, <1>11, <1>12
     DEF MirrorNext, RunStep

(* The cursors of a run never promise more than was carried over, however runs
   are cut off, and whatever clients, retention and compaction do between their
   steps outside the windows (syncEntityOwnerOneWay saves a cursor only after
   the page was written). *)
THEOREM CursorsHonest ==
    ASSUME Closed
    PROVE  MirrorSpec => []CursorHonest
<1>1. MirrorInit => MirrorInv
  BY InitOK
<1>2. MirrorInv /\ [MirrorNext]_mirrorVars => MirrorInv'
  BY StepMerges
<1>3. MirrorInv => CursorHonest
  BY DEF MirrorInv
<1> QED
  BY <1>1, <1>2, <1>3, PTL DEF MirrorSpec

(* The mirror implements Replicas: what a run writes over a live record, or
   deletes it for, incorporates every edit that side has of it, as long as no
   client writes the record after the run decided to delete it ("delete") or
   carried its page over ("page").  In both windows it is false
   (MirrorOverwrites.cfg). *)
THEOREM MirrorMerges ==
    ASSUME Closed
    PROVE  MirrorSpec => MergesOnly
<1>1. MirrorInit => MirrorInv /\ Abstract!ReplicaInit
  <2>1. ASSUME MirrorInit
        PROVE  Abstract!ReplicaInit
    <3>1. \A s \in Side, e \in Entity : Held(s, e) = {} /\ ~Active(s, e)
      BY <2>1 DEF MirrorInit, Held, Active, IsRow
    <3> QED
      BY <3>1 DEF Abstract!ReplicaInit
  <2> QED
    BY <2>1, InitOK
<1>2. MirrorInv /\ [MirrorNext]_mirrorVars
         => MirrorInv' /\ [Abstract!ReplicaNext]_Abstract!replicaVars
  BY StepMerges DEF Merges
<1> QED
  BY <1>1, <1>2, PTL DEF MirrorSpec, MergesOnly, Abstract!ReplicaSpec

(***************************************************************************)
(* What a complete run leaves behind.  A record that both cursors cover is *)
(* active on both sides or on neither, since a page gives each record that *)
(* it covers what the source has, unless the target changed it since; and  *)
(* in a quiet run the second pass brings both cursors past all that is not *)
(* yet alike.                                                              *)
(***************************************************************************)
(* A record with a newest entry that is an upsert is a row. *)
LogDead == \A s \in Side, e \in Entity : LastIs(s, e, "upsert") => IsRow(store[s][e])

(* Active on both sides or on neither: so it is once either side's cursor has
   passed what the other last logged of it. *)
Level(e) == Active("local", e) <=> Active("remote", e)
BothCarried(e) == /\ LatestRevision("local", e) <= cur["remote"]
                  /\ LatestRevision("remote", e) <= cur["local"]
LevelInv == \A e \in Entity : BothCarried(e) => Level(e)

(* What the page still owes to a record that it covers, and that the target has
   not changed since it was last carried over. *)
Planned == run.at \in {"deleteSource", "deleteTarget", "push"}
Due(a, b, e) == /\ LogsLate(a, e) /\ LatestRevision(a, e) <= run.plan.next
                /\ LatestRevision(b, e) <= run.outbound
Owed(a, e) ==
    /\ run.at = "plan" =>
          IF IsRow(store[a][e])
          THEN e \in DOMAIN run.pulled.records /\ run.pulled.records[e] = store[a][e]
          ELSE e \in run.pulled.deletes
    /\ Planned =>
          \/ e \in DOMAIN run.plan.copy /\ run.plan.copy[e].record = store[a][e]
          \/ e \in DOMAIN run.plan.deleteTarget /\ ~Active(a, e)
          \/ Level(e)
    /\ run.at = "save" => Level(e)
OwedInv(a, b) == Busy => \A e \in Entity : Due(a, b, e) => Owed(a, e)

(* In a quiet run a page is what the source has, and what it writes agrees. *)
PageQuiet(a, b) ==
    /\ run.at = "plan" => \A e \in DOMAIN run.pulled.records :
                             run.pulled.records[e] = store[a][e]
    /\ Planned => /\ \A e \in DOMAIN run.plan.copy :
                        run.plan.copy[e].record = store[a][e]
                  /\ \A e \in DOMAIN run.plan.deleteSource : ~Active(b, e)
                  /\ \A e \in DOMAIN run.plan.deleteTarget : ~Active(a, e)
    /\ (run.at # "pull" /\ ~run.plan.more) =>
          \A e \in Entity : Agree(e) \/ LatestRevision(a, e) <= run.plan.next
PassQuiet ==
    /\ run.pass \in {2, 3} => \A e \in Entity :
          Agree(e) \/ LatestRevision("remote", e) <= cur["local"]
    /\ run.pass = 3 => \A e \in Entity : Agree(e)
QuietInv(a, b) == (Busy /\ run.quiet) => PageQuiet(a, b) /\ PassQuiet

AgreeInv ==
    /\ LogDead /\ LevelInv
    /\ \A a, b \in Side : (a = Source /\ b = Target) => OwedInv(a, b) /\ QuietInv(a, b)
    /\ AgreeAfterRun

(***************************************************************************)
(* The log, once more: what a record was last logged for.                  *)
(***************************************************************************)
LEMMA LastOne ==
    ASSUME NEW s, NEW e, NEW p, NEW q, \A c \in log[s] : c.rev \in Nat, LogOK(s),
           LastIs(s, e, p), LastIs(s, e, q)
    PROVE  p = q
<1>1. PICK c \in log[s] : IsNewest(s, e, c) /\ c.op = p
  BY DEF LastIs
<1>2. PICK d \in log[s] : IsNewest(s, e, d) /\ d.op = q
  BY DEF LastIs
<1>3. c.rev <= d.rev /\ d.rev <= c.rev
  BY <1>1, <1>2 DEF IsNewest, Newest, EntriesOf
<1>4. c.rev = d.rev
  BY <1>3
<1> QED
  BY <1>1, <1>2, <1>4 DEF LogOK

LEMMA LastOneNext ==
    ASSUME StoresOK', NEW s \in Side, NEW e, NEW p, NEW q,
           LastIs(s, e, p)', LastIs(s, e, q)'
    PROVE  p = q
<1>1. PICK c \in log'[s] : IsNewest(s, e, c)' /\ c.op = p
  BY DEF LastIs
<1>2. PICK d \in log'[s] : IsNewest(s, e, d)' /\ d.op = q
  BY DEF LastIs
<1>3. c.rev <= d.rev /\ d.rev <= c.rev
  BY <1>1, <1>2 DEF IsNewest, Newest, EntriesOf
<1>4. c.rev \in Nat /\ d.rev \in Nat
  BY DEF StoresOK, Entries
<1>5. c.rev = d.rev
  BY <1>3, <1>4
<1> QED
  BY <1>1, <1>2, <1>5 DEF LogOK, StoresOK

(* A record whose newest entry stays was last logged for the same before. *)
LEMMA LastStays ==
    ASSUME MirrorInv, StoresOK', NEW s \in Side, NEW e \in Entity, NEW op,
           SameLatest(s, e), LastIs(s, e, op)'
    PROVE  LastIs(s, e, op)
<1>1. PICK c \in log'[s] : IsNewest(s, e, c)' /\ c.op = op
  BY DEF LastIs
<1>2. \A d \in log'[s] : d.rev \in Nat \ {0}
  BY DEF StoresOK, Entries
<1>3. LatestIn(log'[s], e) = c.rev
  BY <1>1, <1>2, LatestInIs DEF IsNewest, EntriesOf
<1>4. LatestRevision(s, e) # 0
  BY <1>2, <1>3, LatestRevisionIs DEF SameLatest
<1>5. PICK d \in log[s] : IsNewest(s, e, d)
  BY <1>4 DEF LatestRevision, MirrorInv, LogOK
<1>6. LastIs(s, e, d.op)
  BY <1>5 DEF LastIs
<1>7. LastIs(s, e, d.op)'
  BY <1>6 DEF SameLatest
<1>8. d.op = op
  BY <1>7, LastOneNext
<1> QED
  BY <1>6, <1>8

LEMMA LogDeadNext ==
    ASSUME MirrorInv, StoresOK', LogDead,
           \A s \in Side, e \in Entity :
              Still(s, e) \/ IsRow(store'[s][e]) \/ LastIs(s, e, "delete")'
    PROVE  LogDead'
<1> SUFFICES ASSUME NEW s \in Side, NEW e \in Entity, LastIs(s, e, "upsert")'
             PROVE  IsRow(store'[s][e])
  BY DEF LogDead
<1>1. CASE Still(s, e)
  <2>1. LastIs(s, e, "upsert")
    BY <1>1, LastStays DEF Still
  <2>2. IsRow(store[s][e])
    BY <2>1 DEF LogDead
  <2> QED
    BY <1>1, <2>2 DEF Still
<1>2. CASE LastIs(s, e, "delete")'
  <2>1. "upsert" = "delete"
    BY <1>2, LastOneNext
  <2> QED
    BY <2>1
<1> QED
  BY <1>1, <1>2

(* Past the revision counter, or with the same part in what is active. *)
Moves(x, e) ==
    \/ LatestRevision(x, e)' > rev[x]
    \/ LatestRevision(x, e)' = LatestRevision(x, e) /\ Active(x, e)' = Active(x, e)

LEMMA StillMoves ==
    ASSUME NEW x, NEW e, Still(x, e)
    PROVE  Moves(x, e)
BY StillMeans DEF Moves

LEMMA LevelKeeps ==
    ASSUME MirrorInv, StoresOK', LevelInv, cur' = cur,
           \A x \in Side, e \in Entity : Moves(x, e)
    PROVE  LevelInv'
<1> SUFFICES ASSUME NEW e \in Entity, BothCarried(e)'
             PROVE  Level(e)'
  BY DEF LevelInv
<1>1. cur \in [Side -> Nat] /\ rev \in [Side -> Nat] /\ CursorsOK
  BY DEF MirrorInv, TypesOK
<1>2. "local" \in Side /\ "remote" \in Side /\ Other("local") = "remote"
      /\ Other("remote") = "local"
  BY DEF Side, Other
<1>3. /\ LatestRevision("local", e)' <= cur["remote"] /\ LatestRevision("local", e)' \in Nat
      /\ LatestRevision("remote", e)' <= cur["local"] /\ LatestRevision("remote", e)' \in Nat
  BY <1>2, LatestTypeNext DEF BothCarried, StoresOK
<1>4. cur["remote"] <= rev["local"] /\ cur["local"] <= rev["remote"]
  BY <1>1, <1>2 DEF CursorsOK
<1>5. cur["remote"] \in Nat /\ cur["local"] \in Nat /\ rev["local"] \in Nat /\ rev["remote"] \in Nat
  BY <1>1, <1>2
<1>6. ~(LatestRevision("local", e)' > rev["local"]) /\ ~(LatestRevision("remote", e)' > rev["remote"])
  BY <1>3, <1>4, <1>5
<1>7. /\ LatestRevision("local", e)' = LatestRevision("local", e)
      /\ Active("local", e)' = Active("local", e)
      /\ LatestRevision("remote", e)' = LatestRevision("remote", e)
      /\ Active("remote", e)' = Active("remote", e)
  BY <1>2, <1>6 DEF Moves
<1>8. BothCarried(e)
  BY <1>3, <1>7 DEF BothCarried
<1> QED
  BY <1>7, <1>8 DEF LevelInv, Level

(* Two sides that a record was carried to are level, and then agree. *)
LEMMA AgreesNext ==
    ASSUME MirrorInv', NEW e \in Entity, BothCarried(e)', Level(e)'
    PROVE  Agree(e)'
<1>1. "local" \in Side /\ "remote" \in Side /\ Other("local") = "remote"
      /\ Other("remote") = "local"
  BY DEF Side, Other
<1>2. CASE Active("local", e)' /\ Active("remote", e)'
  <2>1. /\ Held("local", e)' \subseteq Held("remote", e)'
        /\ Held("remote", e)' \subseteq Held("local", e)'
    BY <1>1, <1>2 DEF MirrorInv, CursorHonest, BothCarried
  <2> QED
    BY <1>2, <2>1 DEF Agree, Differ, Held, Active, IsRow
<1>3. CASE ~Active("local", e)' /\ ~Active("remote", e)'
  BY <1>3 DEF Agree
<1> QED
  BY <1>2, <1>3 DEF Level

(* The invariant after a step within the pass, for the sides of the run. *)
LEMMA AgreeNext ==
    ASSUME NEW a \in Side, NEW b \in Side, a = Source', b = Target',
           LogDead', LevelInv', OwedInv(a, b)', QuietInv(a, b)', run'.at # "done"
    PROVE  AgreeInv'
<1>1. \A x, y \in Side : (x = Source' /\ y = Target') => OwedInv(x, y)' /\ QuietInv(x, y)'
  OBVIOUS
<1> QED
  BY <1>1 DEF AgreeInv, AgreeAfterRun

(***************************************************************************)
(* Clients, retention and compaction.                                      *)
(***************************************************************************)
LEMMA AgreeBeside ==
    ASSUME MirrorInv, MirrorInv', AgreeInv, LogDead', cur' = cur,
           \A x \in Side, e \in Entity : Still(x, e) \/ LatestRevision(x, e)' > rev[x],
           run'.at = run.at /\ run'.pass = run.pass /\ run'.outbound = run.outbound,
           run'.cursor = run.cursor /\ run'.pulled = run.pulled /\ run'.plan = run.plan,
           run'.quiet => run.quiet /\ \A x \in Side, e \in Entity : Still(x, e)
    PROVE  AgreeInv'
<1>0. PICK a \in Side, b \in Side : a = Source /\ b = Target
  BY Sides
<1>1. a = Source' /\ b = Target'
  BY <1>0 DEF Source, Target, Other
<1>2. /\ StoresOK' /\ LevelInv /\ OwedInv(a, b) /\ QuietInv(a, b)
      /\ AgreeAfterRun
  BY <1>0 DEF AgreeInv, MirrorInv, StoresOK, TypesOK
<1>3. LevelInv'
  <2>1. \A x \in Side, e \in Entity : Moves(x, e)
    BY StillMoves DEF Moves
  <2> QED
    BY <1>2, <2>1, LevelKeeps
<1>4. /\ \A x \in Side : \A e \in Entity : LatestRevision(x, e)' \in Nat
      /\ rev[a] \in Nat /\ rev[b] \in Nat /\ CursorsOK /\ run \in Runs /\ run.plan.next \in Nat
      /\ cur[a] \in Nat /\ run.outbound \in Nat
      /\ Busy => run.outbound <= rev[b] /\ (run.at # "pull" => run.plan.next <= rev[a])
  <2>1. RunInv(a, b) /\ Other(a) = b
    BY <1>0, Sides DEF MirrorInv
  <2>2. \A x \in Side : \A e \in Entity : LatestRevision(x, e)' \in Nat
    BY <1>2, LatestTypeNext DEF StoresOK
  <2>3. rev[a] \in Nat /\ rev[b] \in Nat /\ CursorsOK /\ run \in Runs /\ cur[a] \in Nat
    BY DEF MirrorInv, TypesOK
  <2>4. run.plan.next \in Nat /\ run.outbound \in Nat
    BY <2>3 DEF Runs, Plans
  <2> QED
    BY <2>1, <2>2, <2>3, <2>4 DEF RunInv, PassInv, CursorsOK
<1>5. OwedInv(a, b)'
  <2> SUFFICES ASSUME Busy', NEW e \in Entity, Due(a, b, e)'
               PROVE  Owed(a, e)'
    BY DEF OwedInv
  <2>1. CASE run.at = "pull"
    BY <2>1 DEF Owed, Planned
  <2>2. CASE run.at # "pull"
    <3>1. Busy /\ Still(a, e) /\ Still(b, e)
      BY <1>4, <2>2 DEF Due, Busy
    <3>2. Due(a, b, e)
      BY <3>1, StillMeans DEF Due, LogsLate
    <3>3. Owed(a, e)
      BY <1>2, <3>1, <3>2 DEF OwedInv
    <3>4. Level(e)' = Level(e)
      <4>1. \A x \in Side : Active(x, e)' = Active(x, e)
        BY <1>0, <3>1, StillMeans, Sides
      <4> QED
        BY <4>1 DEF Level, Side
    <3>5. store'[a][e] = store[a][e] /\ Active(a, e)' = Active(a, e)
      BY <3>1, StillMeans DEF Still
    <3> QED
      BY <3>3, <3>4, <3>5 DEF Owed, Planned
  <2> QED
    BY <2>1, <2>2
<1>6. ASSUME run'.quiet
      PROVE  \A e \in Entity : Agree(e)' = Agree(e)
  <2>1. \A e \in Entity : /\ Still("local", e) /\ Still("remote", e)
    BY <1>6 DEF Side
  <2>2. \A e \in Entity : /\ store'["local"][e] = store["local"][e]
                          /\ store'["remote"][e] = store["remote"][e]
    BY <2>1 DEF Still
  <2> QED
    BY <2>2 DEF Agree, Active, IsRow
<1>7. QuietInv(a, b)'
  <2> SUFFICES ASSUME Busy', run'.quiet
               PROVE  PageQuiet(a, b)' /\ PassQuiet'
    BY DEF QuietInv
  <2>1. Busy /\ run.quiet /\ PageQuiet(a, b) /\ PassQuiet
    BY <1>2 DEF QuietInv, Busy
  <2>2. /\ run.pulled \in Pulls /\ run.plan \in Plans
        /\ DOMAIN run.pulled.records \subseteq Entity /\ DOMAIN run.plan.copy \subseteq Entity
        /\ DOMAIN run.plan.deleteSource \subseteq Entity
        /\ DOMAIN run.plan.deleteTarget \subseteq Entity
    BY <1>4 DEF Runs, Plans, Pulls, Maps
  <2>3. \A x \in Side, e \in Entity : /\ store'[x][e] = store[x][e]
                                      /\ Active(x, e)' = Active(x, e)
                                      /\ LatestRevision(x, e)' = LatestRevision(x, e)
    BY StillMeans DEF Still
  <2>4. PageQuiet(a, b)'
    BY <1>6, <2>1, <2>2, <2>3 DEF PageQuiet, Planned
  <2>5. PassQuiet'
    BY <1>6, <2>1, <2>3 DEF PassQuiet, Side
  <2> QED
    BY <2>4, <2>5
<1>8. AgreeAfterRun'
  BY <1>2, <1>6 DEF AgreeAfterRun
<1>9. \A x, y \in Side : (x = Source' /\ y = Target') => OwedInv(x, y)' /\ QuietInv(x, y)'
  BY <1>1, <1>5, <1>7
<1> QED
  BY <1>3, <1>8, <1>9 DEF AgreeInv

LEMMA WriteAgrees ==
    ASSUME MirrorInv, Closed, AgreeInv, NEW s \in Side, NEW x \in Entity,
           NEW kind \in {"active", "deleted"}, Write(s, x, kind)
    PROVE  AgreeInv'
<1> DEFINE r == Edited(store[s][x], kind)
<1>1. MirrorInv' /\ \A z \in Side, e \in Entity : (z # s \/ e # x) => Still(z, e)
  BY WriteKeeps
<1>2. /\ store[s][x] \in Record \union {None} /\ clock + 1 \in Edit /\ MaxEdits \in Nat
      /\ clock \in 0..MaxEdits
  BY MirrorBounds DEF MirrorInv, TypesOK, Write, Edit
<1>3. r \in Record /\ r.kind # "tombstone" /\ r.version >= 1
  <2>1. CASE store[s][x] = None
    BY <1>2, <2>1 DEF Edited, Record
  <2>2. CASE store[s][x] # None
    BY <1>2, <2>2 DEF Edited, Record
  <2> QED
    BY <2>1, <2>2
<1> HIDE DEF r
<1>4. [y \in {x} |-> r] \in [{x} -> Record] /\ {x} \in SUBSET Entity /\ "upsert" \in Op
  BY <1>3 DEF Op
<1>5. Put(s, [y \in {x} |-> r], "upsert")
  BY DEF Write, r
<1>6. Changes(s, {x}, {x}, "upsert") /\ store'[s][x] = r
  BY <1>3, <1>4, <1>5, PutChanges, StoresNow
<1>7. LatestRevision(s, x)' > rev[s]
  BY <1>4, <1>6, ChangesKeep, StoresNow
<1>8. IsRow(store'[s][x])
  BY <1>3, <1>6, NoneAssumption DEF IsRow
<1>9. LogDead'
  BY <1>1, <1>8, LogDeadNext, StoresNow DEF AgreeInv, MirrorInv, StoresOK, TypesOK
<1>10. /\ run'.at = run.at /\ run'.pass = run.pass /\ run'.outbound = run.outbound
       /\ run'.cursor = run.cursor /\ run'.pulled = run.pulled /\ run'.plan = run.plan
       /\ ~run'.quiet /\ cur' = cur
  BY DEF Write, MirrorInv, TypesOK, Runs
<1>11. \A z \in Side, e \in Entity : Still(z, e) \/ LatestRevision(z, e)' > rev[z]
  BY <1>1, <1>7
<1> QED
  BY <1>1, <1>9, <1>10, <1>11, AgreeBeside

LEMMA CleanupAgrees ==
    ASSUME MirrorInv, Closed, AgreeInv, NEW s \in Side, NEW x \in Entity, CleanupTrash(s, x)
    PROVE  AgreeInv'
<1> DEFINE r == Buried(store[s][x])
<1>1. MirrorInv' /\ \A z \in Side, e \in Entity : (z # s \/ e # x) => Still(z, e)
  BY CleanupKeeps
<1>2. store[s][x] \in Record /\ clock \in 0..MaxEdits /\ MaxEdits \in Nat
  BY MirrorBounds DEF MirrorInv, TypesOK, CleanupTrash, IsRow
<1>3. r \in Record /\ r.kind = "tombstone" /\ r.version >= 1
  BY <1>2 DEF Buried, Record
<1> HIDE DEF r
<1>4. [y \in {x} |-> r] \in [{x} -> Record] /\ {x} \in SUBSET Entity /\ "delete" \in Op
  BY <1>3 DEF Op
<1>5. Put(s, [y \in {x} |-> r], "delete") /\ ~IsRow(r)
  BY <1>3 DEF CleanupTrash, r, IsRow
<1>6. Changes(s, {x}, {x}, "delete") /\ store'[s][x] = r
  BY <1>3, <1>4, <1>5, PutChanges, StoresNow
<1>7. LatestRevision(s, x)' > rev[s]
  BY <1>4, <1>6, ChangesKeep, StoresNow
<1>8. LastIs(s, x, "delete")'
  <2>1. Logged(s, {x}, "delete")
    BY <1>6 DEF Changes
  <2> QED
    BY <1>4, <2>1, LogGrows DEF MirrorInv
<1>9. LogDead'
  BY <1>1, <1>8, LogDeadNext, StoresNow DEF AgreeInv, MirrorInv, StoresOK, TypesOK
<1>10. /\ run'.at = run.at /\ run'.pass = run.pass /\ run'.outbound = run.outbound
       /\ run'.cursor = run.cursor /\ run'.pulled = run.pulled /\ run'.plan = run.plan
       /\ ~run'.quiet /\ cur' = cur
  BY DEF CleanupTrash, MirrorInv, TypesOK, Runs
<1>11. \A z \in Side, e \in Entity : Still(z, e) \/ LatestRevision(z, e)' > rev[z]
  BY <1>1, <1>7
<1> QED
  BY <1>1, <1>9, <1>10, <1>11, AgreeBeside

(* Compaction, and a step of nobody. *)
LEMMA RestAgrees ==
    ASSUME MirrorInv, MirrorInv', AgreeInv, \A x \in Side, e \in Entity : Still(x, e),
           cur' = cur, run' = run
    PROVE  AgreeInv'
<1>1. LogDead'
  BY LogDeadNext DEF AgreeInv, MirrorInv, StoresOK, TypesOK
<1> QED
  BY <1>1, AgreeBeside

(***************************************************************************)
(* The steps of a run that leave the databases alone.                      *)
(***************************************************************************)
LEMMA StandAgrees ==
    ASSUME MirrorInv, AgreeInv, StoresOK', \A x \in Side, e \in Entity : Still(x, e)
    PROVE  /\ LogDead' /\ (cur' = cur => LevelInv')
           /\ \A e \in Entity : Agree(e)' = Agree(e) /\ Level(e)' = Level(e)
           /\ \A x \in Side, e \in Entity :
                 /\ store'[x][e] = store[x][e] /\ Active(x, e)' = Active(x, e)
                 /\ LatestRevision(x, e)' = LatestRevision(x, e)
<1>1. LogDead'
  BY LogDeadNext DEF AgreeInv
<1>2. cur' = cur => LevelInv'
  BY StillMoves, LevelKeeps DEF AgreeInv
<1>3. \A x \in Side, e \in Entity :
         /\ store'[x][e] = store[x][e] /\ Active(x, e)' = Active(x, e)
         /\ LatestRevision(x, e)' = LatestRevision(x, e)
  BY StillMeans DEF Still
<1>4. \A e \in Entity : Level(e)' = Level(e)
  BY <1>3 DEF Level, Side
<1>5. \A e \in Entity : Agree(e)' = Agree(e)
  <2>1. \A e \in Entity : /\ store'["local"][e] = store["local"][e]
                          /\ store'["remote"][e] = store["remote"][e]
    BY <1>3 DEF Side
  <2> QED
    BY <2>1 DEF Agree, Active, IsRow
<1> QED
  BY <1>1, <1>2, <1>3, <1>4, <1>5

LEMMA StartAgrees ==
    ASSUME MirrorInv, MirrorInv', AgreeInv, \A x \in Side, e \in Entity : Still(x, e), StartRun
    PROVE  AgreeInv'
<1>1. StoresOK' /\ cur' = cur
  BY DEF MirrorInv, StoresOK, TypesOK, StartRun
<1>2. run'.at = "pull" /\ run'.pass = 1
  <2>1. \E quiet \in BOOLEAN : run' = Pass(1, cur, quiet)
    BY DEF StartRun
  <2>2. PICK quiet \in BOOLEAN : run' = Pass(1, cur, quiet)
    BY <2>1
  <2>3. 1 \in 1..3 /\ "local" = IF 1 = 2 THEN "remote" ELSE "local"
    OBVIOUS
  <2>4. cur \in [Side -> Nat]
    BY DEF MirrorInv, TypesOK
  <2> QED
    BY <2>2, <2>3, <2>4, PassIs
<1>3. \A a, b \in Side : OwedInv(a, b)' /\ QuietInv(a, b)'
  BY <1>2 DEF OwedInv, Owed, Planned, QuietInv, PageQuiet, PassQuiet
<1> QED
  BY <1>1, <1>2, <1>3, StandAgrees DEF AgreeInv, AgreeAfterRun

LEMMA IdleAgrees ==
    ASSUME MirrorInv, AgreeInv, LogDead', LevelInv', run' = Idle
    PROVE  AgreeInv'
<1>1. run'.at = "idle"
  BY IdleRun
<1> QED
  BY <1>1 DEF AgreeInv, OwedInv, QuietInv, Busy, AgreeAfterRun

LEMMA NewestEntry ==
    ASSUME MirrorInv, NEW s \in Side, NEW e \in Entity, LatestRevision(s, e) # 0
    PROVE  \E c \in log[s] : /\ c.entity = e /\ Newest(c, log[s]) /\ c.rev = LatestRevision(s, e)
                             /\ c.op \in Op /\ LastIs(s, e, c.op)
<1>1. EntriesOf(s, e) # {}
  BY DEF LatestRevision
<1>2. PICK c \in log[s] : IsNewest(s, e, c)
  BY <1>1 DEF MirrorInv, LogOK
<1>3. LatestRevision(s, e) = c.rev
  BY <1>2, LatestIs DEF MirrorInv
<1>4. c.op \in Op
  BY DEF MirrorInv, TypesOK, Entries
<1>5. LastIs(s, e, c.op)
  BY <1>2 DEF LastIs
<1> QED
  BY <1>2, <1>3, <1>4, <1>5 DEF IsNewest, EntriesOf

LEMMA PullAgrees ==
    ASSUME MirrorInv, MirrorInv', AgreeInv, \A x \in Side, e \in Entity : Still(x, e),
           PullPage, PageIs(Source)
    PROVE  AgreeInv'
<1>0. PICK a \in Side, b \in Side : a = Source /\ b = Target
  BY Sides
<1>1. /\ a = Source' /\ b = Target' /\ PageIs(a)
      /\ run'.at \in {"plan", "save"} /\ run'.quiet = run.quiet /\ run'.pass = run.pass
      /\ run'.cursor = run.cursor
  BY <1>0 DEF PageIs, InPass, Source, Target, Other
<1>2. /\ StoresOK' /\ cur' = cur /\ run.at = "pull"
      /\ run \in Runs /\ run' \in Runs
  BY DEF MirrorInv, StoresOK, TypesOK, PullPage
<1>3. /\ LogDead' /\ LevelInv'
      /\ \A e \in Entity : Agree(e)' = Agree(e)
      /\ \A x \in Side, e \in Entity :
            /\ store'[x][e] = store[x][e] /\ Active(x, e)' = Active(x, e)
            /\ LatestRevision(x, e)' = LatestRevision(x, e)
  BY <1>2, StandAgrees
<1>4. run.cursor \in Nat /\ run'.plan.next \in Nat
  BY <1>2 DEF Runs, Plans
<1>5. OwedInv(a, b)'
  <2> SUFFICES ASSUME NEW e \in Entity, Due(a, b, e)'
               PROVE  Owed(a, e)'
    BY DEF OwedInv
  <2>1. /\ LatestRevision(a, e) \in Nat /\ run.cursor < LatestRevision(a, e)
        /\ LatestRevision(a, e) <= run'.plan.next
    BY <1>1, <1>3, LatestType DEF Due, LogsLate, MirrorInv
  <2>2. LatestRevision(a, e) # 0
    BY <1>4, <2>1
  <2>3. PICK c \in log[a] : /\ c.entity = e /\ Newest(c, log[a])
                            /\ c.rev = LatestRevision(a, e)
                            /\ c.op \in Op /\ LastIs(a, e, c.op)
    BY <2>2, NewestEntry
  <2>4. run'.at = "plan"
    <3>1. ~(c.rev <= run.cursor)
      BY <1>4, <2>1, <2>3
    <3> QED
      BY <1>1, <3>1 DEF PageIs
  <2>5. /\ (c.op = "upsert" /\ IsRow(store[a][e])) => e \in DOMAIN run'.pulled.records
        /\ c.op = "delete" => e \in run'.pulled.deletes
        /\ \A f \in DOMAIN run'.pulled.records : run'.pulled.records[f] = store[a][f]
    BY <1>1, <2>1, <2>3, <2>4 DEF PageIs
  <2>6. CASE c.op = "upsert"
    <3>1. IsRow(store[a][e])
      BY <2>3, <2>6 DEF AgreeInv, LogDead
    <3> QED
      BY <1>3, <2>4, <2>5, <2>6, <3>1 DEF Owed, Planned
  <2>7. CASE c.op = "delete"
    <3>1. ~IsRow(store[a][e])
      <4> SUFFICES ASSUME IsRow(store[a][e])
                   PROVE  FALSE
        OBVIOUS
      <4>1. LastIs(a, e, "upsert")
        BY DEF MirrorInv, LogTrue
      <4>2. \A d \in log[a] : d.rev \in Nat
        BY DEF MirrorInv, TypesOK, Entries
      <4>3. "upsert" = "delete"
        BY <2>3, <2>7, <4>1, <4>2, LastOne DEF MirrorInv
      <4> QED
        BY <4>3
    <3> QED
      BY <1>3, <2>4, <2>5, <2>7, <3>1 DEF Owed, Planned
  <2> QED
    BY <2>3, <2>6, <2>7 DEF Op
<1>6. QuietInv(a, b)'
  <2> SUFFICES ASSUME run'.quiet
               PROVE  PageQuiet(a, b)' /\ PassQuiet'
    BY DEF QuietInv
  <2>1. PassQuiet
    BY <1>0, <1>1, <1>2 DEF AgreeInv, QuietInv, Busy
  <2>2. PassQuiet'
    BY <1>1, <1>2, <1>3, <2>1 DEF PassQuiet, Side
  <2>3. ASSUME ~run'.plan.more, NEW e \in Entity
        PROVE  LatestRevision(a, e)' <= run'.plan.next
    <3>1. CASE LatestRevision(a, e) = 0
      BY <1>3, <1>4, <3>1
    <3>2. CASE LatestRevision(a, e) # 0
      <4>1. PICK c \in log[a] : c.rev = LatestRevision(a, e)
        BY <3>2, NewestEntry
      <4> QED
        BY <1>1, <1>3, <2>3, <4>1 DEF PageIs
    <3> QED
      BY <3>1, <3>2
  <2>4. DOMAIN run'.pulled.records \subseteq Entity
    BY <1>2 DEF Runs, Pulls, Maps
  <2>5. PageQuiet(a, b)'
    BY <1>1, <1>3, <2>3, <2>4 DEF PageQuiet, Planned, PageIs
  <2> QED
    BY <2>2, <2>5
<1> QED
  BY <1>1, <1>3, <1>5, <1>6, AgreeNext

(* Verdicts, once more: nothing to do, or nothing that is active. *)
LEMMA VerdictLevel ==
    ASSUME NEW b, b = Target, NEW e, NEW r, r.kind \in {"active", "deleted"},
           store[b][e] # None => store[b][e].kind \in {"active", "deleted", "tombstone"}
    PROVE  /\ Verdict(e, r) = "same" =>
                 IsRow(store[b][e]) /\ store[b][e].kind = r.kind
           /\ Verdict(e, r) = "deleteSource" => r.kind = "deleted" /\ ~Active(b, e)
           /\ Verdict(e, r) \in {"copy", "same", "deleteSource", "diverged"}
<1> DEFINE t == store[b][e]
<1>1. CASE IsRow(t) /\ ~Differ(r, t)
  <2>1. Verdict(e, r) \in {"copy", "same"} /\ t.kind = r.kind
    BY <1>1 DEF Verdict, Differ
  <2> QED
    BY <1>1, <2>1
<1>2. CASE IsRow(t) /\ Differ(r, t) /\ Overwrites(r, t) /\ NoUnmirroredChange(e)
  <2>1. Verdict(e, r) = "copy"
    BY <1>2 DEF Verdict
  <2> QED
    BY <2>1
<1>3. CASE IsRow(t) /\ Differ(r, t) /\ ~(Overwrites(r, t) /\ NoUnmirroredChange(e))
  <2>1. Verdict(e, r) = IF r.kind = "deleted" /\ t.kind = "deleted"
                        THEN "deleteSource" ELSE "diverged"
    BY <1>3 DEF Verdict
  <2> QED
    BY <2>1 DEF Active
<1>4. CASE ~IsRow(t)
  <2>1. Verdict(e, r) = IF t = None \/ (NewerOrTie(r, t) /\ NoUnmirroredChange(e))
                        THEN "copy"
                        ELSE IF r.kind = "deleted" THEN "deleteSource" ELSE "diverged"
    BY <1>4 DEF Verdict
  <2>2. ~Active(b, e)
    BY <1>4 DEF Active
  <2> QED
    BY <2>1, <2>2
<1> QED
  BY <1>1, <1>2, <1>3, <1>4

(* Both sides of a run. *)
LEMMA BothSides ==
    ASSUME NEW a \in Side, NEW b \in Side, a # b, NEW e
    PROVE  /\ Level(e) <=> (Active(a, e) <=> Active(b, e))
           /\ Level(e)' <=> (Active(a, e)' <=> Active(b, e)')
           /\ ~Active(a, e)' /\ ~Active(b, e)' => Agree(e)'
           /\ (Active(a, e)' /\ Active(b, e)' /\ store'[a][e].edits = store'[b][e].edits)
                 => Agree(e)'
<1>1. (a = "local" /\ b = "remote") \/ (a = "remote" /\ b = "local")
  BY DEF Side
<1>2. Level(e) <=> (Active(a, e) <=> Active(b, e))
  BY <1>1 DEF Level
<1>3. Level(e)' <=> (Active(a, e)' <=> Active(b, e)')
  BY <1>1 DEF Level
<1>4. ~Active(a, e)' /\ ~Active(b, e)' => Agree(e)'
  BY <1>1 DEF Agree
<1>5. ASSUME Active(a, e)', Active(b, e)', store'[a][e].edits = store'[b][e].edits
      PROVE  Agree(e)'
  <2>1. Active("local", e)' /\ Active("remote", e)'
    BY <1>1, <1>5
  <2>2. store'["local"][e].edits = store'["remote"][e].edits
    BY <1>1, <1>5
  <2>3. store'["local"][e].kind = store'["remote"][e].kind
    BY <2>1 DEF Active
  <2> QED
    BY <2>1, <2>2, <2>3 DEF Agree, Differ
<1> QED
  BY <1>2, <1>3, <1>4, <1>5

LEMMA PlanAgrees ==
    ASSUME MirrorInv, MirrorInv', AgreeInv, \A x \in Side, e \in Entity : Still(x, e),
           PlanPage, PlannedIs
    PROVE  AgreeInv'
<1>0. PICK a \in Side, b \in Side : a = Source /\ b = Target
  BY Sides
<1>1. /\ a = Source' /\ b = Target' /\ a # b /\ SamePage
      /\ run'.at \in {"deleteSource", "deleteTarget", "push"}
      /\ run'.pass = run.pass /\ run'.quiet = run.quiet /\ run'.cursor = run.cursor
      /\ run'.outbound = run.outbound
      /\ run'.plan.next = run.plan.next /\ run'.plan.more = run.plan.more
  BY <1>0, Sides DEF PlannedIs, SamePage, InPass, Source, Target, Other
<1>2. /\ StoresOK' /\ cur' = cur /\ run.at = "plan" /\ Diverged = {} /\ Busy
      /\ run \in Runs /\ run' \in Runs
  BY DEF MirrorInv, StoresOK, TypesOK, PlanPage, Busy
<1>3. /\ LogDead' /\ LevelInv'
      /\ \A e \in Entity : Agree(e)' = Agree(e) /\ Level(e)' = Level(e)
      /\ \A x \in Side, e \in Entity :
            /\ store'[x][e] = store[x][e] /\ Active(x, e)' = Active(x, e)
            /\ LatestRevision(x, e)' = LatestRevision(x, e)
  BY <1>2, StandAgrees
<1>4. \A e \in DOMAIN run.pulled.records :
         /\ e \in Entity /\ run.pulled.records[e].kind \in {"active", "deleted"}
         /\ store[b][e] # None => store[b][e].kind \in {"active", "deleted", "tombstone"}
  <2>1. PulledInv(a, b)
    BY <1>0 DEF MirrorInv, RunInv
  <2>2. run.pulled \in Pulls
    BY <1>2 DEF Runs
  <2>3. \A e \in DOMAIN run.pulled.records : e \in Entity /\ run.pulled.records[e] \in Record
    BY <2>2 DEF Pulls, Maps
  <2>4. \A e \in Entity : store[b][e] \in Record \union {None}
    BY DEF MirrorInv, TypesOK
  <2> QED
    BY <2>1, <2>3, <2>4 DEF PulledInv, Pulled1, Record
<1>5. \A e \in DOMAIN run.pulled.records :
         /\ VerdictOf(e) = "same" =>
               IsRow(store[b][e]) /\ store[b][e].kind = run.pulled.records[e].kind
         /\ VerdictOf(e) = "deleteSource" =>
               run.pulled.records[e].kind = "deleted" /\ ~Active(b, e)
         /\ VerdictOf(e) \in {"copy", "same", "deleteSource"}
  <2> SUFFICES ASSUME NEW e \in DOMAIN run.pulled.records
               PROVE  /\ VerdictOf(e) = "same" =>
                            IsRow(store[b][e]) /\ store[b][e].kind = run.pulled.records[e].kind
                      /\ VerdictOf(e) = "deleteSource" =>
                            run.pulled.records[e].kind = "deleted" /\ ~Active(b, e)
                      /\ VerdictOf(e) \in {"copy", "same", "deleteSource"}
    OBVIOUS
  <2>1. VerdictOf(e) # "diverged"
    BY <1>2 DEF Diverged, Records
  <2> QED
    BY <1>0, <1>4, <2>1, VerdictLevel DEF VerdictOf
<1>6. OwedInv(a, b)'
  <2> SUFFICES ASSUME NEW e \in Entity, Due(a, b, e)'
               PROVE  Owed(a, e)'
    BY DEF OwedInv
  <2>1. Due(a, b, e)
    BY <1>1, <1>3 DEF Due, LogsLate
  <2>2. Owed(a, e)
    BY <1>0, <1>2, <2>1 DEF AgreeInv, OwedInv
  <2>3. CASE IsRow(store[a][e])
    <3>1. e \in DOMAIN run.pulled.records /\ run.pulled.records[e] = store[a][e]
      BY <1>2, <2>2, <2>3 DEF Owed
    <3>2. CASE VerdictOf(e) = "copy"
      <4>1. e \in DOMAIN run'.plan.copy /\ run'.plan.copy[e].record = store'[a][e]
        BY <1>3, <3>1, <3>2 DEF PlannedIs
      <4> QED
        BY <1>1, <4>1 DEF Owed
    <3>3. CASE VerdictOf(e) = "same"
      <4>1. Active(a, e) <=> Active(b, e)
        BY <1>5, <2>3, <3>1, <3>3 DEF Active
      <4>2. Level(e)'
        BY <1>1, <1>3, <4>1, BothSides
      <4> QED
        BY <1>1, <4>2 DEF Owed
    <3>4. CASE VerdictOf(e) = "deleteSource"
      <4>1. ~Active(a, e) /\ ~Active(b, e)
        BY <1>5, <3>1, <3>4 DEF Active
      <4>2. Level(e)'
        BY <1>1, <1>3, <4>1, BothSides
      <4> QED
        BY <1>1, <4>2 DEF Owed
    <3> QED
      BY <1>5, <3>1, <3>2, <3>3, <3>4
  <2>4. CASE ~IsRow(store[a][e])
    <3>1. e \in run.pulled.deletes
      BY <1>2, <2>2, <2>4 DEF Owed
    <3>2. DeleteVerdict(e) # "diverged"
      BY <1>2, <3>1 DEF Diverged
    <3>3. DeleteVerdict(e) = "delete"
      BY <1>0, <2>4, <3>2 DEF DeleteVerdict
    <3>4. e \in DOMAIN run'.plan.deleteTarget /\ ~Active(a, e)'
      BY <1>3, <2>4, <3>1, <3>3 DEF PlannedIs, Active
    <3> QED
      BY <1>1, <3>4 DEF Owed
  <2> QED
    BY <2>3, <2>4
<1>7. QuietInv(a, b)'
  <2> SUFFICES ASSUME run'.quiet
               PROVE  PageQuiet(a, b)' /\ PassQuiet'
    BY DEF QuietInv
  <2>1. PassQuiet /\ PageQuiet(a, b)
    BY <1>0, <1>1, <1>2 DEF AgreeInv, QuietInv
  <2>2. PassQuiet'
    BY <1>1, <1>2, <1>3, <2>1 DEF PassQuiet, Side
  <2>3. \A e \in DOMAIN run'.plan.copy : run'.plan.copy[e].record = store'[a][e]
    <3>1. \A e \in DOMAIN run.pulled.records :
             e \in Entity /\ run.pulled.records[e] = store[a][e]
      BY <1>2, <1>4, <2>1 DEF PageQuiet
    <3> QED
      BY <1>3, <3>1 DEF PlannedIs
  <2>4. \A e \in DOMAIN run'.plan.deleteSource : ~Active(b, e)'
    BY <1>3, <1>4, <1>5 DEF PlannedIs
  <2>5. \A e \in DOMAIN run'.plan.deleteTarget : ~Active(a, e)'
    <3>1. \A e \in DOMAIN run'.plan.deleteTarget : e \in Entity
      BY <1>2 DEF Runs, Plans, Maps
    <3>2. \A e \in DOMAIN run'.plan.deleteTarget : ~IsRow(store[a][e])
      BY <1>0, DeleteVerdictIs DEF PlannedIs
    <3> QED
      BY <1>3, <3>1, <3>2 DEF Active
  <2>6. ~run'.plan.more => \A e \in Entity :
           Agree(e)' \/ LatestRevision(a, e)' <= run'.plan.next
    BY <1>1, <1>2, <1>3, <2>1 DEF PageQuiet
  <2>7. PageQuiet(a, b)'
    BY <1>1, <2>3, <2>4, <2>5, <2>6 DEF PageQuiet, Planned
  <2> QED
    BY <2>2, <2>7
<1> QED
  BY <1>1, <1>3, <1>6, <1>7, AgreeNext

(***************************************************************************)
(* The steps of a run that write.                                          *)
(***************************************************************************)
LEMMA DeletesMove ==
    ASSUME MirrorInv, NEW s \in Side, NEW seen \in Maps(SUBSET Edit), DeleteByIds(s, seen)
    PROVE  \A e \in DOMAIN seen : LastIs(s, e, "delete")' /\ Moves(s, e)
<1>1. DOMAIN seen \in SUBSET Entity /\ \A e \in DOMAIN seen : ~Active(s, e)'
  BY DeletesChange
<1>2. PICK logged : logged = {e \in DOMAIN seen : ~LastIsDelete(s, e)}
  OBVIOUS
<1>3. Logged(s, logged, "delete") /\ logged \in SUBSET Entity /\ "delete" \in Op
  BY <1>1, <1>2 DEF DeleteByIds, Logged, Op
<1>4. /\ \A e \in logged : LatestRevision(s, e)' > rev[s] /\ LastIs(s, e, "delete")'
      /\ \A e \in Entity \ logged : SameLatest(s, e)
  BY <1>3, LogGrows DEF MirrorInv
<1>5. ASSUME NEW e \in DOMAIN seen, e \notin logged
      PROVE  LastIs(s, e, "delete")' /\ Moves(s, e)
  <2>1. LastIs(s, e, "delete") /\ e \in Entity
    BY <1>1, <1>2, <1>5 DEF LastIsDelete, LastIs, IsNewest, EntriesOf
  <2>2. SameLatest(s, e)
    BY <1>4, <1>5, <2>1
  <2>3. ~IsRow(store[s][e])
    <3> SUFFICES ASSUME IsRow(store[s][e])
                 PROVE  FALSE
      OBVIOUS
    <3>1. LastIs(s, e, "upsert")
      BY <2>1 DEF MirrorInv, LogTrue
    <3>2. \A d \in log[s] : d.rev \in Nat
      BY DEF MirrorInv, TypesOK, Entries
    <3>3. "upsert" = "delete"
      BY <2>1, <3>1, <3>2, LastOne DEF MirrorInv
    <3> QED
      BY <3>3
  <2>4. Active(s, e)' = Active(s, e)
    BY <1>1, <2>3 DEF Active
  <2> QED
    BY <2>1, <2>2, <2>4 DEF SameLatest, Moves
<1> QED
  BY <1>4, <1>5 DEF Moves

(* In a quiet run a record agrees after a step, or stays as it is. *)
LEMMA QuietStays ==
    ASSUME NEW a \in Side, NEW b \in Side, SamePage, cur' = cur, run.at # "pull",
           PageQuiet(a, b), PassQuiet,
           \A e \in Entity : Agree(e)' \/ (Still("local", e) /\ Still("remote", e))
    PROVE  /\ PassQuiet'
           /\ ~run'.plan.more => \A e \in Entity :
                 Agree(e)' \/ LatestRevision(a, e)' <= run'.plan.next
<1>1. \A e \in Entity : Agree(e)' \/ /\ Agree(e)' = Agree(e)
                                     /\ LatestRevision(a, e)' = LatestRevision(a, e)
                                     /\ LatestRevision("remote", e)' = LatestRevision("remote", e)
  <2> SUFFICES ASSUME NEW e \in Entity, Still("local", e), Still("remote", e)
               PROVE  /\ Agree(e)' = Agree(e)
                      /\ LatestRevision(a, e)' = LatestRevision(a, e)
                      /\ LatestRevision("remote", e)' = LatestRevision("remote", e)
    OBVIOUS
  <2>1. /\ store'["local"][e] = store["local"][e] /\ store'["remote"][e] = store["remote"][e]
    BY DEF Still
  <2>2. Agree(e)' = Agree(e)
    BY <2>1 DEF Agree, Active, IsRow
  <2> QED
    BY <2>2, StillMeans DEF Side
<1>2. PassQuiet'
  BY <1>1 DEF PassQuiet, SamePage, InPass
<1>3. ~run'.plan.more => \A e \in Entity :
         Agree(e)' \/ LatestRevision(a, e)' <= run'.plan.next
  BY <1>1 DEF PageQuiet, SamePage
<1> QED
  BY <1>2, <1>3

LEMMA DeleteSourceAgrees ==
    ASSUME MirrorInv, AgreeInv, DeleteSource
    PROVE  AgreeInv'
<1>0. PICK a \in Side, b \in Side : a = Source /\ b = Target
  BY Sides
<1>1. PICK away : away = run.plan.deleteSource
  OBVIOUS
<1>2. /\ MirrorInv' /\ DOMAIN away \in SUBSET Entity
      /\ \A x \in Side, e \in Entity : (x # a \/ e \notin DOMAIN away) => Still(x, e)
      /\ \A e \in DOMAIN away : ~Active(a, e) /\ ~Active(a, e)'
      /\ SamePage /\ run'.at \in {"deleteTarget", "push"}
      /\ run'.plan.copy = run.plan.copy /\ DOMAIN run'.plan.deleteSource = {}
      /\ run'.plan.deleteTarget = run.plan.deleteTarget
  BY <1>0, <1>1, DeleteSourceKeeps
<1>3. /\ StoresOK' /\ cur' = cur /\ run.at = "deleteSource" /\ Busy /\ Planned
      /\ DeleteByIds(a, away) /\ away \in Maps(SUBSET Edit)
      /\ RunInv(a, b) /\ a # b /\ rev[a] \in Nat /\ run \in Runs /\ run.plan \in Plans
  BY <1>0, <1>1, <1>2, Sides
     DEF MirrorInv, StoresOK, TypesOK, DeleteSource, Busy, Planned, Runs, Plans
<1>4. /\ a = Source' /\ b = Target' /\ Planned'
      /\ run'.quiet = run.quiet /\ run'.cursor = run.cursor
      /\ run'.outbound = run.outbound /\ run'.plan.next = run.plan.next
  BY <1>0, <1>2 DEF SamePage, InPass, Source, Target, Other, Planned
<1>5. \A e \in DOMAIN away : LastIs(a, e, "delete")' /\ Moves(a, e)
  BY <1>3, DeletesMove
<1>6. \A x \in Side, e \in Entity : Moves(x, e)
  BY <1>2, <1>5, StillMoves
<1>7. LogDead'
  <2>1. \A x \in Side, e \in Entity : Still(x, e) \/ LastIs(x, e, "delete")'
    BY <1>2, <1>5
  <2> QED
    BY <1>3, <2>1, LogDeadNext DEF AgreeInv
<1>8. LevelInv'
  BY <1>3, <1>6, LevelKeeps DEF AgreeInv
<1>9. \A e \in DOMAIN run.plan.copy : e \in Entity /\ e \notin DOMAIN away
  BY <1>1, <1>3 DEF RunInv, PlanInv, CopyInv, Plans, Maps
<1>10. OwedInv(a, b)'
  <2> SUFFICES ASSUME NEW e \in Entity, Due(a, b, e)'
               PROVE  Owed(a, e)'
    BY DEF OwedInv
  <2>1. /\ LatestRevision(a, e)' <= run.plan.next /\ run.plan.next <= rev[a]
        /\ LatestRevision(a, e)' \in Nat /\ run.plan.next \in Nat
    BY <1>3, <1>4, LatestTypeNext DEF Due, RunInv, PassInv, StoresOK, Plans
  <2>2. /\ LatestRevision(a, e)' = LatestRevision(a, e) /\ Active(a, e)' = Active(a, e)
    BY <1>3, <1>6, <2>1 DEF Moves
  <2>3. LatestRevision(b, e)' = LatestRevision(b, e) /\ Active(b, e)' = Active(b, e)
    BY <1>2, <1>3, StillMeans
  <2>4. Due(a, b, e)
    BY <1>4, <2>2, <2>3 DEF Due, LogsLate
  <2>5. Owed(a, e)
    BY <1>0, <1>3, <2>4 DEF AgreeInv, OwedInv
  <2>6. CASE e \in DOMAIN run.plan.copy /\ run.plan.copy[e].record = store[a][e]
    <3>1. store'[a][e] = store[a][e]
      BY <1>2, <1>9, <2>6 DEF Still
    <3> QED
      BY <1>2, <2>6, <3>1 DEF Owed
  <2>7. CASE e \in DOMAIN run.plan.deleteTarget /\ ~Active(a, e)
    BY <1>2, <2>2, <2>7 DEF Owed
  <2>8. CASE Level(e)
    <3>1. Level(e)'
      BY <1>3, <2>2, <2>3, <2>8, BothSides
    <3> QED
      BY <1>2, <3>1 DEF Owed
  <2> QED
    BY <1>3, <2>5, <2>6, <2>7, <2>8 DEF Owed
<1>11. QuietInv(a, b)'
  <2> SUFFICES ASSUME run'.quiet
               PROVE  PageQuiet(a, b)' /\ PassQuiet'
    BY DEF QuietInv
  <2>1. PassQuiet /\ PageQuiet(a, b)
    BY <1>0, <1>3, <1>4 DEF AgreeInv, QuietInv
  <2>2. \A e \in Entity : Agree(e)' \/ (Still("local", e) /\ Still("remote", e))
    <3> SUFFICES ASSUME NEW e \in Entity, e \in DOMAIN away
                 PROVE  Agree(e)'
      BY <1>2 DEF Side
    <3>1. ~Active(b, e)
      BY <1>1, <1>3, <2>1 DEF PageQuiet
    <3>2. ~Active(b, e)' /\ ~Active(a, e)'
      BY <1>2, <1>3, <3>1, StillMeans
    <3> QED
      BY <1>3, <3>2, BothSides
  <2>3. /\ PassQuiet'
        /\ ~run'.plan.more => \A e \in Entity :
              Agree(e)' \/ LatestRevision(a, e)' <= run'.plan.next
    BY <1>2, <1>3, <2>1, <2>2, QuietStays
  <2>4. \A e \in DOMAIN run'.plan.copy : run'.plan.copy[e].record = store'[a][e]
    BY <1>2, <1>3, <1>9, <2>1 DEF PageQuiet, Still
  <2>5. \A e \in DOMAIN run'.plan.deleteTarget : ~Active(a, e)'
    <3>1. \A e \in DOMAIN run.plan.deleteTarget : e \in Entity /\ ~Active(a, e)
      BY <1>3, <2>1 DEF PageQuiet, Plans, Maps
    <3>2. \A e \in Entity : ~Active(a, e) => ~Active(a, e)'
      BY <1>2, StillMeans
    <3> QED
      BY <1>2, <3>1, <3>2
  <2>6. PageQuiet(a, b)'
    BY <1>2, <2>3, <2>4, <2>5 DEF PageQuiet
  <2> QED
    BY <2>3, <2>6
<1> QED
  BY <1>2, <1>4, <1>7, <1>8, <1>10, <1>11, AgreeNext

LEMMA DeleteTargetAgrees ==
    ASSUME MirrorInv, AgreeInv, DeleteTarget
    PROVE  AgreeInv'
<1>0. PICK a \in Side, b \in Side : a = Source /\ b = Target
  BY Sides
<1>1. PICK gone : gone = run.plan.deleteTarget
  OBVIOUS
<1>2. /\ MirrorInv' /\ DOMAIN gone \in SUBSET Entity
      /\ \A x \in Side, e \in Entity : (x # b \/ e \notin DOMAIN gone) => Still(x, e)
      /\ \A e \in DOMAIN gone : ~Active(b, e)'
      /\ SamePage /\ run'.at = "push" /\ run'.plan = run.plan
  BY <1>0, <1>1, DeleteTargetKeeps
<1>3. /\ StoresOK' /\ cur' = cur /\ run.at = "deleteTarget" /\ Busy /\ Planned
      /\ DeleteByIds(b, gone) /\ gone \in Maps(SUBSET Edit)
      /\ RunInv(a, b) /\ a # b /\ Other(b) = a /\ rev[b] \in Nat /\ run \in Runs
      /\ run.plan \in Plans /\ cur[a] \in Nat
  BY <1>0, <1>1, <1>2, Sides
     DEF MirrorInv, StoresOK, TypesOK, DeleteTarget, Busy, Planned, Runs, Plans
<1>4. /\ a = Source' /\ b = Target' /\ Planned'
      /\ run'.quiet = run.quiet /\ run'.cursor = run.cursor
      /\ run'.outbound = run.outbound
  BY <1>0, <1>2 DEF SamePage, InPass, Source, Target, Other, Planned
<1>5. \A e \in DOMAIN gone : LastIs(b, e, "delete")' /\ Moves(b, e)
  BY <1>3, DeletesMove
<1>6. \A x \in Side, e \in Entity : Moves(x, e)
  BY <1>2, <1>5, StillMoves
<1>7. LogDead'
  <2>1. \A x \in Side, e \in Entity : Still(x, e) \/ LastIs(x, e, "delete")'
    BY <1>2, <1>5
  <2> QED
    BY <1>3, <2>1, LogDeadNext DEF AgreeInv
<1>8. LevelInv'
  BY <1>3, <1>6, LevelKeeps DEF AgreeInv
<1>9. \A e \in Entity : Still(a, e)
  BY <1>2, <1>3
<1>10. OwedInv(a, b)'
  <2> SUFFICES ASSUME NEW e \in Entity, Due(a, b, e)'
               PROVE  Owed(a, e)'
    BY DEF OwedInv
  <2>1. /\ LatestRevision(b, e)' <= run.outbound /\ run.outbound = cur[a] /\ cur[a] <= rev[b]
        /\ LatestRevision(b, e)' \in Nat
    BY <1>3, <1>4, Sides, LatestTypeNext
       DEF Due, RunInv, PassInv, StoresOK, MirrorInv, CursorsOK
  <2>2. /\ LatestRevision(b, e)' = LatestRevision(b, e) /\ Active(b, e)' = Active(b, e)
    BY <1>3, <1>6, <2>1 DEF Moves
  <2>3. LatestRevision(a, e)' = LatestRevision(a, e) /\ Active(a, e)' = Active(a, e)
    BY <1>9, StillMeans
  <2>4. Due(a, b, e)
    BY <1>2, <1>4, <2>2, <2>3 DEF Due, LogsLate
  <2>5. Owed(a, e)
    BY <1>0, <1>3, <2>4 DEF AgreeInv, OwedInv
  <2>6. Level(e) => Level(e)'
    BY <1>3, <2>2, <2>3, BothSides
  <2>7. store'[a][e] = store[a][e]
    BY <1>9 DEF Still
  <2> QED
    BY <1>2, <1>3, <2>3, <2>5, <2>6, <2>7 DEF Owed
<1>11. QuietInv(a, b)'
  <2> SUFFICES ASSUME run'.quiet
               PROVE  PageQuiet(a, b)' /\ PassQuiet'
    BY DEF QuietInv
  <2>1. PassQuiet /\ PageQuiet(a, b)
    BY <1>0, <1>3, <1>4 DEF AgreeInv, QuietInv
  <2>2. \A e \in Entity : Agree(e)' \/ (Still("local", e) /\ Still("remote", e))
    <3> SUFFICES ASSUME NEW e \in Entity, e \in DOMAIN gone
                 PROVE  Agree(e)'
      BY <1>2 DEF Side
    <3>1. ~Active(a, e)
      BY <1>1, <1>3, <2>1 DEF PageQuiet
    <3>2. ~Active(b, e)' /\ ~Active(a, e)'
      BY <1>2, <1>9, <3>1, StillMeans
    <3> QED
      BY <1>3, <3>2, BothSides
  <2>3. /\ PassQuiet'
        /\ ~run'.plan.more => \A e \in Entity :
              Agree(e)' \/ LatestRevision(a, e)' <= run'.plan.next
    BY <1>2, <1>3, <2>1, <2>2, QuietStays
  <2>4. \A e \in DOMAIN run'.plan.copy : run'.plan.copy[e].record = store'[a][e]
    <3>1. DOMAIN run.plan.copy \subseteq Entity
      BY <1>3 DEF Plans, Maps
    <3> QED
      BY <1>2, <1>3, <1>9, <2>1, <3>1 DEF PageQuiet, Still
  <2>5. \A e \in DOMAIN run'.plan.deleteTarget : ~Active(a, e)'
    BY <1>1, <1>2, <1>3, <1>9, <2>1, StillMeans DEF PageQuiet
  <2>6. DOMAIN run'.plan.deleteSource = {}
    BY <1>2, <1>3 DEF MirrorInv, PhaseInv
  <2>7. PageQuiet(a, b)'
    BY <1>2, <2>3, <2>4, <2>5, <2>6 DEF PageQuiet
  <2> QED
    BY <2>3, <2>7
<1> QED
  BY <1>2, <1>4, <1>7, <1>8, <1>10, <1>11, AgreeNext

LEMMA PushAgrees ==
    ASSUME MirrorInv, AgreeInv, Push
    PROVE  AgreeInv'
<1>0. PICK a \in Side, b \in Side : a = Source /\ b = Target
  BY Sides
<1>1. PICK written, refused, copy :
         /\ copy = run.plan.copy
         /\ written = {e \in DOMAIN copy : ~Refused(e, copy[e])
                          /\ Accepted(e, copy[e].record) # store[b][e]}
         /\ refused = {e \in DOMAIN copy : Refused(e, copy[e])}
  OBVIOUS
<1>2. /\ run.at = "push" /\ cur' = cur /\ Busy /\ Planned
      /\ Put(b, [e \in written |-> Accepted(e, copy[e].record)], "upsert")
      /\ run' = IF refused = {} THEN [run EXCEPT !.at = "save", !.touched = Touched]
                ELSE Idle
  BY <1>0, <1>1 DEF Push, Busy, Planned
<1>3. /\ MirrorInv' /\ StoresOK' /\ TypesOK /\ StoresOK
      /\ RunInv(a, b) /\ a # b /\ Other(b) = a /\ rev[b] \in Nat /\ run \in Runs
      /\ run.plan \in Plans /\ cur[a] \in Nat /\ copy \in Maps(Copies)
  BY <1>0, <1>1, PushKeeps, StoresNow, Sides DEF MirrorInv, StoresOK, TypesOK, Runs, Plans
<1>4. /\ DOMAIN copy \in SUBSET Entity /\ written \in SUBSET DOMAIN copy
      /\ \A e \in DOMAIN copy : copy[e] \in Copies
  BY <1>1, <1>3 DEF Maps
<1>5. \A e \in DOMAIN copy :
         LET r == Accepted(e, copy[e].record) IN
         /\ r \in Record /\ r.version >= 1 /\ copy[e].record.kind # "tombstone"
         /\ r.kind = copy[e].record.kind /\ r.edits = copy[e].record.edits
  <2> SUFFICES ASSUME NEW e \in DOMAIN copy
               PROVE  LET r == Accepted(e, copy[e].record) IN
                      /\ r \in Record /\ r.version >= 1 /\ copy[e].record.kind # "tombstone"
                      /\ r.kind = copy[e].record.kind /\ r.edits = copy[e].record.edits
    OBVIOUS
  <2>1. CopyInv(a, b, e, copy[e])
    BY <1>1, <1>2, <1>3 DEF RunInv, PlanInv
  <2>2. /\ copy[e].record \in Record /\ store[b][e] \in Record \union {None}
        /\ copy[e].record.kind # "tombstone" /\ copy[e].record.version >= 1
    BY <1>3, <1>4, <2>1 DEF Copies, CopyInv, TypesOK
  <2> QED
    BY <1>0, <2>2, AcceptedIs
<1> DEFINE new == [e \in written |-> Accepted(e, copy[e].record)]
<1>6. /\ new \in [written -> Record] /\ DOMAIN new = written
      /\ \A e \in written : /\ new[e] = Accepted(e, copy[e].record)
                            /\ new[e].version >= 1
  BY <1>4, <1>5
<1>7. Put(b, new, "upsert")
  BY <1>2
<1> HIDE DEF new
<1>8. "upsert" \in Op /\ written \in SUBSET Entity
  BY <1>4 DEF Op
<1>9. /\ Changes(b, written, written, "upsert")
      /\ \A e \in written : store'[b][e] = Accepted(e, copy[e].record)
  BY <1>3, <1>6, <1>7, <1>8, PutChanges
<1>10. /\ \A x \in Side, e \in Entity : (x # b \/ e \notin written) => Still(x, e)
       /\ \A e \in written : LatestRevision(b, e)' > rev[b]
  BY <1>3, <1>8, <1>9, ChangesKeep
<1>11. \A x \in Side, e \in Entity : Moves(x, e)
  BY <1>10, StillMoves DEF Moves
<1>12. LogDead'
  <2>1. \A e \in written : IsRow(store'[b][e])
    BY <1>4, <1>5, <1>9, NoneAssumption DEF IsRow
  <2>2. \A x \in Side, e \in Entity : Still(x, e) \/ IsRow(store'[x][e])
    BY <1>10, <2>1
  <2> QED
    BY <1>3, <2>2, LogDeadNext DEF AgreeInv
<1>13. LevelInv'
  BY <1>2, <1>3, <1>11, LevelKeeps DEF AgreeInv
<1>14. CASE refused # {}
  BY <1>2, <1>12, <1>13, <1>14, IdleAgrees
<1>15. CASE refused = {}
  <2>1. run' = [run EXCEPT !.at = "save", !.touched = Touched]
    BY <1>2, <1>15
  <2>2. /\ SamePage /\ run'.at = "save" /\ run'.plan = run.plan
    BY <1>3, <2>1 DEF Runs, SamePage, InPass
  <2>3. /\ a = Source' /\ b = Target' /\ ~Planned'
        /\ run'.quiet = run.quiet /\ run'.cursor = run.cursor
        /\ run'.outbound = run.outbound
    BY <1>0, <2>2 DEF SamePage, InPass, Source, Target, Other, Planned
  <2>4. \A e \in Entity : Still(a, e)
    BY <1>3, <1>10
  <2>5. OwedInv(a, b)'
    <3> SUFFICES ASSUME NEW e \in Entity, Due(a, b, e)'
                 PROVE  Level(e)'
      BY <2>2, <2>3 DEF OwedInv, Owed
    <3>1. /\ LatestRevision(b, e)' <= run.outbound /\ run.outbound = cur[a] /\ cur[a] <= rev[b]
          /\ LatestRevision(b, e)' \in Nat
      BY <1>2, <1>3, <2>3, Sides, LatestTypeNext
         DEF Due, RunInv, PassInv, StoresOK, MirrorInv, CursorsOK
    <3>2. e \notin written
      BY <1>3, <1>10, <3>1
    <3>3. Still(a, e) /\ Still(b, e)
      BY <1>10, <2>4, <3>2
    <3>4. Due(a, b, e)
      BY <2>2, <2>3, <3>3, StillMeans DEF Due, LogsLate
    <3>5. Owed(a, e)
      BY <1>0, <1>2, <3>4 DEF AgreeInv, OwedInv
    <3>6. Level(e)
      <4>1. CASE e \in DOMAIN copy /\ copy[e].record = store[a][e]
        <5>1. Accepted(e, copy[e].record) = store[b][e]
          BY <1>1, <1>15, <3>2, <4>1
        <5>2. /\ store[b][e] \in Record /\ store[a][e] \in Record
              /\ store[b][e].kind = store[a][e].kind /\ store[a][e].kind # "tombstone"
          BY <1>4, <1>5, <4>1, <5>1 DEF Copies
        <5>3. Active(a, e) <=> Active(b, e)
          BY <5>2, NoneAssumption DEF Active, IsRow
        <5> QED
          BY <1>3, <5>3, BothSides
      <4>2. CASE e \in DOMAIN run.plan.deleteTarget /\ ~Active(a, e)
        <5>1. ~Active(b, e)
          BY <1>2, <1>3, <4>2 DEF RunInv, PlanInv, DeleteTargetInv
        <5> QED
          BY <1>3, <4>2, <5>1, BothSides
      <4> QED
        BY <1>1, <1>2, <3>5, <4>1, <4>2 DEF Owed
    <3> QED
      BY <1>3, <3>3, <3>6, BothSides, StillMeans
  <2>6. QuietInv(a, b)'
    <3> SUFFICES ASSUME run'.quiet
                 PROVE  PageQuiet(a, b)' /\ PassQuiet'
      BY DEF QuietInv
    <3>1. PassQuiet /\ PageQuiet(a, b)
      BY <1>0, <1>2, <2>3 DEF AgreeInv, QuietInv
    <3>2. \A e \in Entity : Agree(e)' \/ (Still("local", e) /\ Still("remote", e))
      <4> SUFFICES ASSUME NEW e \in Entity, e \in written
                   PROVE  Agree(e)'
        BY <1>10 DEF Side
      <4>1. copy[e].record = store'[a][e]
        BY <1>1, <1>2, <1>4, <2>4, <3>1 DEF PageQuiet, Still
      <4>2. /\ store'[b][e] \in Record /\ store'[a][e] \in Record
            /\ store'[b][e].kind = store'[a][e].kind
            /\ store'[b][e].edits = store'[a][e].edits
        BY <1>4, <1>5, <1>9, <4>1 DEF Copies
      <4>3. Active(a, e)' <=> Active(b, e)'
        BY <4>2, NoneAssumption DEF Active, IsRow
      <4> QED
        BY <1>3, <4>2, <4>3, BothSides
    <3>3. /\ PassQuiet'
          /\ ~run'.plan.more => \A e \in Entity :
                Agree(e)' \/ LatestRevision(a, e)' <= run'.plan.next
      BY <1>2, <2>2, <3>1, <3>2, QuietStays
    <3>4. PageQuiet(a, b)'
      BY <2>2, <2>3, <3>3 DEF PageQuiet
    <3> QED
      BY <3>3, <3>4
  <2> QED
    BY <1>12, <1>13, <2>2, <2>3, <2>5, <2>6, AgreeNext
<1> QED
  BY <1>14, <1>15

LEMMA SaveAgrees ==
    ASSUME MirrorInv, AgreeInv, SaveCursor
    PROVE  AgreeInv'
<1>0. PICK a \in Side, b \in Side : a = Source /\ b = Target
  BY Sides
<1>1. /\ MirrorInv' /\ StoresOK' /\ \A x \in Side, e \in Entity : Still(x, e)
  BY SaveCursorKeeps DEF MirrorInv, StoresOK, TypesOK
<1>2. /\ run.at = "save" /\ Busy /\ cur' = [cur EXCEPT ![b] = run.plan.next]
      /\ cur \in [Side -> Nat] /\ cur' \in [Side -> Nat] /\ run \in Runs /\ run.plan \in Plans
      /\ RunInv(a, b) /\ a # b /\ Other(a) = b /\ Other(b) = a
  BY <1>0, <1>1, Sides DEF SaveCursor, Busy, MirrorInv, TypesOK, Runs
<1>3. /\ cur'[b] = run.plan.next /\ cur'[a] = cur[a] /\ run.plan.next \in Nat
      /\ run.outbound = cur[a] /\ run.cursor = cur[b] /\ run.cursor <= run.plan.next
  BY <1>2 DEF RunInv, PassInv, Plans
<1>4. /\ LogDead'
      /\ \A e \in Entity : Agree(e)' = Agree(e) /\ Level(e)' = Level(e)
      /\ \A x \in Side, e \in Entity :
            /\ store'[x][e] = store[x][e] /\ Active(x, e)' = Active(x, e)
            /\ LatestRevision(x, e)' = LatestRevision(x, e)
            /\ LatestRevision(x, e) \in Nat
  BY <1>1, StandAgrees, LatestType DEF MirrorInv
<1>5. \A e \in Entity : BothCarried(e) <=> (LatestRevision(a, e) <= cur[b]
                                             /\ LatestRevision(b, e) <= cur[a])
  BY <1>2 DEF BothCarried, Side
<1>6. \A e \in Entity : BothCarried(e)' <=> (LatestRevision(a, e)' <= cur'[b]
                                              /\ LatestRevision(b, e)' <= cur'[a])
  BY <1>2 DEF BothCarried, Side
<1>7. LevelInv'
  <2> SUFFICES ASSUME NEW e \in Entity, BothCarried(e)'
               PROVE  Level(e)
    BY <1>4 DEF LevelInv
  <2>1. LatestRevision(a, e) <= run.plan.next /\ LatestRevision(b, e) <= cur[a]
    BY <1>3, <1>4, <1>6
  <2>2. CASE LatestRevision(a, e) <= cur[b]
    BY <1>5, <2>1, <2>2 DEF AgreeInv, LevelInv
  <2>3. CASE ~(LatestRevision(a, e) <= cur[b])
    <3>1. Due(a, b, e)
      BY <1>2, <1>3, <1>4, <2>1, <2>3 DEF Due, LogsLate
    <3> QED
      BY <1>0, <1>2, <3>1 DEF AgreeInv, OwedInv, Owed
  <2> QED
    BY <2>2, <2>3
<1>8. ASSUME run.quiet
      PROVE  /\ PassQuiet
             /\ ~run.plan.more => \A e \in Entity : Agree(e) \/ LatestRevision(a, e) <= cur'[b]
  <2>1. PageQuiet(a, b) /\ PassQuiet
    BY <1>0, <1>2, <1>8 DEF AgreeInv, QuietInv
  <2> QED
    BY <1>2, <1>3, <2>1 DEF PageQuiet
<1>9. CASE run.plan.more
  <2>1. /\ run'.at = "pull" /\ run'.pass = run.pass /\ run'.quiet = run.quiet
    BY <1>2, <1>9 DEF SaveCursor, Runs
  <2>2. a = Source' /\ b = Target'
    BY <1>0, <2>1 DEF Source, Target, Other
  <2>3. OwedInv(a, b)'
    BY <2>1 DEF OwedInv, Owed, Planned
  <2>4. ASSUME run'.quiet
        PROVE  PassQuiet'
    <3>1. PassQuiet
      BY <1>8, <2>1, <2>4
    <3>2. run.pass = 2 => cur'["local"] = cur["local"]
      BY <1>0, <1>2 DEF Target, Side
    <3>3. run.pass = 3 => \A e \in Entity : Agree(e)'
      BY <1>4, <3>1 DEF PassQuiet
    <3>4. run.pass = 2 => \A e \in Entity :
             Agree(e)' \/ LatestRevision("remote", e)' <= cur'["local"]
      BY <1>4, <3>1, <3>2 DEF PassQuiet, Side
    <3> QED
      BY <2>1, <3>3, <3>4 DEF PassQuiet
  <2>5. QuietInv(a, b)'
    BY <2>1, <2>4 DEF QuietInv, PageQuiet, Planned
  <2> QED
    BY <1>4, <1>7, <2>1, <2>2, <2>3, <2>5, AgreeNext
<1>10. ASSUME ~run.plan.more, run.quiet
       PROVE  /\ run.pass = 1 => \A e \in Entity :
                    Agree(e)' \/ LatestRevision("remote", e)' <= cur'["local"]
              /\ run.pass \in {2, 3} => \A e \in Entity : Agree(e)'
  <2>1. run.pass = 1 => a = "remote" /\ b = "local"
    BY <1>0 DEF Target, Source, Other
  <2>2. run.pass = 2 => a = "local" /\ b = "remote"
    BY <1>0 DEF Target, Source, Other
  <2>3. run.pass = 1 => \A e \in Entity :
           Agree(e)' \/ LatestRevision("remote", e)' <= cur'["local"]
    BY <1>4, <1>8, <1>10, <2>1
  <2>4. ASSUME run.pass = 2, NEW e \in Entity, ~Agree(e)
        PROVE  FALSE
    <3>1. /\ LatestRevision(a, e) <= cur'[b] /\ LatestRevision("remote", e) <= cur["local"]
      BY <1>8, <1>10, <2>4 DEF PassQuiet
    <3>2. BothCarried(e)'
      BY <1>3, <1>4, <1>6, <2>2, <2>4, <3>1
    <3>3. Level(e)'
      BY <1>7, <3>2 DEF LevelInv
    <3>4. Agree(e)'
      BY <1>1, <3>2, <3>3, AgreesNext
    <3> QED
      BY <1>4, <2>4, <3>4
  <2>5. run.pass = 3 => \A e \in Entity : Agree(e)
    BY <1>8, <1>10 DEF PassQuiet
  <2>6. run.pass \in {2, 3} => \A e \in Entity : Agree(e)'
    BY <1>4, <2>4, <2>5
  <2> QED
    BY <2>3, <2>6
<1>11. CASE ~run.plan.more /\ run.pass < 3
  <2>1. run' = Pass(run.pass + 1, cur', run.quiet)
    BY <1>11 DEF SaveCursor
  <2>2. run.pass + 1 \in 1..3 /\ run.quiet \in BOOLEAN
    BY <1>2, <1>11 DEF Runs
  <2>3. PICK y : y = IF run.pass + 1 = 2 THEN "remote" ELSE "local"
    OBVIOUS
  <2>4. /\ run'.at = "pull" /\ run'.pass = run.pass + 1 /\ run'.quiet = run.quiet
    <3>1. run'.at = "pull" /\ run'.pass = run.pass + 1
      <4>1. cur' \in [Side -> Nat]
        BY <1>2
      <4> QED
        BY <2>1, <2>2, <2>3, <4>1, PassIs
    <3>2. run'.quiet = run.quiet
      BY <2>1 DEF Pass, Idle
    <3> QED
      BY <3>1, <3>2
  <2>5. PICK c \in Side, d \in Side : c = Source' /\ d = Target'
    BY DEF Source, Target, Other, Side
  <2>6. OwedInv(c, d)'
    BY <2>4 DEF OwedInv, Owed, Planned
  <2>7. ASSUME run'.quiet
        PROVE  PassQuiet'
    <3>1. \/ run.pass = 0 \/ run.pass = 1 \/ run.pass = 2
      BY <1>2, <1>11 DEF Runs
    <3>2. CASE run.pass = 0
      BY <2>4, <3>2 DEF PassQuiet
    <3>3. CASE run.pass = 1
      BY <1>10, <1>11, <2>4, <2>7, <3>3 DEF PassQuiet
    <3>4. CASE run.pass = 2
      BY <1>10, <1>11, <2>4, <2>7, <3>4 DEF PassQuiet
    <3> QED
      BY <3>1, <3>2, <3>3, <3>4
  <2>8. QuietInv(c, d)'
    BY <2>4, <2>7 DEF QuietInv, PageQuiet, Planned
  <2> QED
    BY <1>4, <1>7, <2>4, <2>5, <2>6, <2>8, AgreeNext
<1>12. CASE ~run.plan.more /\ ~(run.pass < 3)
  <2>1. run' = Done(run.quiet)
    BY <1>12 DEF SaveCursor, Done
  <2>2. run.quiet \in BOOLEAN /\ run.pass = 3
    BY <1>2, <1>12 DEF Runs
  <2>3. run'.at = "done" /\ run'.quiet = run.quiet
    <3>1. run'.at = "done"
      BY <2>1, <2>2, DoneRun
    <3>2. run'.quiet = run.quiet
      BY <2>1 DEF Done, Idle
    <3> QED
      BY <3>1, <3>2
  <2>4. AgreeAfterRun'
    BY <1>10, <1>12, <2>2, <2>3 DEF AgreeAfterRun
  <2> QED
    BY <1>4, <1>7, <2>3, <2>4 DEF AgreeInv, OwedInv, QuietInv, Busy
<1> QED
  BY <1>9, <1>11, <1>12

LEMMA StepAgrees ==
    ASSUME MirrorInv, Closed, AgreeInv, [MirrorNext]_mirrorVars
    PROVE  AgreeInv'
<1>0. MirrorInv'
  BY StepMerges
<1>1. ASSUME NEW s \in Side, NEW e \in Entity, NEW kind \in {"active", "deleted"},
             Write(s, e, kind)
      PROVE  AgreeInv'
  BY <1>1, WriteAgrees
<1>2. ASSUME NEW s \in Side, NEW e \in Entity, CleanupTrash(s, e)
      PROVE  AgreeInv'
  BY <1>2, CleanupAgrees
<1>3. ASSUME NEW s \in Side, CompactEntityChanges(s)
      PROVE  AgreeInv'
  <2>1. cur' = cur /\ run' = run
    BY <1>3 DEF CompactEntityChanges
  <2> QED
    BY <1>0, <1>3, <2>1, CompactKeeps, RestAgrees
<1>4. CASE StartRun
  BY <1>0, <1>4, StartRunKeeps, StartAgrees
<1>5. CASE PullPage
  BY <1>0, <1>5, PullPageKeeps, PullAgrees
<1>6. CASE PlanPage
  BY <1>0, <1>6, PlanPageKeeps, PlanAgrees
<1>7. CASE Halt \/ RunEnds \/ Abort
  <2>1. StoresOK' /\ cur' = cur /\ run' = Idle
    BY <1>0, <1>7 DEF Halt, RunEnds, Abort, MirrorInv, StoresOK, TypesOK
  <2>2. \A x \in Side, e \in Entity : Still(x, e)
    BY <1>7, IdleStepsKeep
  <2> QED
    BY <2>1, <2>2, StandAgrees, IdleAgrees
<1>8. CASE SaveCursor
  BY <1>8, SaveAgrees
<1>9. CASE DeleteSource
  BY <1>9, DeleteSourceAgrees
<1>10. CASE DeleteTarget
  BY <1>10, DeleteTargetAgrees
<1>11. CASE Push
  BY <1>11, PushAgrees
<1>12. CASE UNCHANGED mirrorVars
  <2>1. Standing /\ cur' = cur /\ run' = run
    BY <1>12 DEF mirrorVars, Standing
  <2> QED
    BY <1>0, <2>1, StandStill, RestAgrees
<1> QED
  BY <1>1, <1>2, <1>3, <1>4, <1>5, <1>6, <1>7, <1>8, <1>9, <1>10, <1>11, <1>12
     DEF MirrorNext, RunStep

LEMMA AgreeInitOK ==
    ASSUME MirrorInit
    PROVE  AgreeInv
<1>1. /\ \A s \in Side, e \in Entity : store[s][e] = None
      /\ \A s \in Side : log[s] = {}
      /\ run = Idle
  BY DEF MirrorInit
<1>2. run.at = "idle"
  BY <1>1, IdleRun
<1>3. LogDead
  BY <1>1 DEF LogDead, LastIs
<1>4. LevelInv
  BY <1>1 DEF LevelInv, Level, Active, IsRow, Side
<1> QED
  BY <1>2, <1>3, <1>4 DEF AgreeInv, OwedInv, QuietInv, Busy, AgreeAfterRun

(* A run that completes while no client writes leaves both sides with the same
   active records, whatever cut-off runs, pages, compactions and edits outside
   the windows came before (syncDatabases passes remote to local, local to
   remote, and remote to local again). *)
THEOREM RunsAgree ==
    ASSUME Closed
    PROVE  MirrorSpec => []AgreeAfterRun
<1>1. MirrorInit => MirrorInv /\ AgreeInv
  BY InitOK, AgreeInitOK
<1>2. MirrorInv /\ AgreeInv /\ [MirrorNext]_mirrorVars => MirrorInv' /\ AgreeInv'
  BY StepMerges, StepAgrees
<1>3. AgreeInv => AgreeAfterRun
  BY DEF AgreeInv
<1> QED
  BY <1>1, <1>2, <1>3, PTL DEF MirrorSpec

(***************************************************************************)
(* The queue in front of the runs (module MirrorQueue) loses no wakeup,    *)
(* for any number of writes, calls and failures.  NoLostWakeup is          *)
(* inductive beside the type invariant: every step that consumes one       *)
(* reason for a run (a call, a timer, a place of the worker) creates       *)
(* another, or carries the writes over itself.                             *)
(***************************************************************************)
QueueInv == QueueTypeOK /\ NoLostWakeup

LEMMA QueueInitially == QueueInit => QueueInv
  <1> SUFFICES ASSUME QueueInit PROVE QueueInv
    OBVIOUS
  <1> USE QueueBounds DEF QueueInit
  <1>1. lease \in [{"local", "remote"} -> Holder]
    BY DEF Holder
  <1>2. loop \in LoopPlace /\ direct \in DirectPlace
    BY DEF LoopPlace, DirectPlace
  <1>3. /\ writes \in 0..MaxWrites /\ mirrored \in 0..writes
        /\ covers \in 0..writes /\ excused \in 0..writes
        /\ marking \in 0..MaxCalls /\ entering \in 0..MaxCalls
        /\ trouble \in 0..MaxTrouble
    OBVIOUS
  <1>4. QueueTypeOK
    BY <1>1, <1>2, <1>3 DEF QueueTypeOK
  <1>5. NoLostWakeup
    BY DEF NoLostWakeup
  <1> QED BY <1>4, <1>5 DEF QueueInv

(* What a write, a pull, a revival and the retry timer have in common: one
   more call is on its way. *)
LEMMA OneMoreCallComes ==
  ASSUME QueueTypeOK, marking' = OneMoreCall, entering' = entering
  PROVE  /\ marking' \in 0..MaxCalls
         /\ Calls' > 0
  BY QueueBounds DEF QueueTypeOK, OneMoreCall, Calls

(***************************************************************************)
(* Requests and calls of the queue.                                        *)
(***************************************************************************)
LEMMA RequestSafe ==
  ASSUME QueueInv, LocalWrite \/ Pull \/ Revive
  PROVE  QueueInv'
  <1> USE QueueBounds
  <1>1. QueueTypeOK /\ marking' = OneMoreCall /\ entering' = entering
    BY DEF QueueInv, LocalWrite, Pull, Revive
  <1>2. marking' \in 0..MaxCalls /\ Calls' > 0
    BY <1>1, OneMoreCallComes
  <1>3. QueueTypeOK'
    BY <1>1, <1>2 DEF QueueTypeOK, LocalWrite, Pull, Revive
  <1>4. NoLostWakeup'
    BY <1>2 DEF NoLostWakeup, Scheduled
  <1> QED BY <1>3, <1>4 DEF QueueInv

LEMMA MarkPendingSafe ==
  ASSUME QueueInv, MarkPending
  PROVE  QueueInv'
  <1> USE QueueBounds DEF QueueInv, QueueTypeOK, MarkPending
  <1>1. marking' \in 0..MaxCalls /\ entering' \in 0..MaxCalls /\ Calls' > 0
    BY DEF Calls
  <1>2. QueueTypeOK'
    BY <1>1
  <1>3. NoLostWakeup'
    BY <1>1 DEF NoLostWakeup, Scheduled
  <1> QED BY <1>2, <1>3

LEMMA EnterQueueSafe ==
  ASSUME QueueInv, EnterQueue
  PROVE  QueueInv'
  <1> USE QueueBounds DEF QueueInv, EnterQueue, Enqueue
  <1>1. queued' /\ loop' # "off"
    OBVIOUS
  <1>2. QueueTypeOK'
    <2>1. loop' \in LoopPlace
      BY DEF QueueTypeOK, LoopPlace
    <2>2. queued' \in BOOLEAN /\ timer' \in BOOLEAN
      OBVIOUS
    <2> QED BY <2>1, <2>2 DEF QueueTypeOK
  <1>3. NoLostWakeup'
    BY <1>1 DEF NoLostWakeup, Scheduled
  <1> QED BY <1>2, <1>3

(***************************************************************************)
(* Runs.                                                                   *)
(***************************************************************************)
(* The worker waits for a run that is still to start, or takes the outcome
   of one that is under way. *)
LEMMA LoopStartsSafe ==
  ASSUME QueueInv, LoopStarts
  PROVE  QueueInv'
  <1> USE QueueBounds DEF QueueInv, QueueTypeOK, LoopStarts, JoinFlight
  <1>1. QueueTypeOK'
    <2>1. loop' \in LoopPlace
      BY DEF LoopPlace
    <2>2. queued' \in BOOLEAN
      OBVIOUS
    <2>3. flight' \in {"off", "asking", "mirroring"}
      OBVIOUS
    <2>4. excused' \in 0..writes'
      OBVIOUS
    <2> QED BY <2>1, <2>2, <2>3, <2>4
  <1>2. NoLostWakeup'
    <2>1. CASE flight = "mirroring"
      <3>1. excused' = writes' /\ writes' \in Nat
        BY <2>1
      <3> QED BY <3>1 DEF NoLostWakeup
    <2>2. CASE flight # "mirroring"
      <3>1. loop' = "waiting" /\ flight' = "asking"
        BY <2>2
      <3> QED BY <3>1 DEF NoLostWakeup, Scheduled
    <2> QED BY <2>1, <2>2
  <1> QED BY <1>1, <1>2

LEMMA DirectStartsSafe ==
  ASSUME QueueInv, DirectStarts
  PROVE  QueueInv'
  <1> USE QueueBounds DEF QueueInv, QueueTypeOK, DirectStarts, JoinFlight
  <1>1. QueueTypeOK'
    BY DEF DirectPlace
  <1>2. Scheduled => Scheduled'
    BY DEF Scheduled, Calls
  <1>3. NoLostWakeup'
    BY <1>2 DEF NoLostWakeup
  <1> QED BY <1>1, <1>3

(* A run that starts now covers every write. *)
LEMMA AcquireLeasesSafe ==
  ASSUME QueueInv, AcquireLeases
  PROVE  QueueInv'
  <1> USE QueueBounds DEF QueueInv, QueueTypeOK, AcquireLeases
  <1>1. QueueTypeOK'
    <2>1. lease' \in [{"local", "remote"} -> Holder]
      BY DEF Holder
    <2>2. covers' \in 0..writes'
      OBVIOUS
    <2> QED BY <2>1, <2>2
  <1>2. Scheduled => Scheduled'
    BY DEF Scheduled, Calls
  <1>3. NoLostWakeup'
    BY <1>2 DEF NoLostWakeup
  <1> QED BY <1>1, <1>3

LEMMA LeaseUnavailableSafe ==
  ASSUME QueueInv, LeaseUnavailable
  PROVE  QueueInv'
  <1> USE QueueBounds DEF QueueInv, QueueTypeOK, LeaseUnavailable, FlightEnds
  <1>1. QueueTypeOK'
    BY DEF LoopPlace, DirectPlace, Outcome
  <1>2. Scheduled => Scheduled'
    BY DEF Scheduled, Calls
  <1>3. NoLostWakeup'
    BY <1>2 DEF NoLostWakeup
  <1> QED BY <1>1, <1>3

LEMMA ReleasedOfType ==
  ASSUME QueueTypeOK
  PROVE  Released \in [{"local", "remote"} -> Holder]
  BY DEF QueueTypeOK, Released, GivenBack, Holder

(* The worker waited for a run that covers all writes, or something else is
   scheduled. *)
LEMMA MirrorDoneSafe ==
  ASSUME QueueInv, MirrorDone
  PROVE  QueueInv'
  <1> USE QueueBounds DEF QueueInv, MirrorDone, FlightEnds
  <1>1. QueueTypeOK'
    <2>1. lease' \in [{"local", "remote"} -> Holder]
      BY ReleasedOfType
    <2>2. mirrored' \in 0..writes' /\ covers' \in 0..writes'
      BY DEF QueueTypeOK
    <2> QED BY <2>1, <2>2 DEF QueueTypeOK, LoopPlace, DirectPlace, Outcome
  <1>2. NoLostWakeup'
    <2> SUFFICES ASSUME mirrored' < writes', excused' < writes'
                 PROVE  Scheduled'
      BY DEF NoLostWakeup
    <2>1. Scheduled
      BY DEF NoLostWakeup, QueueTypeOK
    <2>2. covers # writes
      BY DEF QueueTypeOK
    <2> QED BY <2>1, <2>2 DEF Scheduled, Calls
  <1> QED BY <1>1, <1>2

LEMMA MirrorFailsSafe ==
  ASSUME QueueInv, MirrorFails
  PROVE  QueueInv'
  <1> USE QueueBounds DEF QueueInv, MirrorFails, FlightEnds
  <1>1. QueueTypeOK'
    <2>1. lease' \in [{"local", "remote"} -> Holder]
      BY ReleasedOfType
    <2> QED BY <2>1 DEF QueueTypeOK, LoopPlace, DirectPlace, Outcome
  <1>2. Scheduled => Scheduled'
    BY DEF Scheduled, Calls
  <1>3. NoLostWakeup'
    BY <1>2 DEF NoLostWakeup
  <1> QED BY <1>1, <1>3

(***************************************************************************)
(* The worker and the flag.                                                *)
(***************************************************************************)
LEMMA MarksSafe ==
  ASSUME QueueInv, LoopMarks \/ DirectMarks
  PROVE  QueueInv'
  <1> USE QueueBounds DEF QueueInv, LoopMarks, DirectMarks
  <1>1. QueueTypeOK'
    BY DEF QueueTypeOK, LoopPlace, DirectPlace, Outcome
  <1>2. Scheduled => Scheduled'
    BY DEF Scheduled, Calls, Outcome
  <1>3. NoLostWakeup'
    BY <1>2 DEF NoLostWakeup
  <1> QED BY <1>1, <1>3

LEMMA WorkerGoesOnSafe ==
  ASSUME QueueInv, LoopAgain \/ Unmark
  PROVE  QueueInv'
  <1> USE QueueBounds DEF QueueInv, LoopAgain, Unmark
  <1>1. QueueTypeOK'
    BY DEF QueueTypeOK, LoopPlace
  <1>2. Scheduled => Scheduled'
    BY DEF Scheduled, Calls
  <1>3. NoLostWakeup'
    BY <1>2 DEF NoLostWakeup
  <1> QED BY <1>1, <1>3

(* The worker stops with nothing queued, or with the retry timer set. *)
LEMMA WorkerStopsSafe ==
  ASSUME QueueInv, LoopEmpty \/ LoopFails
  PROVE  QueueInv'
  <1> USE QueueBounds DEF QueueInv, LoopEmpty, LoopFails, WorkerStops
  <1>1. QueueTypeOK'
    <2>1. loop' \in LoopPlace
      BY DEF LoopPlace
    <2>2. timer' \in BOOLEAN
      BY DEF QueueTypeOK
    <2>3. marking' \in 0..MaxCalls
      BY DEF QueueTypeOK, OneMoreCall
    <2> QED BY <2>1, <2>2, <2>3 DEF QueueTypeOK
  <1>2. CASE LoopEmpty
    <2>1. marking' = marking /\ entering' = entering
      BY <1>2
    <2>2. Scheduled => Scheduled'
      BY <1>2, <2>1 DEF Scheduled, Calls
    <2> QED BY <1>1, <1>2, <2>2 DEF NoLostWakeup
  <1>3. CASE LoopFails
    BY <1>1, <1>3 DEF NoLostWakeup, Scheduled
  <1> QED BY <1>2, <1>3

LEMMA RetryTimerSafe ==
  ASSUME QueueInv, RetryTimer
  PROVE  QueueInv'
  <1>1. QueueTypeOK /\ marking' = OneMoreCall /\ entering' = entering
    BY DEF QueueInv, RetryTimer
  <1>2. marking' \in 0..MaxCalls /\ Calls' > 0
    BY <1>1, OneMoreCallComes
  <1>3. QueueTypeOK'
    BY <1>1, <1>2 DEF QueueTypeOK, RetryTimer
  <1>4. NoLostWakeup'
    BY <1>2 DEF NoLostWakeup, Scheduled
  <1> QED BY <1>3, <1>4 DEF QueueInv

(***************************************************************************)
(* Crashes, and the leases of others.                                      *)
(***************************************************************************)
LEMMA CrashSafe ==
  ASSUME QueueInv, Crash
  PROVE  QueueInv'
  <1> USE QueueBounds DEF QueueInv, QueueTypeOK, Crash
  <1>1. lease' \in [{"local", "remote"} -> Holder]
    BY DEF Holder
  <1>2. loop' \in LoopPlace /\ direct' \in DirectPlace
    BY DEF LoopPlace, DirectPlace
  <1>3. queued' \in BOOLEAN /\ timer' \in BOOLEAN
    OBVIOUS
  <1>4. /\ trouble' \in 0..MaxTrouble
        /\ covers' \in 0..writes' /\ excused' \in 0..writes'
        /\ marking' \in 0..MaxCalls /\ entering' \in 0..MaxCalls
    OBVIOUS
  <1>5. QueueTypeOK'
    BY <1>1, <1>2, <1>3, <1>4
  <1>6. NoLostWakeup'
    BY DEF NoLostWakeup
  <1> QED BY <1>5, <1>6

LEMMA LeasesSafe ==
  ASSUME QueueInv,
         \/ \E db \in {"local", "remote"} : LeaseExpires(db)
         \/ OtherAcquires \/ OtherReleases
  PROVE  QueueInv'
  <1> USE QueueBounds DEF LeaseExpires, OtherAcquires, OtherReleases, memory
  <1>1. QueueTypeOK'
    BY DEF QueueInv, QueueTypeOK, Holder
  <1>2. NoLostWakeup'
    BY DEF QueueInv, NoLostWakeup, Scheduled, Calls
  <1> QED BY <1>1, <1>2 DEF QueueInv

LEMMA QueueStep == QueueInv /\ [QueueNext]_queueVars => QueueInv'
  <1> SUFFICES ASSUME QueueInv, [QueueNext]_queueVars PROVE QueueInv'
    OBVIOUS
  <1>1. CASE UNCHANGED queueVars
    BY <1>1 DEF QueueInv, QueueTypeOK, NoLostWakeup, Scheduled, Calls,
                queueVars, memory
  <1>2. CASE LocalWrite \/ Pull \/ Revive
    BY <1>2, RequestSafe
  <1>3. CASE DirectStarts
    BY <1>3, DirectStartsSafe
  <1>4. CASE ProcessStep
    BY <1>4, MarkPendingSafe, EnterQueueSafe, LoopStartsSafe, MarksSafe,
       WorkerGoesOnSafe, WorkerStopsSafe, RetryTimerSafe, AcquireLeasesSafe,
       LeaseUnavailableSafe, MirrorDoneSafe, MirrorFailsSafe DEF ProcessStep
  <1>5. CASE Crash
    BY <1>5, CrashSafe
  <1>6. CASE \/ \E db \in {"local", "remote"} : LeaseExpires(db)
             \/ OtherAcquires \/ OtherReleases
    BY <1>6, LeasesSafe
  <1> QED BY <1>1, <1>2, <1>3, <1>4, <1>5, <1>6 DEF QueueNext

(***************************************************************************)
(* The theorems.                                                           *)
(***************************************************************************)
(* The queue's variables keep their types, and the remote database never has
   more than was written (remote-sync.ts, syncRemoteDatabase). *)
THEOREM QueueTypeCorrect == QueueSpec => []QueueTypeOK
  <1>1. QueueInv => QueueTypeOK
    BY DEF QueueInv
  <1> QED BY <1>1, QueueInitially, QueueStep, PTL DEF QueueSpec

(* No lost wakeup: a write the remote database lacks, made after the last
   crash or borrowed outcome, has a call, a timer, a queued worker or a run
   that will carry it (hono.ts, queueRemoteSyncAfter and its worker). *)
THEOREM WakeupsKept == QueueSpec => []NoLostWakeup
  <1>1. QueueInv => NoLostWakeup
    BY DEF QueueInv
  <1> QED BY <1>1, QueueInitially, QueueStep, PTL DEF QueueSpec

=============================================================================
