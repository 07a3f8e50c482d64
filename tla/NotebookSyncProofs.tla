------------------------- MODULE NotebookSyncProofs -------------------------
(***************************************************************************)
(* Names of notebooks are unique on the server (NamesUnique), and when all *)
(* is settled no note is in a notebook that is gone (NoDanglingRefs), for  *)
(* any devices, notebooks, notes, names and orders of a request.           *)
(*                                                                         *)
(* A request is decided notebook by notebook (Decided), each decision on   *)
(* what the ones before it have made of the table.  What holds after every *)
(* decision (DecidedSoFar for the names, RequestSoFar for the references)  *)
(* is shown by the least number of decisions after which it would not.     *)
(*                                                                         *)
(* The references follow from RefsAllInv: the device that filed a note     *)
(* last still owes it a look (Owed) as long as the note refers to a        *)
(* notebook that is gone.  One lemma per step (...KeepsRefs) preserves it. *)
(***************************************************************************)
EXTENDS NotebookSync, WellFoundedInduction, FiniteSetTheorems, TLAPS

(***************************************************************************)
(* Numbers, and the recursive function of a request.                       *)
(***************************************************************************)
(* A set of numbers that is not empty has a least one. *)
LEMMA LeastNumber ==
    ASSUME NEW T, T \subseteq Nat, T # {}
    PROVE  \E x \in T : \A y \in T : x <= y
<1>1. PICK x \in T : \A y \in T : ~ (<<y, x>> \in OpToRel(<, Nat))
  BY WFMin, NatLessThanWellFounded
<1>2. \A y \in T : ~ (y < x)
  BY <1>1 DEF OpToRel
<1> QED BY <1>2

(* Decided is what its defining equation says: such a function exists. *)
LEMMA DecidedExists ==
    ASSUME NEW d, NEW order, NEW n \in Nat
    PROVE  \E f : f = [k \in 0..n |->
                IF k = 0 THEN Undecided ELSE Decide(d, f[k - 1], order[k])]
<1> DEFINE Is(f, m) == f = [k \in 0..m |->
                IF k = 0 THEN Undecided ELSE Decide(d, f[k - 1], order[k])]
           T == {m \in Nat : ~ \E f : Is(f, m)}
<1>1. SUFFICES ASSUME T # {} PROVE FALSE
  OBVIOUS
<1>2. PICK m \in T : \A y \in T : m <= y
  BY <1>1, LeastNumber
<1>3. CASE m = 0
  <2>1. Is([k \in 0..0 |-> Undecided], 0)
    OBVIOUS
  <2> HIDE DEF Is
  <2> QED BY <1>2, <1>3, <2>1
<1>4. CASE m # 0
  <2>0. T \subseteq Nat
    OBVIOUS
  <2>1. m - 1 \in Nat /\ m - 1 \notin T /\ m \in Nat
    <3> HIDE DEF T
    <3> QED BY <1>2, <1>4, <2>0
  <2>2. PICK f : Is(f, m - 1)
    <3> HIDE DEF Is
    <3> QED BY <2>1
  <2> DEFINE g == [k \in 0..m |-> IF k = m THEN Decide(d, f[m - 1], order[m]) ELSE f[k]]
  <2>3. \A k \in 0..m - 1 : f[k] = IF k = 0 THEN Undecided ELSE Decide(d, f[k - 1], order[k])
    BY <2>2
  <2>4. \A k \in 0..m - 1 : g[k] = f[k]
    BY <2>1
  <2>5. \A k \in 0..m : g[k] = IF k = 0 THEN Undecided ELSE Decide(d, g[k - 1], order[k])
    <3> SUFFICES ASSUME NEW k \in 0..m
                 PROVE  g[k] = IF k = 0 THEN Undecided ELSE Decide(d, g[k - 1], order[k])
      OBVIOUS
    <3>1. CASE k = m
      <4>1. g[m] = Decide(d, f[m - 1], order[m])
        BY <2>1
      <4>2. g[m - 1] = f[m - 1]
        BY <2>1, <2>4, <1>4
      <4> QED BY <3>1, <4>1, <4>2, <1>4
    <3>2. CASE k # m
      <4>1. k \in 0..m - 1
        BY <3>2, <2>1
      <4>2. k # 0 => k - 1 \in 0..m - 1
        BY <4>1
      <4> HIDE DEF g
      <4> QED BY <4>1, <4>2, <2>3, <2>4
    <3> QED BY <3>1, <3>2
  <2>6. g = [k \in 0..m |-> g[k]]
    OBVIOUS
  <2> HIDE DEF g
  <2>7. Is(g, m)
    BY <2>5, <2>6
  <2> HIDE DEF Is
  <2> QED BY <2>7, <1>2
<1> QED BY <1>3, <1>4

(* What holds at first and after each decision holds after the last. *)
LEMMA CountUp ==
    ASSUME NEW n \in Nat, NEW T, 0 \in T,
           \A k \in 1..n : k - 1 \in T => k \in T
    PROVE  n \in T
<1> DEFINE Bad == {k \in 0..n : k \notin T}
<1>1. Bad \subseteq Nat
  OBVIOUS
<1>2. ASSUME Bad # {} PROVE FALSE
  <2>1. PICK k \in Bad : \A j \in Bad : k <= j
    <3> HIDE DEF Bad
    <3> QED BY <1>1, <1>2, LeastNumber
  <2>2. k \in 0..n /\ k \notin T
    OBVIOUS
  <2>3. k \in 1..n
    BY <2>2
  <2>4. k - 1 \in 0..n /\ k - 1 \notin Bad
    <3> HIDE DEF Bad
    <3> QED BY <2>1, <2>3
  <2>5. k - 1 \in T
    BY <2>4
  <2> QED BY <2>2, <2>3, <2>5
<1> QED BY <1>2

(* The notebooks S of a request, one after the other, each once, and what
   each decision makes of the request. *)
Decisions(d, S, order, n, f) ==
    /\ f[0] = Undecided /\ Decided(d, order) = f[n]
    /\ \A k \in 1..n : f[k] = Decide(d, f[k - 1], order[k])
    /\ \A k \in 1..n : order[k] \in S \ {order[i] : i \in 1..(k - 1)}
    /\ {order[i] : i \in 1..n} = S

LEMMA DecidedSteps ==
    ASSUME NEW d, NEW S, S \subseteq Notebook, NEW order \in SetToSeqs(S)
    PROVE  \E n \in Nat : \E f : Decisions(d, S, order, n, f)
<1> DEFINE n == Cardinality(S)
<1>1. n \in Nat /\ IsFiniteSet(S)
  BY FS_Subset, FS_CardinalityType, NotebookBounds
<1>2. /\ order \in [1..n -> S]
      /\ \A i, j \in 1..n : i # j => order[i] # order[j]
  BY DEF SetToSeqs
<1>3. IsFiniteSet(1..n) /\ Cardinality(1..n) = n
  <2> HIDE DEF n
  <2> QED BY <1>1, FS_Interval
<1>4. order \in Injection(1..n, S)
  BY <1>2 DEF Injection, IsInjective
<1>5. order \in Surjection(1..n, S)
  BY <1>1, <1>3, <1>4, FS_Injection
<1>6. {order[i] : i \in 1..n} = S
  BY <1>2, <1>5 DEF Surjection
<1> HIDE DEF n
<1>7. Len(order) = n
  BY <1>1, <1>2
<1> DEFINE f == CHOOSE f : f = [k \in 0..n |->
                    IF k = 0 THEN Undecided ELSE Decide(d, f[k - 1], order[k])]
<1>8. f = [k \in 0..n |-> IF k = 0 THEN Undecided ELSE Decide(d, f[k - 1], order[k])]
  BY <1>1, DecidedExists
<1>9. Decided(d, order) = f[n]
  BY <1>7 DEF Decided
<1> HIDE DEF f
<1>10. f[0] = Undecided /\ \A k \in 1..n : f[k] = Decide(d, f[k - 1], order[k])
  BY <1>1, <1>8
<1>11. \A k \in 1..n : order[k] \in S \ {order[i] : i \in 1..(k - 1)}
  BY <1>1, <1>2
<1>12. Decisions(d, S, order, n, f)
  BY <1>6, <1>9, <1>10, <1>11 DEF Decisions
<1> QED BY <1>1, <1>12

(***************************************************************************)
(* A request decided as far as "seen": its active and deleted notebooks    *)
(* are among them, a notebook that is active is one of them or as it was,  *)
(* and no name is taken twice.                                             *)
(***************************************************************************)
IsActive(acc, b) == acc.rows[b] # None /\ acc.rows[b].life = "active"

NamesApart(acc) ==
    \A b, c \in Notebook :
        (/\ IsActive(acc, b) /\ IsActive(acc, c)
         /\ acc.rows[b].content = acc.rows[c].content) => b = c

DecidedSoFar(acc, seen) ==
    /\ DOMAIN acc.rows = Notebook
    /\ acc.active \subseteq seen /\ acc.deleted \subseteq seen
    /\ \A b \in acc.deleted : ~IsActive(acc, b)
    /\ \A b \in Notebook : IsActive(acc, b) =>
            b \in acc.active \/ (acc.rows[b] = shelf[b] /\ b \notin acc.deleted)
    /\ NamesApart(acc)

IsDecision(acc) ==
    acc = [rows |-> acc.rows, active |-> acc.active, deleted |-> acc.deleted,
           wrote |-> acc.wrote, refused |-> acc.refused]

LEMMA DecideKeeps ==
    ASSUME NEW d, NEW acc, NEW seen, NEW b \in Notebook \ seen,
           IsDecision(acc), DecidedSoFar(acc, seen)
    PROVE  /\ IsDecision(Decide(d, acc, b))
           /\ DecidedSoFar(Decide(d, acc, b), seen \union {b})
<1> DEFINE ch == books[d][b]
           stale == StaleChange(b, ch)
           refusal == IF stale # {} THEN stale ELSE DuplicateOf(acc, b, ch)
           row == AcceptedRow(d, b, ch)
           next == Decide(d, acc, b)
<1>1. next = IF refusal # {}
             THEN [acc EXCEPT !.refused = @ \union {CHOOSE c \in refusal : TRUE}]
             ELSE [acc EXCEPT
                !.rows[b] = row,
                !.active = IF row.life = "active" THEN @ \union {b} ELSE @,
                !.deleted = IF row.life = "deleted" THEN @ \union {b} ELSE @,
                !.wrote = IF row = shelf[b] THEN @ ELSE @ \union {b}]
  BY DEF Decide
<1>2. refusal = {} => DuplicateOf(acc, b, ch) = {}
  OBVIOUS
<1>3. row.content = ch.content /\ row.life = ch.life
  BY DEF AcceptedRow, RecordsDiffer
<1> HIDE DEF refusal, row, next, ch
<1>4. CASE refusal # {}
  <2>1. /\ IsDecision(next)
        /\ next.rows = acc.rows /\ next.active = acc.active
        /\ next.deleted = acc.deleted
    BY <1>1, <1>4 DEF IsDecision
  <2> QED BY <2>1 DEF DecidedSoFar, NamesApart, IsActive, next
<1>5. CASE refusal = {}
  <2>1. /\ IsDecision(next)
        /\ next.rows = [acc.rows EXCEPT ![b] = row]
        /\ next.active = IF row.life = "active" THEN acc.active \union {b} ELSE acc.active
        /\ next.deleted = IF row.life = "deleted" THEN acc.deleted \union {b} ELSE acc.deleted
    BY <1>1, <1>5 DEF IsDecision
  <2>2. /\ DOMAIN next.rows = Notebook
        /\ next.rows[b] = row
        /\ \A c \in Notebook \ {b} : next.rows[c] = acc.rows[c]
    BY <2>1 DEF DecidedSoFar
  <2>3. \A c \in Notebook \ {b} : IsActive(next, c) <=> IsActive(acc, c)
    BY <2>2 DEF IsActive
  <2>4. ASSUME NEW c \in Notebook \ {b}, IsActive(next, b), IsActive(next, c),
               next.rows[b].content = next.rows[c].content
        PROVE  FALSE
    <3>1. ch.life = "active" /\ acc.rows[c].content = ch.content /\ IsActive(acc, c)
      BY <2>4, <2>2, <2>3, <1>3 DEF IsActive
    <3>2. CASE c \in acc.active
      <4>1. c \in SameName(b, ch, acc.rows, acc.active)
        BY <3>1, <3>2 DEF SameName
      <4>2. DuplicateOf(acc, b, ch) # {}
        BY <4>1, <3>1 DEF DuplicateOf
      <4> QED BY <4>2, <1>2, <1>5
    <3>3. CASE c \notin acc.active
      <4>1. acc.rows[c] = shelf[c] /\ c \notin acc.deleted
        BY <3>1, <3>3 DEF DecidedSoFar
      <4>2. c \in SameName(b, ch, shelf, {x \in Notebook : OnShelf(x)}) \ acc.deleted
        BY <3>1, <4>1 DEF SameName, OnShelf, IsActive
      <4>3. DuplicateOf(acc, b, ch) # {}
        BY <4>2, <3>1 DEF DuplicateOf
      <4> QED BY <4>3, <1>2, <1>5
    <3> QED BY <3>2, <3>3
  <2>5. NamesApart(next)
    <3> SUFFICES ASSUME NEW x \in Notebook, NEW y \in Notebook,
                        IsActive(next, x), IsActive(next, y),
                        next.rows[x].content = next.rows[y].content
                 PROVE  x = y
      BY DEF NamesApart
    <3>1. CASE x # b /\ y # b
      BY <3>1, <2>2, <2>3 DEF DecidedSoFar, NamesApart
    <3>2. CASE x = b \/ y = b
      BY <3>2, <2>4
    <3> QED BY <3>1, <3>2
  <2>6. next.active \subseteq seen \union {b} /\ next.deleted \subseteq seen \union {b}
    BY <2>1 DEF DecidedSoFar
  <2>7. \A x \in next.deleted : ~IsActive(next, x)
    <3> SUFFICES ASSUME NEW x \in next.deleted PROVE ~IsActive(next, x)
      OBVIOUS
    <3>1. CASE x = b
      <4>1. b \notin acc.deleted
        BY DEF DecidedSoFar
      <4>2. row.life = "deleted"
        BY <4>1, <3>1, <2>1
      <4> QED BY <4>2, <3>1, <2>2 DEF IsActive
    <3>2. CASE x # b
      <4>1. x \in acc.deleted
        BY <3>2, <2>1
      <4>2. ~IsActive(acc, x)
        BY <4>1 DEF DecidedSoFar
      <4>3. x \in Notebook => ~IsActive(next, x)
        BY <4>2, <3>2, <2>3
      <4>4. next.rows = [acc.rows EXCEPT ![b] = row] => next.rows[x] = acc.rows[x]
        BY <3>2, <2>1, <2>2 DEF DecidedSoFar
      <4> QED BY <4>2, <4>3, <4>4, <2>1 DEF IsActive
    <3> QED BY <3>1, <3>2
  <2>8. \A x \in Notebook : IsActive(next, x) =>
            x \in next.active \/ (next.rows[x] = shelf[x] /\ x \notin next.deleted)
    <3> SUFFICES ASSUME NEW x \in Notebook, IsActive(next, x)
                 PROVE  x \in next.active \/ (next.rows[x] = shelf[x] /\ x \notin next.deleted)
      OBVIOUS
    <3>1. CASE x = b
      BY <3>1, <2>1, <2>2 DEF IsActive
    <3>2. CASE x # b
      BY <3>2, <2>1, <2>2, <2>3 DEF DecidedSoFar
    <3> QED BY <3>1, <3>2
  <2> QED BY <2>1, <2>2, <2>5, <2>6, <2>7, <2>8 DEF DecidedSoFar, next
<1> QED BY <1>4, <1>5

LEMMA DecidedKeeps ==
    ASSUME NEW d, DOMAIN shelf = Notebook, NamesUnique,
           NEW S, S \subseteq Notebook, NEW order \in SetToSeqs(S)
    PROVE  LET done == Decided(d, order) IN
           DOMAIN done.rows = Notebook /\ NamesApart(done)
<1>1. PICK n \in Nat : \E f : Decisions(d, S, order, n, f)
  BY DecidedSteps
<1>2. PICK f : Decisions(d, S, order, n, f)
  BY <1>1
<1>3. /\ f[0] = Undecided /\ Decided(d, order) = f[n]
      /\ \A k \in 1..n : f[k] = Decide(d, f[k - 1], order[k])
      /\ \A k \in 1..n : order[k] \in S \ {order[i] : i \in 1..(k - 1)}
  BY <1>2 DEF Decisions
<1> DEFINE seen(k) == {order[i] : i \in 1..k}
           Good(k) == IsDecision(f[k]) /\ DecidedSoFar(f[k], seen(k))
           T == {k \in 0..n : Good(k)}
<1>4. Good(0)
  <2>1. IsDecision(Undecided)
    BY DEF IsDecision, Undecided
  <2>2. DecidedSoFar(Undecided, {})
    BY DEF DecidedSoFar, Undecided, NamesApart, IsActive, NamesUnique, OnShelf
  <2>3. seen(0) = {}
    OBVIOUS
  <2> HIDE DEF seen
  <2> QED BY <1>3, <2>1, <2>2, <2>3
<1>5. ASSUME NEW k \in 1..n, Good(k - 1) PROVE Good(k)
  <2>1. seen(k) = seen(k - 1) \union {order[k]}
    <3>1. 1..k = (1..(k - 1)) \union {k}
      OBVIOUS
    <3> QED BY <3>1
  <2> DEFINE acc == f[k - 1]
             before == seen(k - 1)
  <2>2. IsDecision(acc) /\ DecidedSoFar(acc, before) /\ order[k] \in Notebook \ before
    BY <1>3, <1>5
  <2> HIDE DEF acc, before
  <2>3. /\ IsDecision(Decide(d, acc, order[k]))
        /\ DecidedSoFar(Decide(d, acc, order[k]), before \union {order[k]})
    BY <2>2, DecideKeeps
  <2> QED BY <1>3, <2>1, <2>3 DEF acc, before
<1> HIDE DEF Good
<1>6. n \in T
  <2>1. 0 \in T /\ \A k \in 1..n : k - 1 \in T => k \in T
    BY <1>4, <1>5
  <2> HIDE DEF T
  <2> QED BY <2>1, CountUp
<1> QED BY <1>3, <1>6 DEF Good, DecidedSoFar

(***************************************************************************)
(* The names.                                                              *)
(***************************************************************************)
NamesInv == DOMAIN shelf = Notebook /\ NamesUnique

LEMMA NamesInitially == NotebookInit => NamesInv
BY DEF NotebookInit, NamesInv, NamesUnique, OnShelf

LEMMA PushKeepsNames ==
    ASSUME NEW d \in Device, NEW heard \in BOOLEAN, NamesInv, Push(d, heard)
    PROVE  NamesInv'
<1> DEFINE sent == PendingBooks(d) \ LocalOnlyDeleted(d)
<1>1. PICK order \in SetToSeqs(sent) : shelf' = Decided(d, order).rows
  BY DEF Push
<1>2. sent \subseteq Notebook
  BY DEF PendingBooks
<1> HIDE DEF sent
<1>3. DOMAIN Decided(d, order).rows = Notebook /\ NamesApart(Decided(d, order))
  BY <1>2, DecidedKeeps DEF NamesInv
<1> QED BY <1>1, <1>3 DEF NamesInv, NamesUnique, OnShelf, NamesApart, IsActive

LEMMA CleanupKeepsNames ==
    ASSUME NEW b \in Notebook, NamesInv, CleanupTrash(b)
    PROVE  NamesInv'
BY DEF CleanupTrash, NamesInv, NamesUnique, OnShelf

LEMMA ClientsKeepShelf ==
    ASSUME NEW d \in Device,
           \/ UserStep(d) \/ Resolve(d)
           \/ Pull(d) \/ RepairAndSaveCursor(d) \/ Abort(d)
    PROVE  UNCHANGED shelf
<1>1. UserStep(d) => UNCHANGED shelf
  BY DEF UserStep, UserActs, CreateNotebook, RenameNotebook, DeleteNotebook,
         AssignNoteToNotebook, server
<1>2. Resolve(d) => UNCHANGED shelf
  BY DEF Resolve, Resolved, ResolveNote, KeepLocalNotebook, KeepRemoteNotebook,
         DuplicateNotebook, KeepExisting, KeepAsCopy, server
<1>3. Pull(d) \/ RepairAndSaveCursor(d) \/ Abort(d) => UNCHANGED shelf
  BY DEF Pull, RepairAndSaveCursor, Abort, server
<1> QED BY <1>1, <1>2, <1>3

LEMMA NamesPreserved == NamesInv /\ [NotebookNext]_notebookVars => NamesInv'
<1> SUFFICES ASSUME NamesInv, [NotebookNext]_notebookVars PROVE NamesInv'
  OBVIOUS
<1>1. ASSUME UNCHANGED shelf PROVE NamesInv'
  BY <1>1 DEF NamesInv, NamesUnique, OnShelf
<1>2. CASE UNCHANGED notebookVars
  BY <1>1, <1>2 DEF notebookVars, server
<1>3. ASSUME NEW d \in Device, NEW heard \in BOOLEAN, Push(d, heard) PROVE NamesInv'
  BY <1>3, PushKeepsNames
<1>4. ASSUME NEW d \in Device,
             \/ UserStep(d) \/ Resolve(d)
             \/ Pull(d) \/ RepairAndSaveCursor(d) \/ Abort(d)
      PROVE  NamesInv'
  BY <1>1, <1>4, ClientsKeepShelf
<1>5. ASSUME NEW b \in Notebook, CleanupTrash(b) PROVE NamesInv'
  BY <1>5, CleanupKeepsNames
<1> QED BY <1>2, <1>3, <1>4, <1>5 DEF NotebookNext

(* No order of offline creations, renames, deletions, lost answers, choices in
   conflicts and clean-ups, and no order of a request's notebooks, puts two
   active notebooks of one name on the server. *)
THEOREM NamesAlwaysUnique == NotebookSpec => []NamesUnique
<1>1. NamesInv => NamesUnique
  BY DEF NamesInv
<1> QED BY <1>1, NamesInitially, NamesPreserved, PTL DEF NotebookSpec

(***************************************************************************)
(* The references: the inductive invariant, for choices that take the      *)
(* remote side only while it is the server's (the window "late" is closed).*)
(***************************************************************************)
Closed == "late" \notin Loose

BookRecord == Local(Named \union Deleted)
NoteRecord == Local(SUBSET Notebook)

(* How far the copies of device d reach: after a merge further than its cursor,
   which is saved last. *)
Reach(d) == IF stage[d] = "merged" THEN arrived[d].next ELSE cursor[d]

(* Times of deletions lie behind, and only what is deleted has one. *)
Dated(r, now) == /\ \A t \in r.content : t >= -now
                 /\ r.life = "active" => \A t \in r.content : t > 0
Timed(r) == r.life = "deleted" => \E t \in r.content : t < 0

(* The server has this very deletion. *)
SameDeletion(r, b) ==
    /\ r.life = "deleted" /\ HasRow(b)
    /\ shelf[b].life = "deleted" /\ shelf[b].content = r.content

ServerTyped ==
    /\ shelf \in [Notebook -> Row \union {None}]
    /\ filed \in [Note -> NoteRow]
    /\ lastRev \in Nat /\ ops \in Nat
    /\ stamp \in [Notebook \union Note -> Nat]
    /\ \A e \in Notebook \union Note : stamp[e] <= lastRev
    /\ \A b \in Notebook : /\ shelf[b] # None => Dated(shelf[b], ops)
                           /\ stamp[b] > 0 => shelf[b] # None

EveryDevice ==
    /\ DOMAIN books = Device /\ DOMAIN notes = Device /\ DOMAIN conflicts = Device
    /\ DOMAIN cursor = Device /\ DOMAIN stage = Device /\ DOMAIN arrived = Device

DeviceTyped(d) ==
    /\ books[d] \in [Notebook -> BookRecord \union {None}]
    /\ notes[d] \in [Note -> NoteRecord]
    /\ cursor[d] \in Nat /\ stage[d] \in {"idle", "pushed", "merged"}
    /\ arrived[d] \in [purged : SUBSET Notebook, deleted : SUBSET Notebook, next : Nat]
    /\ cursor[d] <= Reach(d) /\ Reach(d) <= lastRev
    /\ \A b \in Notebook : books[d][b] # None => Dated(books[d][b], ops)

(* What a conflict holds. *)
NoteSides(c) ==
    /\ c.other = c.of /\ c.mine \in NoteRecord /\ c.theirs \in NoteRow
    /\ c.reason = "remote_changed"
BookSides(c) ==
    /\ c.other \in Notebook /\ shelf[c.other] # None
    /\ c.mine \in BookRecord /\ c.theirs \in Row /\ c.theirs.life # "purged"
    /\ Dated(c.mine, ops) /\ Dated(c.theirs, ops) /\ Timed(c.mine) /\ ~SameDeletion(c.mine, c.of)
    /\ c.reason = "duplicate_name" => c.theirs.life = "active"
    /\ c.reason # "duplicate_name" => c.other = c.of
    /\ c.reason = "deleted_remotely" => c.theirs.life = "deleted"

(* What is marked as in conflict has one, and a note's is with another device. *)
ConflictsInv(d) ==
    /\ \A c \in conflicts[d] : \/ c.of \in Note /\ NoteSides(c)
                               \/ c.of \in Notebook /\ BookSides(c)
    /\ \A n \in Note : notes[d][n].status = "conflict" =>
            filed[n].device # d /\ \E c \in conflicts[d] : c.of = n
    /\ \A c \in conflicts[d] : c.of \in Note => notes[d][c.of].status = "conflict"
    /\ \A c, e \in conflicts[d] : c.of \in Note /\ c.of = e.of => c = e
    /\ \A b \in Notebook : (books[d][b] # None /\ books[d][b].status = "conflict") =>
            \E c \in conflicts[d] : c.of = b

(* A clean note is the server's, or its newer row is still to come. *)
CopyInv(d) == \A n \in Note : notes[d][n].status = "synced" =>
    notes[d][n].content = filed[n].content \/ stamp[n] > Reach(d)

(* What a device has not settled with the server, and what it will still send
   of it. *)
Unsettled(d, b) == books[d][b] # None /\ books[d][b].status # "synced"
StillOpen(d, b) ==
    Unsettled(d, b) /\ (books[d][b].base # 0 \/ books[d][b].life = "active")

(* A deletion of its own that the server has is one whose answer was lost: it
   comes with the next pull, after it was sent again. *)
DeletionInv(d) ==
    \A b \in Notebook : Unsettled(d, b) =>
        /\ Timed(books[d][b])
        /\ SameDeletion(books[d][b], b) =>
               /\ books[d][b].status # "conflict"
               /\ stage[d] = "idle" /\ stamp[b] > cursor[d]

(* A notebook with an open conflict is not sent, so that it has one, and its id
   stays taken. *)
HeldInv(d) ==
    /\ \A c, e \in conflicts[d] : c.of \in Notebook /\ c.of = e.of => c = e
    /\ \A c \in conflicts[d] : c.of \in Notebook =>
          /\ shelf[c.of] # None \/ books[d][c.of] # None
          /\ books[d][c.of] # None => books[d][c.of].status # "pending"

DeviceInv(d) ==
    /\ DeviceTyped(d) /\ ConflictsInv(d) /\ CopyInv(d)
    /\ DeletionInv(d) /\ HeldInv(d)

(* The times of the deletions that device d has not settled are its own. *)
Unsent(d) ==
    {t \in Int : /\ t < 0
        /\ \/ \E b \in Notebook : Unsettled(d, b) /\ t \in books[d][b].content
           \/ \E c \in conflicts[d] : c.of \in Notebook /\ t \in c.mine.content}

DeletionsApart == \A d, e \in Device : d # e => Unsent(d) \intersect Unsent(e) = {}

(* The copy of a deleted side, made by "duplicate both", is a deleted notebook that
   nobody else has and the server never hears of. *)
Stillborn(d, b) ==
    books[d][b] # None /\ books[d][b].base = 0 /\ books[d][b].life = "deleted"
StillbornInv ==
    \A d \in Device, b \in Notebook : Stillborn(d, b) =>
        /\ books[d][b].status = "pending" /\ shelf[b] = None
        /\ \A e \in Device \ {d} : books[e][b] = None

(* Device w, the last to file note n, will still look at its reference to b: the
   end of b is still to come, it is going to send the note or to settle the
   notebook, or the repair is next. *)
Owed(w, n, b) ==
    \/ stamp[b] > Reach(w)
    \/ notes[w][n].status = "pending"
    \/ StillOpen(w, b)
    \/ stage[w] = "merged" /\ stamp[b] > cursor[w] /\ b \in Gone(w)

RefsInv ==
    \A n \in Note : \A b \in filed[n].content :
        /\ shelf[b] # None /\ filed[n].device \in Device
        /\ ~OnShelf(b) => stamp[b] > stamp[n] /\ Owed(filed[n].device, n, b)

RefsAllInv ==
    /\ ServerTyped /\ EveryDevice /\ \A d \in Device : DeviceInv(d)
    /\ DeletionsApart /\ RefsInv

(***************************************************************************)
(* What the client makes of a record; C is what records of its kind hold.  *)
(***************************************************************************)
LEMMA EditedFacts ==
    ASSUME NEW C, NEW r \in Local(C), NEW content \in C, NEW life \in {"active", "deleted"}
    PROVE  /\ Edited(r, content, life) \in Local(C)
           /\ Edited(r, content, life).content = content
           /\ Edited(r, content, life).life = life
           /\ Edited(r, content, life).base = r.base
           /\ Edited(r, content, life).status = "pending"
<1>1. r.version + 1 \in Nat /\ r.base \in Nat
  BY DEF Local
<1> DEFINE s == Edited(r, content, life)
<1>2. s = [r EXCEPT !.content = content, !.life = life, !.version = r.version + 1,
                    !.status = "pending"]
  BY DEF Edited, NextVersionAfter
<1>3. r = [content |-> r.content, life |-> r.life, version |-> r.version,
           base |-> r.base, status |-> r.status]
  BY DEF Local
<1>4. s = [content |-> content, life |-> life, version |-> r.version + 1,
           base |-> r.base, status |-> "pending"]
  BY <1>2, <1>3
<1> HIDE DEF s
<1> QED BY <1>1, <1>4 DEF s, Local, Status

LEMMA CreatedFacts ==
    ASSUME NEW C, NEW content \in C
    PROVE  /\ Created(content) \in Local(C)
           /\ Created(content).content = content
           /\ Created(content).life = "active"
           /\ Created(content).status = "pending"
BY DEF Created, Local, Status

LEMMA SyncedFacts ==
    ASSUME NEW C, NEW row, row.content \in C, row.life \in {"active", "deleted"},
           row.version \in Nat
    PROVE  /\ Synced(row) \in Local(C)
           /\ Synced(row).content = row.content
           /\ Synced(row).life = row.life
           /\ Synced(row).status = "synced"
BY DEF Synced, Local, Status

LEMMA AbsorbedFacts ==
    ASSUME NEW C, NEW r \in Local(C), NEW version \in Nat
    PROVE  /\ Absorbed(r, version) \in Local(C)
           /\ Absorbed(r, version).content = r.content
           /\ Absorbed(r, version).life = r.life
           /\ Absorbed(r, version).status = r.status
           /\ r.base # 0 => Absorbed(r, version).base # 0
BY DEF Absorbed, Local, Status

LEMMA InConflictFacts ==
    ASSUME NEW C, NEW r \in Local(C)
    PROVE  LET s == [r EXCEPT !.status = "conflict"] IN
           /\ s \in Local(C) /\ s.content = r.content /\ s.life = r.life
           /\ s.base = r.base /\ s.status = "conflict"
BY DEF Local, Status

LEMMA MarkedFacts ==
    ASSUME NEW C, NEW r \in Local(C), NEW row, row.version \in Nat
    PROVE  /\ Marked(r, row) \in Local(C)
           /\ Marked(r, row).content = r.content
           /\ Marked(r, row).life = r.life
           /\ Marked(r, row).status = "synced" /\ Marked(r, row).base = row.version
BY DEF Marked, Local, Status

LEMMA KeptLocalFacts ==
    ASSUME NEW C, NEW c, c.mine \in Local(C), c.theirs.version \in Nat \ {0}
    PROVE  /\ KeptLocal(c) \in Local(C)
           /\ KeptLocal(c).content = c.mine.content
           /\ KeptLocal(c).life = c.mine.life
           /\ KeptLocal(c).base # 0
           /\ KeptLocal(c).status = "pending"
<1> DEFINE r == c.mine
           v == c.theirs.version
           s == KeptLocal(c)
<1>1. v + 1 \in Nat /\ v \in Nat \ {0}
  OBVIOUS
<1>2. s = [r EXCEPT !.version = v + 1, !.base = v, !.status = "pending"]
  BY DEF KeptLocal, NextVersionAfter
<1>3. r = [content |-> r.content, life |-> r.life, version |-> r.version,
           base |-> r.base, status |-> r.status]
  BY DEF Local
<1>4. s = [content |-> r.content, life |-> r.life, version |-> v + 1,
           base |-> v, status |-> "pending"]
  BY <1>2, <1>3
<1>5. r.content \in C /\ r.life \in {"active", "deleted"}
  BY DEF Local
<1> HIDE DEF s, v
<1> QED BY <1>1, <1>4, <1>5 DEF s, Local, Status

LEMMA SafeVersion ==
    ASSUME NEW C, NEW r \in Local(C)
    PROVE  SafePendingVersion(r) \in Nat
BY DEF SafePendingVersion, NextVersionAfter, Local

LEMMA WithoutFacts ==
    ASSUME NEW r \in NoteRecord, NEW gone
    PROVE  /\ Without(r, gone) \in NoteRecord
           /\ Without(r, gone).status = "conflict" <=> r.status = "conflict"
           /\ r.status = "pending" => Without(r, gone).status = "pending"
           /\ Without(r, gone).status = "synced" => Without(r, gone) = r
           /\ r.status = "synced" /\ r.content \intersect gone # {} =>
                Without(r, gone).status = "pending"
<1>1. CASE r.status = "conflict" \/ r.content \intersect gone = {}
  BY <1>1 DEF Without
<1>2. CASE ~(r.status = "conflict" \/ r.content \intersect gone = {})
  <2> DEFINE s == Without(r, gone)
  <2>1. s = [r EXCEPT !.content = r.content \ gone, !.version = SafePendingVersion(r),
                      !.status = "pending"]
    BY <1>2 DEF Without
  <2>2. SafePendingVersion(r) \in Nat
    BY SafeVersion DEF NoteRecord
  <2>3. r.content \ gone \in SUBSET Notebook
    BY DEF NoteRecord, Local
  <2> HIDE DEF s
  <2>4. s \in NoteRecord /\ s.status = "pending"
    BY <2>1, <2>2, <2>3 DEF NoteRecord, Local, Status
  <2> QED BY <1>2, <2>4 DEF s
<1> QED BY <1>1, <1>2

LEMMA RemappedFacts ==
    ASSUME NEW r \in NoteRecord, NEW from, NEW to \in Notebook
    PROVE  /\ Remapped(r, from, to) \in NoteRecord
           /\ Remapped(r, from, to).status = "conflict" <=> r.status = "conflict"
           /\ r.status = "pending" => Remapped(r, from, to).status = "pending"
           /\ Remapped(r, from, to).status = "synced" => Remapped(r, from, to) = r
           /\ r.status = "synced" /\ from \in r.content =>
                Remapped(r, from, to).status = "pending"
<1>1. CASE r.status = "conflict" \/ from \notin r.content
  BY <1>1 DEF Remapped
<1>2. CASE ~(r.status = "conflict" \/ from \notin r.content)
  <2> DEFINE s == Remapped(r, from, to)
  <2>1. s = [r EXCEPT !.content = (r.content \ {from}) \union {to},
                      !.version = SafePendingVersion(r), !.status = "pending"]
    BY <1>2 DEF Remapped
  <2>2. SafePendingVersion(r) \in Nat
    BY SafeVersion DEF NoteRecord
  <2>3. (r.content \ {from}) \union {to} \in SUBSET Notebook
    BY DEF NoteRecord, Local
  <2> HIDE DEF s
  <2>4. s \in NoteRecord /\ s.status = "pending"
    BY <2>1, <2>2, <2>3 DEF NoteRecord, Local, Status
  <2> QED BY <1>2, <2>4 DEF s
<1> QED BY <1>1, <1>2

(* A merge leaves what the device has not settled as it is, but for its base and
   the mark of a conflict. *)
LEMMA MergedFacts ==
    ASSUME NEW C, NEW d, NEW l \in Local(C) \union {None}, NEW r,
           r.content \in C, r.life \in {"active", "deleted"}, r.version \in Nat
    PROVE  /\ Merged(d, l, r) \in Local(C)
           /\ l = None => Merged(d, l, r) = Synced(r)
           /\ l # None /\ l.status = "synced" => Merged(d, l, r) = Synced(r)
           /\ l # None /\ l.status # "synced" =>
                /\ Merged(d, l, r).content = l.content
                /\ Merged(d, l, r).life = l.life
                /\ l.base # 0 => Merged(d, l, r).base # 0
                /\ Merged(d, l, r).status =
                     IF Diverged(l, r) /\ r.device # d THEN "conflict" ELSE l.status
<1> DEFINE m == Merged(d, l, r)
<1>1. CASE l = None
  BY <1>1, SyncedFacts DEF Merged
<1>2. CASE l # None /\ Diverged(l, r)
  <2>1. l \in Local(C) /\ l.status = "pending"
    BY <1>2 DEF Diverged
  <2>2. CASE r.device = d
    <3>1. m = Absorbed(l, r.version)
      BY <1>2, <2>2 DEF Merged
    <3> HIDE DEF m
    <3>2. /\ m \in Local(C) /\ m.content = l.content /\ m.life = l.life
          /\ m.status = l.status /\ (l.base # 0 => m.base # 0)
      BY <2>1, <3>1, AbsorbedFacts
    <3> QED BY <1>2, <2>1, <2>2, <3>2 DEF m
  <2>3. CASE r.device # d
    <3>1. m = [l EXCEPT !.status = "conflict"]
      BY <1>2, <2>3 DEF Merged
    <3> HIDE DEF m
    <3>2. /\ m \in Local(C) /\ m.content = l.content /\ m.life = l.life
          /\ m.status = "conflict" /\ m.base = l.base
      BY <2>1, <3>1, InConflictFacts
    <3> QED BY <1>2, <2>1, <2>3, <3>2 DEF m
  <2> QED BY <2>2, <2>3
<1>3. CASE l # None /\ ~Diverged(l, r)
  <2>1. m = IF l.status = "synced" THEN Synced(r) ELSE l
    BY <1>3 DEF Merged
  <2> HIDE DEF m
  <2>2. Synced(r) \in Local(C)
    BY SyncedFacts
  <2>3. m \in Local(C)
    BY <1>3, <2>1, <2>2
  <2> QED BY <1>3, <2>1, <2>3 DEF m
<1> QED BY <1>1, <1>2, <1>3

(***************************************************************************)
(* A step of one device.                                                   *)
(***************************************************************************)
OnlyDevice(d) ==
    /\ EveryDevice'
    /\ \A e \in Device \ {d} :
          /\ books'[e] = books[e] /\ notes'[e] = notes[e]
          /\ conflicts'[e] = conflicts[e] /\ cursor'[e] = cursor[e]
          /\ stage'[e] = stage[e] /\ arrived'[e] = arrived[e]

ServerStill == UNCHANGED server /\ ops' \in Nat /\ ops' >= ops

(* What was dated before is dated later. *)
LEMMA StaysDated ==
    ASSUME NEW r, NEW now \in Nat, NEW later \in Nat, later >= now,
           r.content \subseteq Int, Dated(r, now)
    PROVE  Dated(r, later)
BY DEF Dated

LEMMA RecordInts ==
    /\ \A r \in BookRecord : r.content \subseteq Int
    /\ \A r \in Row : r.content \subseteq Int
<1>1. Named \union Deleted \subseteq SUBSET Int
  BY NotebookBounds DEF Named, Deleted
<1> QED BY <1>1 DEF BookRecord, Row, Local

(* The other devices of a step that leaves the server alone. *)
LEMMA OtherDevices ==
    ASSUME NEW d \in Device, NEW e \in Device \ {d}, DeviceInv(e), ServerTyped,
           OnlyDevice(d), ServerStill
    PROVE  DeviceInv(e)'
<1>1. /\ books'[e] = books[e] /\ notes'[e] = notes[e]
      /\ conflicts'[e] = conflicts[e] /\ cursor'[e] = cursor[e]
      /\ stage'[e] = stage[e] /\ arrived'[e] = arrived[e]
      /\ shelf' = shelf /\ filed' = filed /\ stamp' = stamp /\ lastRev' = lastRev
      /\ ops \in Nat /\ ops' \in Nat /\ ops' >= ops
  BY DEF OnlyDevice, ServerStill, server, ServerTyped
<1>2. Reach(e)' = Reach(e)
  BY <1>1 DEF Reach
<1>3. DeviceTyped(e)'
  <2>1. ASSUME NEW b \in Notebook, books[e][b] # None PROVE Dated(books[e][b], ops')
    <3>1. books[e][b] \in BookRecord /\ Dated(books[e][b], ops)
      BY <2>1 DEF DeviceInv, DeviceTyped
    <3> QED BY <1>1, <3>1, StaysDated, RecordInts DEF Dated
  <2>2. \A b \in Notebook : books'[e][b] # None => Dated(books[e][b], ops')
    BY <1>1, <2>1
  <2> QED BY <1>1, <1>2, <2>2 DEF DeviceInv, DeviceTyped, Dated, BookRecord, NoteRecord
<1>4. ConflictsInv(e)'
  <2>1. ASSUME NEW c \in conflicts[e] 
        PROVE  \/ c.of \in Note /\ NoteSides(c)
               \/ c.of \in Notebook /\ BookSides(c)'
    <3>1. CASE c.of \in Notebook /\ BookSides(c)
      <4>1. c.mine.content \subseteq Int /\ c.theirs.content \subseteq Int
        BY <3>1, RecordInts DEF BookSides
      <4>2. Dated(c.mine, ops') /\ Dated(c.theirs, ops')
        BY <1>1, <3>1, <4>1 DEF BookSides, Dated
      <4>3. SameDeletion(c.mine, c.of)' <=> SameDeletion(c.mine, c.of)
        BY <1>1 DEF SameDeletion, HasRow
      <4> QED BY <1>1, <3>1, <4>2, <4>3 DEF BookSides, BookRecord
    <3> QED BY <3>1 DEF DeviceInv, ConflictsInv
  <2>2. \A c \in conflicts'[e] : \/ c.of \in Note /\ NoteSides(c)
                                 \/ c.of \in Notebook /\ BookSides(c)'
    BY <1>1, <2>1
  <2>3. /\ \A n \in Note : notes'[e][n].status = "conflict" =>
              filed'[n].device # e /\ \E c \in conflicts'[e] : c.of = n
        /\ \A c \in conflicts'[e] : c.of \in Note => notes'[e][c.of].status = "conflict"
        /\ \A c, x \in conflicts'[e] : c.of \in Note /\ c.of = x.of => c = x
        /\ \A b \in Notebook : (books'[e][b] # None /\ books'[e][b].status = "conflict") =>
              \E c \in conflicts'[e] : c.of = b
    BY <1>1 DEF DeviceInv, ConflictsInv
  <2> QED BY <2>2, <2>3 DEF ConflictsInv, NoteSides, NoteRecord
<1>5. CopyInv(e)'
  BY <1>1, <1>2 DEF DeviceInv, CopyInv
<1>6. DeletionInv(e)'
  BY <1>1 DEF DeviceInv, DeletionInv, SameDeletion, HasRow, Unsettled, Timed
<1>7. HeldInv(e)'
  BY <1>1 DEF DeviceInv, HeldInv
<1> QED BY <1>3, <1>4, <1>5, <1>6, <1>7 DEF DeviceInv

(* A step of device d that leaves the server alone has three things to show: the
   device's own invariant, that times it has not settled are its own or new, and
   that it still owes what it owed. *)
LEMMA ClientFrame ==
    ASSUME NEW d \in Device, RefsAllInv, OnlyDevice(d), ServerStill, DeviceInv(d)',
           \A t \in Unsent(d)' : t \in Unsent(d) \/ t < -ops,
           \A n \in Note : \A b \in filed[n].content :
               /\ b \in Notebook /\ shelf[b] # None /\ ~OnShelf(b) /\ stamp[b] > stamp[n]
               /\ filed[n].device = d /\ Owed(d, n, b)
               => Owed(d, n, b)'
    PROVE  RefsAllInv'
<1>1. /\ shelf' = shelf /\ filed' = filed /\ stamp' = stamp /\ lastRev' = lastRev
      /\ ops \in Nat /\ ops' \in Nat /\ ops' >= ops
  BY DEF ServerStill, server, RefsAllInv, ServerTyped
<1>2. ServerTyped'
  <2>1. ASSUME NEW b \in Notebook, shelf[b] # None PROVE Dated(shelf[b], ops')
    <3>1. shelf[b] \in Row /\ Dated(shelf[b], ops)
      BY <2>1 DEF RefsAllInv, ServerTyped
    <3> QED BY <1>1, <3>1, RecordInts DEF Dated
  <2> QED BY <1>1, <2>1 DEF RefsAllInv, ServerTyped, Dated, Row, NoteRow
<1>3. \A e \in Device : DeviceInv(e)'
  BY OtherDevices DEF RefsAllInv
<1>4. \A e \in Device \ {d} : Unsent(e)' = Unsent(e)
  <2> SUFFICES ASSUME NEW e \in Device \ {d} PROVE Unsent(e)' = Unsent(e)
    OBVIOUS
  <2>1. books'[e] = books[e] /\ conflicts'[e] = conflicts[e]
    BY DEF OnlyDevice
  <2> QED BY <2>1 DEF Unsent, Unsettled
<1>5. \A e \in Device : \A t \in Unsent(e) : t \in Int /\ t >= -ops
  <2> SUFFICES ASSUME NEW e \in Device, NEW t \in Unsent(e) PROVE t \in Int /\ t >= -ops
    OBVIOUS
  <2>1. t \in Int /\ t < 0
    BY DEF Unsent
  <2>2. CASE \E b \in Notebook : Unsettled(e, b) /\ t \in books[e][b].content
    BY <2>1, <2>2 DEF Unsettled, RefsAllInv, DeviceInv, DeviceTyped, Dated
  <2>3. CASE \E c \in conflicts[e] : c.of \in Notebook /\ t \in c.mine.content
    <3>1. PICK c \in conflicts[e] : c.of \in Notebook /\ t \in c.mine.content
      BY <2>3
    <3>2. BookSides(c)
      BY <3>1, NotebookBounds DEF RefsAllInv, DeviceInv, ConflictsInv
    <3> QED BY <2>1, <3>1, <3>2 DEF BookSides, Dated
  <2> QED BY <2>2, <2>3 DEF Unsent
<1>6. DeletionsApart'
  <2> SUFFICES ASSUME NEW e \in Device, NEW x \in Device, e # x,
                      NEW t, t \in Unsent(e)', t \in Unsent(x)'
               PROVE  FALSE
    BY DEF DeletionsApart
  <2>1. CASE e # d /\ x # d
    BY <2>1, <1>4 DEF RefsAllInv, DeletionsApart
  <2>2. CASE e = d
    <3>1. t \in Unsent(x) /\ t \notin Unsent(d)
      BY <2>2, <1>4 DEF RefsAllInv, DeletionsApart
    <3> QED BY <2>2, <3>1, <1>1, <1>5
  <2>3. CASE x = d
    <3>1. t \in Unsent(e) /\ t \notin Unsent(d)
      BY <2>3, <1>4 DEF RefsAllInv, DeletionsApart
    <3> QED BY <2>3, <3>1, <1>1, <1>5
  <2> QED BY <2>1, <2>2, <2>3
<1>7. RefsInv'
  <2> SUFFICES ASSUME NEW n \in Note, NEW b \in filed[n].content
               PROVE  /\ shelf[b] # None /\ filed[n].device \in Device
                      /\ ~OnShelf(b) => stamp[b] > stamp[n] /\ Owed(filed[n].device, n, b)'
    BY <1>1 DEF RefsInv, OnShelf
  <2>1. /\ shelf[b] # None /\ filed[n].device \in Device
        /\ ~OnShelf(b) => stamp[b] > stamp[n] /\ Owed(filed[n].device, n, b)
    BY DEF RefsAllInv, RefsInv
  <2>2. b \in Notebook
    BY DEF RefsAllInv, ServerTyped, NoteRow
  <2>3. PICK w \in Device : w = filed[n].device
    BY <2>1
  <2>4. w = filed'[n].device
    BY <1>1, <2>3
  <2>5. ASSUME ~OnShelf(b) PROVE Owed(w, n, b)'
    <3>1. CASE w = d
      BY <2>1, <2>2, <2>3, <2>5, <3>1
    <3>2. CASE w # d
      <4>1. /\ books'[w] = books[w] /\ notes'[w] = notes[w] /\ cursor'[w] = cursor[w]
            /\ stage'[w] = stage[w] /\ arrived'[w] = arrived[w]
        BY <3>2 DEF OnlyDevice
      <4>2. Owed(w, n, b)' <=> Owed(w, n, b)
        BY <1>1, <4>1 DEF Owed, Reach, StillOpen, Unsettled, Gone
      <4> QED BY <2>1, <2>3, <2>5, <4>2
    <3> QED BY <3>1, <3>2
  <2> QED BY <2>1, <2>3, <2>4, <2>5
<1> QED BY <1>2, <1>3, <1>6, <1>7 DEF RefsAllInv, OnlyDevice

(***************************************************************************)
(* What a client step keeps.  A step that changes only the tables of a     *)
(* device (OwnTables) is shown to keep the parts of its invariant one by   *)
(* one; the others move its stage.                                         *)
(***************************************************************************)
LEMMA Here ==
    ASSUME NEW d \in Device, RefsAllInv
    PROVE  /\ DeviceInv(d) /\ ServerTyped /\ EveryDevice
           /\ books[d] \in [Notebook -> BookRecord \union {None}]
           /\ notes[d] \in [Note -> NoteRecord]
           /\ ops \in Nat
BY DEF RefsAllInv, DeviceInv, DeviceTyped, ServerTyped

(* A synced note of a device that has filed it, with a reference to what is gone,
   still has the reference, or the end of the notebook is still to come. *)
LEMMA StillReferred ==
    ASSUME NEW d \in Device, RefsAllInv, NEW n \in Note, NEW b \in filed[n].content,
           filed[n].device = d, stamp[b] > stamp[n], b \in Notebook
    PROVE  \/ stamp[b] > Reach(d)
           \/ notes[d][n].status = "pending"
           \/ notes[d][n].status = "synced" /\ b \in notes[d][n].content
<1>1. notes[d][n].status \in {"pending", "synced", "conflict"}
  BY Here DEF NoteRecord, Local, Status
<1>2. notes[d][n].status # "conflict"
  BY DEF RefsAllInv, DeviceInv, ConflictsInv
<1>3. CASE notes[d][n].status = "synced" /\ notes[d][n].content # filed[n].content
  <2>1. stamp[n] > Reach(d)
    BY <1>3 DEF RefsAllInv, DeviceInv, CopyInv
  <2>2. stamp[n] \in Nat /\ stamp[b] \in Nat /\ Reach(d) \in Nat
    BY Here DEF ServerTyped, DeviceInv, DeviceTyped, Reach
  <2> QED BY <2>1, <2>2
<1> QED BY <1>1, <1>2, <1>3

(* A user's step: conflicts are open nowhere, the stage stays. *)
LEMMA UserFrame ==
    ASSUME NEW d \in Device, RefsAllInv, UserActs(d), OnlyDevice(d),
           books'[d] \in [Notebook -> BookRecord \union {None}],
           notes'[d] \in [Note -> NoteRecord],
           \A b \in Notebook : books'[d][b] = books[d][b] \/
               (books'[d][b] # None =>
                   /\ Dated(books'[d][b], ops') /\ books'[d][b].status = "pending"
                   /\ Timed(books'[d][b]) /\ ~SameDeletion(books'[d][b], b)
                   /\ books'[d][b].base # 0 \/ books'[d][b].life = "active"
                   /\ \A t \in books'[d][b].content : t > 0 \/ t < -ops),
           \A n \in Note : notes'[d][n] = notes[d][n] \/ notes'[d][n].status = "pending",
           \A n \in Note : \A b \in filed[n].content :
               /\ b \in Notebook /\ shelf[b] # None /\ ~OnShelf(b) /\ stamp[b] > stamp[n]
               /\ filed[n].device = d
               => \/ stamp[b] > Reach(d) \/ notes'[d][n].status = "pending"
                  \/ books'[d][b] = books[d][b]
                  \/ (books[d][b] # None => books[d][b].life = "active")
                     /\ StillOpen(d, b)'
    PROVE  RefsAllInv'
<1>1. /\ shelf' = shelf /\ filed' = filed /\ stamp' = stamp /\ lastRev' = lastRev
      /\ ops' = ops + 1 /\ ops \in Nat
      /\ conflicts' = conflicts /\ conflicts[d] = {} /\ cursor' = cursor
      /\ stage' = stage /\ arrived' = arrived
  BY Here DEF UserActs, server
<1>2. ServerStill
  BY <1>1 DEF ServerStill, server
<1>3. Reach(d)' = Reach(d)
  BY <1>1 DEF Reach
<1>4. DeviceTyped(d)'
  <2>1. ASSUME NEW b \in Notebook, books'[d][b] # None PROVE Dated(books'[d][b], ops')
    <3>1. CASE books'[d][b] = books[d][b]
      <4>1. books[d][b] \in BookRecord /\ Dated(books[d][b], ops)
        BY <2>1, <3>1 DEF RefsAllInv, DeviceInv, DeviceTyped
      <4> QED BY <1>1, <3>1, <4>1, RecordInts DEF Dated
    <3>2. CASE books'[d][b] # books[d][b]
      BY <2>1, <3>2 DEF Dated
    <3> QED BY <3>1, <3>2
  <2> QED BY <1>1, <1>3, <2>1 DEF RefsAllInv, DeviceInv, DeviceTyped, BookRecord, NoteRecord
<1>5. ConflictsInv(d)'
  <2>1. \A n \in Note : notes[d][n].status # "conflict"
    BY <1>1 DEF RefsAllInv, DeviceInv, ConflictsInv
  <2>2. \A n \in Note : notes'[d][n].status # "conflict"
    BY <2>1
  <2>3. \A b \in Notebook : ~(books'[d][b] # None /\ books'[d][b].status = "conflict")
    BY <1>1 DEF RefsAllInv, DeviceInv, ConflictsInv
  <2> QED BY <1>1, <2>2, <2>3 DEF ConflictsInv
<1>6. CopyInv(d)'
  BY <1>1, <1>3 DEF RefsAllInv, DeviceInv, CopyInv
<1>7. DeletionInv(d)'
  <2> SUFFICES ASSUME NEW b \in Notebook, Unsettled(d, b)'
               PROVE  /\ Timed(books'[d][b])
                      /\ SameDeletion(books'[d][b], b) =>
                             /\ books'[d][b].status # "conflict"
                             /\ stage[d] = "idle" /\ stamp[b] > cursor[d]
    BY <1>1 DEF DeletionInv, SameDeletion, HasRow, Timed
  <2>1. CASE books'[d][b] = books[d][b]
    BY <2>1 DEF RefsAllInv, DeviceInv, DeletionInv, Unsettled
  <2>2. CASE books'[d][b] # books[d][b]
    BY <2>2 DEF Unsettled
  <2> QED BY <2>1, <2>2
<1>8. HeldInv(d)'
  BY <1>1 DEF HeldInv
<1>9. DeviceInv(d)'
  BY <1>4, <1>5, <1>6, <1>7, <1>8 DEF DeviceInv
<1>10. \A t \in Unsent(d)' : t \in Unsent(d) \/ t < -ops
  <2> SUFFICES ASSUME NEW t \in Unsent(d)' PROVE t \in Unsent(d) \/ t < -ops
    OBVIOUS
  <2>1. t \in Int /\ t < 0
    BY DEF Unsent
  <2>2. PICK b \in Notebook : Unsettled(d, b)' /\ t \in books'[d][b].content
    BY <1>1 DEF Unsent
  <2>3. CASE books'[d][b] = books[d][b]
    BY <2>1, <2>2, <2>3 DEF Unsent, Unsettled
  <2>4. CASE books'[d][b] # books[d][b]
    BY <2>1, <2>2, <2>4 DEF Unsettled
  <2> QED BY <2>3, <2>4
<1>11. ASSUME NEW n \in Note, NEW b \in filed[n].content, 
              b \in Notebook, shelf[b] # None, ~OnShelf(b), stamp[b] > stamp[n],
              filed[n].device = d, Owed(d, n, b)
       PROVE  Owed(d, n, b)'
  <2>1. \/ stamp[b] > Reach(d) \/ notes'[d][n].status = "pending"
        \/ books'[d][b] = books[d][b]
        \/ (books[d][b] # None => books[d][b].life = "active") /\ StillOpen(d, b)'
    BY <1>11
  <2>2. notes[d][n].status = "pending" => notes'[d][n].status = "pending"
    OBVIOUS
  <2> QED BY <1>1, <1>3, <1>11, <2>1, <2>2 DEF Owed, StillOpen, Unsettled, Gone
<1> QED BY <1>2, <1>9, <1>10, <1>11, ClientFrame

LEMMA CreateKeepsRefs ==
    ASSUME NEW d \in Device, NEW b \in Notebook, NEW name \in Name,
           RefsAllInv, CreateNotebook(d, b, name)
    PROVE  RefsAllInv'
<1> DEFINE r == Created({name})
<1>1. /\ books' = [books EXCEPT ![d] = [books[d] EXCEPT ![b] = r]] /\ notes' = notes
      /\ UserActs(d) /\ ops' = ops + 1 /\ shelf[b] = None
      /\ UNCHANGED <<conflicts, cursor, stage, arrived>>
  BY DEF CreateNotebook, UserActs, Fresh
<1>2. /\ r \in BookRecord /\ r.content = {name} /\ r.life = "active" /\ r.status = "pending"
      /\ name \in Nat /\ name > 0
  <2>1. {name} \in Named \union Deleted
    BY DEF Named
  <2>2. name \in Nat /\ name > 0
    BY NotebookBounds
  <2> QED BY <2>1, <2>2, CreatedFacts DEF BookRecord
<1> HIDE DEF r
<1>3. OnlyDevice(d)
  BY <1>1, Here DEF OnlyDevice, EveryDevice
<1>4. /\ books'[d] \in [Notebook -> BookRecord \union {None}] /\ books'[d][b] = r
      /\ \A c \in Notebook \ {b} : books'[d][c] = books[d][c]
      /\ notes'[d] = notes[d]
  BY <1>1, <1>2, Here DEF EveryDevice
<1>5. Dated(r, ops') /\ Timed(r) /\ ~SameDeletion(r, b)
  BY <1>1, <1>2, Here DEF Dated, Timed, SameDeletion
<1>6. \A t \in r.content : t > 0
  BY <1>2
<1> QED BY <1>1, <1>2, <1>3, <1>4, <1>5, <1>6, Here, UserFrame

LEMMA RenameKeepsRefs ==
    ASSUME NEW d \in Device, NEW b \in Notebook, NEW name \in Name,
           RefsAllInv, RenameNotebook(d, b, name)
    PROVE  RefsAllInv'
<1> DEFINE r == Edited(books[d][b], {name}, "active")
<1>1. /\ books' = [books EXCEPT ![d] = [books[d] EXCEPT ![b] = r]] /\ notes' = notes
      /\ UserActs(d) /\ ops' = ops + 1 /\ Shown(d, b)
      /\ UNCHANGED <<conflicts, cursor, stage, arrived>>
  BY Here DEF RenameNotebook, UserActs, EveryDevice
<1>2. /\ r \in BookRecord /\ r.content = {name} /\ r.life = "active" /\ r.status = "pending"
      /\ name \in Nat /\ name > 0
  <2>1. {name} \in Named \union Deleted
    BY DEF Named
  <2>2. books[d][b] \in BookRecord
    BY <1>1, Here DEF Shown
  <2>3. name \in Nat /\ name > 0
    BY NotebookBounds
  <2> DEFINE content == {name}
  <2> HIDE DEF content
  <2>4. Edited(books[d][b], content, "active") = r
    BY DEF content
  <2>5. content \in Named \union Deleted /\ content = {name}
    BY <2>1 DEF content
  <2> HIDE DEF r
  <2> QED BY <2>2, <2>3, <2>4, <2>5, EditedFacts DEF BookRecord
<1> HIDE DEF r
<1>3. OnlyDevice(d)
  BY <1>1, Here DEF OnlyDevice, EveryDevice
<1>4. /\ books'[d] \in [Notebook -> BookRecord \union {None}] /\ books'[d][b] = r
      /\ \A c \in Notebook \ {b} : books'[d][c] = books[d][c]
      /\ notes'[d] = notes[d]
  BY <1>1, <1>2, Here DEF EveryDevice
<1>5. Dated(r, ops') /\ Timed(r) /\ ~SameDeletion(r, b)
  BY <1>1, <1>2, Here DEF Dated, Timed, SameDeletion
<1>6. \A t \in r.content : t > 0
  BY <1>2
<1>7. r # None
  BY <1>2, NoneAssumption DEF BookRecord
<1>8. books[d][b].life = "active" /\ StillOpen(d, b)'
  BY <1>1, <1>2, <1>4, <1>7 DEF Shown, StillOpen, Unsettled
<1> QED BY <1>1, <1>2, <1>3, <1>4, <1>5, <1>6, <1>8, Here, UserFrame

LEMMA DeleteKeepsRefs ==
    ASSUME NEW d \in Device, NEW b \in Notebook, RefsAllInv, DeleteNotebook(d, b)
    PROVE  RefsAllInv'
<1> DEFINE old == books[d][b]
           content == old.content \union {-(ops + 1)}
           r == Edited(old, content, "deleted")
           left(x) == IF b \in x.content THEN Edited(x, x.content \ {b}, "active") ELSE x
<1>1. /\ books' = [books EXCEPT ![d] = [books[d] EXCEPT ![b] = IF old.base = 0 THEN None ELSE r]]
      /\ notes' = [notes EXCEPT ![d] = [n \in Note |-> left(notes[d][n])]]
      /\ UserActs(d) /\ ops' = ops + 1 /\ ops < MaxOps /\ Shown(d, b)
      /\ UNCHANGED <<conflicts, cursor, stage, arrived, shelf>>
  BY Here DEF DeleteNotebook, UserActs, EveryDevice, server
<1>2. /\ old \in BookRecord /\ old.life = "active" /\ Dated(old, ops) /\ old # None
      /\ ops \in Nat /\ MaxOps \in Nat
  BY <1>1, Here, NotebookBounds DEF Shown, DeviceInv, DeviceTyped
<1>3. content \in Named \union Deleted /\ -(ops + 1) \in Int
  <2>1. old.content \in Named
    <3>1. ASSUME old.content \in Deleted PROVE FALSE
      <4>1. PICK m \in Name, k \in 1..MaxOps : old.content = {m, -k}
        BY <3>1 DEF Deleted
      <4>2. -k \in old.content /\ k \in Nat /\ k > 0
        BY <4>1, <1>2
      <4> QED BY <4>2, <1>2 DEF Dated
    <3> QED BY <3>1, <1>2 DEF BookRecord, Local
  <2>2. PICK m \in Name : old.content = {m}
    BY <2>1 DEF Named
  <2>3. content = {m, -(ops + 1)} /\ ops + 1 \in 1..MaxOps
    BY <2>2, <1>1, <1>2
  <2> QED BY <2>3, <1>2 DEF Deleted
<1>4. /\ r \in BookRecord /\ r.content = content /\ r.life = "deleted"
      /\ r.status = "pending" /\ r.base = old.base
  <2> HIDE DEF content
  <2> QED BY <1>2, <1>3, EditedFacts DEF BookRecord
<1>5. \A n \in Note : /\ left(notes[d][n]) \in NoteRecord
                      /\ left(notes[d][n]) = notes[d][n] \/ left(notes[d][n]).status = "pending"
                      /\ b \in notes[d][n].content => left(notes[d][n]).status = "pending"
  <2> SUFFICES ASSUME NEW n \in Note
               PROVE  /\ left(notes[d][n]) \in NoteRecord
                      /\ left(notes[d][n]) = notes[d][n] \/ left(notes[d][n]).status = "pending"
                      /\ b \in notes[d][n].content => left(notes[d][n]).status = "pending"
    OBVIOUS
  <2>1. notes[d][n] \in NoteRecord /\ notes[d][n].content \ {b} \in SUBSET Notebook
    BY Here DEF NoteRecord, Local
  <2> QED BY <2>1, EditedFacts DEF NoteRecord
<1>6. /\ \A t \in content : t > 0 \/ t < -ops
      /\ \A t \in content : t >= -(ops + 1)
      /\ -(ops + 1) \in content /\ -(ops + 1) < 0
  <2>1. \A t \in old.content : t \in Int /\ t > 0
    BY <1>2, RecordInts DEF Dated
  <2> QED BY <1>2, <2>1
<1> HIDE DEF content, r, left
<1>7. OnlyDevice(d)
  BY <1>1, Here DEF OnlyDevice, EveryDevice
<1>8. /\ books'[d] \in [Notebook -> BookRecord \union {None}]
      /\ books'[d][b] = IF old.base = 0 THEN None ELSE r
      /\ \A c \in Notebook \ {b} : books'[d][c] = books[d][c]
  BY <1>1, <1>4, Here DEF EveryDevice
<1>9. /\ notes'[d] \in [Note -> NoteRecord]
      /\ \A n \in Note : notes'[d][n] = left(notes[d][n])
  BY <1>1, <1>5, Here DEF EveryDevice
<1>10. Dated(r, ops') /\ Timed(r)
  BY <1>1, <1>4, <1>6 DEF Dated, Timed
<1>11. ~SameDeletion(r, b)
  <2> SUFFICES ASSUME SameDeletion(r, b) PROVE FALSE
    OBVIOUS
  <2>1. shelf[b] # None /\ shelf[b].content = content
    BY <1>4 DEF SameDeletion, HasRow
  <2>2. Dated(shelf[b], ops)
    BY <2>1, Here DEF ServerTyped
  <2> QED BY <1>2, <1>6, <2>1, <2>2 DEF Dated
<1>12. r # None
  BY <1>4, NoneAssumption DEF BookRecord
<1>13. ASSUME NEW n \in Note, NEW c \in filed[n].content,
              c \in Notebook, ~OnShelf(c), stamp[c] > stamp[n], filed[n].device = d
       PROVE  \/ stamp[c] > Reach(d) \/ notes'[d][n].status = "pending"
              \/ books'[d][c] = books[d][c]
  <2>1. CASE c # b
    BY <2>1, <1>8, <1>13
  <2>2. CASE c = b
    BY <2>2, <1>13, <1>9, <1>5, StillReferred
  <2> QED BY <2>1, <2>2
<1> QED BY <1>1, <1>4, <1>5, <1>6, <1>7, <1>8, <1>9, <1>10, <1>11, <1>13, UserFrame

LEMMA AssignKeepsRefs ==
    ASSUME NEW d \in Device, NEW n \in Note, NEW b \in Notebook,
           RefsAllInv, AssignNoteToNotebook(d, n, b)
    PROVE  RefsAllInv'
<1> DEFINE old == notes[d][n]
           content == IF b \in old.content THEN old.content \ {b} ELSE old.content \union {b}
           r == Edited(old, content, "active")
<1>1. /\ notes' = [notes EXCEPT ![d] = [notes[d] EXCEPT ![n] = r]]
      /\ books' = books /\ UserActs(d) /\ ops' = ops + 1
      /\ UNCHANGED <<conflicts, cursor, stage, arrived, shelf>>
  BY Here DEF AssignNoteToNotebook, UserActs, EveryDevice, server
<1>2. r \in NoteRecord /\ r.status = "pending"
  <2>1. old \in NoteRecord /\ content \in SUBSET Notebook
    BY Here DEF NoteRecord, Local
  <2> HIDE DEF content, old
  <2> QED BY <2>1, EditedFacts DEF NoteRecord
<1> HIDE DEF r
<1>3. OnlyDevice(d)
  BY <1>1, Here DEF OnlyDevice, EveryDevice
<1>4. /\ books'[d] = books[d]
      /\ notes'[d] \in [Note -> NoteRecord] /\ notes'[d][n] = r
      /\ \A m \in Note \ {n} : notes'[d][m] = notes[d][m]
  BY <1>1, <1>2, Here DEF EveryDevice
<1> QED BY <1>1, <1>2, <1>3, <1>4, Here, UserFrame

(***************************************************************************)
(* The choices in a conflict.                                              *)
(***************************************************************************)
LEMMA ResolveFrame ==
    ASSUME NEW d \in Device, NEW c, RefsAllInv, Resolved(d, c), OnlyDevice(d),
           books'[d] \in [Notebook -> BookRecord \union {None}],
           notes'[d] \in [Note -> NoteRecord],
           \A b \in Notebook : books'[d][b] = books[d][b] \/
               (books'[d][b] # None =>
                   /\ Dated(books'[d][b], ops) /\ books'[d][b].status # "conflict"
                   /\ books'[d][b].status = "pending" =>
                        /\ Timed(books'[d][b]) /\ ~SameDeletion(books'[d][b], b)
                        /\ \A t \in books'[d][b].content : t > 0 \/ t \in Unsent(d)),
           c.of \in Notebook => books'[d][c.of] # books[d][c.of] \/ books[d][c.of] = None
                                  \/ books[d][c.of].status # "conflict",
           \A b \in Notebook \ {c.of} :
               \/ books'[d][b] = books[d][b] \/ Fresh(b)
               \/ books'[d][b] # None /\ books'[d][b].status = "synced",
           \A n \in Note : \/ notes'[d][n] = notes[d][n] /\ (n = c.of => notes[d][n].status # "conflict")
                           \/ notes'[d][n].status = "pending" /\ (notes[d][n].status # "conflict" \/ n = c.of)
                           \/ n = c.of /\ notes'[d][n].status = "synced"
                              /\ notes'[d][n].content = filed[n].content,
           \A n \in Note : \A b \in filed[n].content :
               /\ b \in Notebook /\ shelf[b] # None /\ ~OnShelf(b) /\ stamp[b] > stamp[n]
               /\ filed[n].device = d
               => \/ stamp[b] > Reach(d) \/ notes'[d][n].status = "pending"
                  \/ books'[d][b] = books[d][b] \/ StillOpen(d, b)'
    PROVE  RefsAllInv'
<1>1. /\ shelf' = shelf /\ filed' = filed /\ stamp' = stamp /\ lastRev' = lastRev
      /\ ops' = ops /\ ops \in Nat
      /\ conflicts'[d] = conflicts[d] \ {c} /\ c \in conflicts[d] /\ cursor' = cursor
      /\ stage' = stage /\ arrived' = arrived
  BY Here DEF Resolved, server, bounds, EveryDevice
<1>2. ServerStill
  BY <1>1 DEF ServerStill, server
<1>3. Reach(d)' = Reach(d)
  BY <1>1 DEF Reach
<1>4. DeviceTyped(d)'
  <2>1. /\ cursor'[d] \in Nat /\ stage'[d] \in {"idle", "pushed", "merged"}
        /\ arrived'[d] \in [purged : SUBSET Notebook, deleted : SUBSET Notebook, next : Nat]
        /\ cursor'[d] <= Reach(d)' /\ Reach(d)' <= lastRev'
    BY <1>1, <1>3, Here DEF DeviceInv, DeviceTyped
  <2>2. ASSUME NEW b \in Notebook, books'[d][b] # None PROVE Dated(books'[d][b], ops')
    <3>1. CASE books'[d][b] = books[d][b]
      <4>1. Dated(books[d][b], ops)
        BY <2>2, <3>1, Here DEF DeviceInv, DeviceTyped
      <4> QED BY <4>1, <3>1, <1>1
    <3>2. CASE books'[d][b] # books[d][b]
      BY <2>2, <3>2, <1>1
    <3> QED BY <3>1, <3>2
  <2> QED BY <2>1, <2>2 DEF DeviceTyped, BookRecord, NoteRecord
<1>5. ConflictsInv(d)'
  <2>0. /\ \A x \in conflicts[d] : \/ x.of \in Note /\ NoteSides(x)
                                   \/ x.of \in Notebook /\ BookSides(x)
        /\ \A n \in Note : notes[d][n].status = "conflict" =>
                filed[n].device # d /\ \E x \in conflicts[d] : x.of = n
        /\ \A x \in conflicts[d] : x.of \in Note => notes[d][x.of].status = "conflict"
        /\ \A x, e \in conflicts[d] : x.of \in Note /\ x.of = e.of => x = e
        /\ \A b \in Notebook : (books[d][b] # None /\ books[d][b].status = "conflict") =>
                \E x \in conflicts[d] : x.of = b
    BY DEF RefsAllInv, DeviceInv, ConflictsInv
  <2>1. ASSUME NEW x \in conflicts[d]
        PROVE  \/ x.of \in Note /\ NoteSides(x)'
               \/ x.of \in Notebook /\ BookSides(x)'
    BY <2>0, <1>1 DEF NoteSides, BookSides, NoteRecord, BookRecord, Dated, SameDeletion,
                      HasRow, Timed
  <2>2. ASSUME NEW n \in Note, notes'[d][n].status = "conflict"
        PROVE  n # c.of /\ notes[d][n].status = "conflict"
    BY <2>2
  <2>3. \A n \in Note : notes'[d][n].status = "conflict" =>
                filed'[n].device # d /\ \E x \in conflicts'[d] : x.of = n
    BY <2>0, <2>2, <1>1
  <2>4. ASSUME NEW x \in conflicts'[d], x.of \in Note
        PROVE  notes'[d][x.of].status = "conflict"
    <3>1. x.of # c.of /\ notes[d][x.of].status = "conflict"
      BY <2>0, <2>4, <1>1
    <3> QED BY <2>4, <3>1
  <2>5. ASSUME NEW b \in Notebook, books'[d][b] # None, books'[d][b].status = "conflict"
        PROVE  \E x \in conflicts'[d] : x.of = b
    <3>1. books'[d][b] = books[d][b] /\ b # c.of
      BY <2>5
    <3> QED BY <2>0, <2>5, <3>1, <1>1
  <2> QED BY <2>0, <2>1, <2>3, <2>4, <2>5, <1>1 DEF ConflictsInv
<1>6. CopyInv(d)'
  BY <1>1, <1>3 DEF RefsAllInv, DeviceInv, CopyInv
<1>7. DeletionInv(d)'
  <2> SUFFICES ASSUME NEW b \in Notebook, Unsettled(d, b)'
               PROVE  /\ Timed(books'[d][b])
                      /\ SameDeletion(books'[d][b], b) =>
                             /\ books'[d][b].status # "conflict"
                             /\ stage[d] = "idle" /\ stamp[b] > cursor[d]
    BY <1>1 DEF DeletionInv, SameDeletion, HasRow, Timed
  <2>1. CASE books'[d][b] = books[d][b]
    BY <2>1 DEF RefsAllInv, DeviceInv, DeletionInv, Unsettled
  <2>2. CASE books'[d][b] # books[d][b]
    <3>1. books'[d][b] # None /\ books'[d][b].status # "synced"
      BY DEF Unsettled
    <3>2. books'[d][b].status \in {"pending", "synced", "conflict"}
      BY <3>1 DEF BookRecord, Local, Status
    <3> QED BY <2>2, <3>1, <3>2
  <2> QED BY <2>1, <2>2
<1>8. HeldInv(d)'
  <2>0. /\ \A x, e \in conflicts[d] : x.of \in Notebook /\ x.of = e.of => x = e
        /\ \A x \in conflicts[d] : x.of \in Notebook =>
              /\ shelf[x.of] # None \/ books[d][x.of] # None
              /\ books[d][x.of] # None => books[d][x.of].status # "pending"
    BY DEF RefsAllInv, DeviceInv, HeldInv
  <2>1. ASSUME NEW x \in conflicts'[d], x.of \in Notebook
        PROVE  /\ shelf[x.of] # None \/ books'[d][x.of] # None
               /\ books'[d][x.of] # None => books'[d][x.of].status # "pending"
    <3>1. x \in conflicts[d] /\ x.of # c.of
      BY <2>0, <2>1, <1>1
    <3>2. ~Fresh(x.of)
      BY <2>0, <2>1, <3>1 DEF Fresh
    <3> QED BY <2>0, <2>1, <3>1, <3>2
  <2> QED BY <2>0, <2>1, <1>1 DEF HeldInv
<1>9. DeviceInv(d)'
  BY <1>4, <1>5, <1>6, <1>7, <1>8 DEF DeviceInv
<1>10. \A t \in Unsent(d)' : t \in Unsent(d) \/ t < -ops
  <2> SUFFICES ASSUME NEW t \in Unsent(d)' PROVE t \in Unsent(d)
    OBVIOUS
  <2>1. t \in Int /\ t < 0
    BY DEF Unsent
  <2>2. CASE \E b \in Notebook : Unsettled(d, b)' /\ t \in books'[d][b].content
    <3>1. PICK b \in Notebook : Unsettled(d, b)' /\ t \in books'[d][b].content
      BY <2>2
    <3>2. CASE books'[d][b] = books[d][b]
      BY <2>1, <3>1, <3>2 DEF Unsent, Unsettled
    <3>3. CASE books'[d][b] # books[d][b]
      <4>1. books'[d][b] # None /\ books'[d][b].status # "synced"
        BY <3>1 DEF Unsettled
      <4>2. books'[d][b].status \in {"pending", "synced", "conflict"}
        BY <4>1 DEF BookRecord, Local, Status
      <4> QED BY <2>1, <3>1, <3>3, <4>1, <4>2
    <3> QED BY <3>2, <3>3
  <2>3. CASE \E x \in conflicts'[d] : x.of \in Notebook /\ t \in x.mine.content
    BY <2>1, <2>3, <1>1 DEF Unsent
  <2> QED BY <2>2, <2>3 DEF Unsent
<1>11. ASSUME NEW n \in Note, NEW b \in filed[n].content, 
              b \in Notebook, shelf[b] # None, ~OnShelf(b), stamp[b] > stamp[n],
              filed[n].device = d, Owed(d, n, b)
       PROVE  Owed(d, n, b)'
  <2>1. \/ stamp[b] > Reach(d) \/ notes'[d][n].status = "pending"
        \/ books'[d][b] = books[d][b] \/ StillOpen(d, b)'
    BY <1>11
  <2>2. notes[d][n].status = "pending" => notes'[d][n].status = "pending"
    <3>1. notes[d][n].status # "conflict"
      BY <1>11 DEF RefsAllInv, DeviceInv, ConflictsInv
    <3>2. n # c.of
      BY <1>1, <3>1 DEF RefsAllInv, DeviceInv, ConflictsInv
    <3> QED BY <3>2
  <2>3. books'[d][b] = books[d][b] => (b \in Gone(d)' <=> b \in Gone(d))
    BY <1>1 DEF Gone
  <2> QED BY <1>1, <1>3, <1>11, <2>1, <2>2, <2>3 DEF Owed, StillOpen, Unsettled
<1> QED BY <1>2, <1>9, <1>10, <1>11, ClientFrame

LEMMA ConflictSides ==
    ASSUME NEW d \in Device, NEW c \in conflicts[d], RefsAllInv
    PROVE  /\ c.of \in Note => NoteSides(c) /\ c.of \notin Notebook
           /\ c.of \in Notebook => BookSides(c) /\ c.of \notin Note
           /\ c.of \in Note \/ c.of \in Notebook
           /\ c.of \in Notebook => \A t \in c.mine.content : t > 0 \/ t \in Unsent(d)
<1>1. /\ c.of \in Note => NoteSides(c) /\ c.of \notin Notebook
      /\ c.of \in Notebook => BookSides(c) /\ c.of \notin Note
      /\ c.of \in Note \/ c.of \in Notebook
  BY NotebookBounds DEF RefsAllInv, DeviceInv, ConflictsInv
<1>2. ASSUME c.of \in Notebook, NEW t \in c.mine.content PROVE t > 0 \/ t \in Unsent(d)
  <2>1. c.mine \in BookRecord
    BY <1>1, <1>2 DEF BookSides
  <2>2. t \in Int /\ t # 0
    <3>1. c.mine.content \in Named \union Deleted
      BY <2>1 DEF BookRecord, Local
    <3>2. CASE c.mine.content \in Named
      BY <3>2, <1>2, NotebookBounds DEF Named
    <3>3. CASE c.mine.content \in Deleted
      <4>1. PICK m \in Name, k \in 1..MaxOps : c.mine.content = {m, -k}
        BY <3>3 DEF Deleted
      <4>2. m \in Nat /\ m # 0 /\ k \in Nat /\ k # 0
        BY NotebookBounds
      <4> QED BY <4>1, <4>2, <1>2
    <3> QED BY <3>1, <3>2, <3>3
  <2> QED BY <1>2, <2>2 DEF Unsent
<1> QED BY <1>1, <1>2

LEMMA ResolveNoteKeepsRefs ==
    ASSUME NEW d \in Device, NEW c, RefsAllInv, Closed, ResolveNote(d, c)
    PROVE  RefsAllInv'
<1>1. /\ Resolved(d, c) /\ c \in conflicts[d] /\ c.of \in Note
      /\ books' = books /\ UNCHANGED <<cursor, stage, arrived>>
      /\ conflicts' = [conflicts EXCEPT ![d] = conflicts[d] \ {c}]
  BY Here DEF ResolveNote, Resolved, EveryDevice
<1>2. NoteSides(c) /\ c.of \notin Notebook
  BY <1>1, ConflictSides
<1>3. PICK r \in NoteRecord :
        /\ notes' = [notes EXCEPT ![d] = [notes[d] EXCEPT ![c.of] = r]]
        /\ r.status = "pending" \/ (r.status = "synced" /\ r.content = filed[c.of].content)
  <2>1. CASE notes' = [notes EXCEPT ![d][c.of] = KeptLocal(c)]
    <3>1. KeptLocal(c) \in NoteRecord /\ KeptLocal(c).status = "pending"
      BY <1>2, KeptLocalFacts DEF NoteSides, NoteRow, NoteRecord
    <3> QED BY <2>1, <3>1, Here DEF EveryDevice
  <2>2. CASE StillRemote(c) /\ notes' = [notes EXCEPT ![d][c.of] = Synced(c.theirs)]
    <3>1. c.theirs = filed[c.of]
      BY <2>2, <1>1, <1>2 DEF StillRemote, Current, NoteSides
    <3>2. /\ c.theirs.content \in SUBSET Notebook /\ c.theirs.life \in {"active", "deleted"}
          /\ c.theirs.version \in Nat
      BY <1>2 DEF NoteSides, NoteRow
    <3>3. /\ Synced(c.theirs) \in NoteRecord /\ Synced(c.theirs).status = "synced"
          /\ Synced(c.theirs).content = c.theirs.content
      BY <3>2, SyncedFacts DEF NoteRecord
    <3> QED BY <2>2, <3>1, <3>3, Here DEF EveryDevice
  <2> QED BY <2>1, <2>2 DEF ResolveNote, MayTakeRemote, Closed
<1>4. OnlyDevice(d)
  BY <1>1, <1>3, Here DEF OnlyDevice, EveryDevice
<1>5. /\ notes'[d] \in [Note -> NoteRecord] /\ notes'[d][c.of] = r
      /\ \A n \in Note \ {c.of} : notes'[d][n] = notes[d][n]
      /\ books'[d] = books[d]
  BY <1>1, <1>3, Here DEF EveryDevice
<1> QED BY <1>1, <1>2, <1>3, <1>4, <1>5, Here, ResolveFrame

LEMMA KeepLocalKeepsRefs ==
    ASSUME NEW d \in Device, NEW c, RefsAllInv, KeepLocalNotebook(d, c)
    PROVE  RefsAllInv'
<1> DEFINE r == KeptLocal(c)
<1>1. /\ Resolved(d, c) /\ c \in conflicts[d] /\ c.of \in Notebook
      /\ books' = [books EXCEPT ![d] = [books[d] EXCEPT ![c.of] = r]]
      /\ notes' = notes /\ UNCHANGED <<cursor, stage, arrived>>
      /\ conflicts' = [conflicts EXCEPT ![d] = conflicts[d] \ {c}]
  BY Here DEF KeepLocalNotebook, Resolved, EveryDevice
<1>2. BookSides(c) /\ c.of \notin Note /\ \A t \in c.mine.content : t > 0 \/ t \in Unsent(d)
  BY <1>1, ConflictSides
<1>3. /\ r \in BookRecord /\ r.content = c.mine.content /\ r.life = c.mine.life
      /\ r.base # 0 /\ r.status = "pending"
  BY <1>2, KeptLocalFacts DEF BookSides, Row, BookRecord
<1>4. Dated(r, ops) /\ Timed(r) /\ ~SameDeletion(r, c.of) /\ r # None
  BY <1>2, <1>3, NoneAssumption DEF BookSides, Dated, Timed, SameDeletion, BookRecord
<1> HIDE DEF r
<1>5. OnlyDevice(d)
  BY <1>1, Here DEF OnlyDevice, EveryDevice
<1>6. /\ books'[d] \in [Notebook -> BookRecord \union {None}] /\ books'[d][c.of] = r
      /\ \A b \in Notebook \ {c.of} : books'[d][b] = books[d][b]
      /\ notes'[d] = notes[d]
  BY <1>1, <1>3, Here DEF EveryDevice
<1>7. StillOpen(d, c.of)'
  BY <1>1, <1>3, <1>4, <1>6 DEF StillOpen, Unsettled
<1>8. ASSUME NEW n \in Note, NEW b \in Notebook
      PROVE  books'[d][b] = books[d][b] \/ StillOpen(d, b)'
  BY <1>1, <1>6, <1>7
<1> QED BY <1>1, <1>2, <1>3, <1>4, <1>5, <1>6, <1>8, Here, ResolveFrame

(* The sides of the record a choice takes over from the server. *)
LEMMA TakenFacts ==
    ASSUME NEW c, BookSides(c)
    PROVE  /\ Synced(c.theirs) \in BookRecord /\ Synced(c.theirs).status = "synced"
           /\ Dated(Synced(c.theirs), ops)
           /\ Synced(c.theirs) # None
<1>1. /\ c.theirs.content \in Named \union Deleted /\ c.theirs.life \in {"active", "deleted"}
      /\ c.theirs.version \in Nat
  BY DEF BookSides, Row
<1>2. /\ Synced(c.theirs) \in BookRecord /\ Synced(c.theirs).status = "synced"
      /\ Synced(c.theirs).content = c.theirs.content
      /\ Synced(c.theirs).life = c.theirs.life
  BY <1>1, SyncedFacts DEF BookRecord
<1> QED BY <1>2, NoneAssumption DEF BookSides, Dated, BookRecord

LEMMA KeepRemoteKeepsRefs ==
    ASSUME NEW d \in Device, NEW c, RefsAllInv, Closed, KeepRemoteNotebook(d, c)
    PROVE  RefsAllInv'
<1> DEFINE r == Synced(c.theirs)
           left(x) == IF c.theirs.life # "deleted" THEN x ELSE Without(x, {c.of})
<1>1. /\ Resolved(d, c) /\ c \in conflicts[d] /\ c.of \in Notebook
      /\ c.reason # "duplicate_name" /\ StillRemote(c)
      /\ books' = [books EXCEPT ![d] = [books[d] EXCEPT ![c.of] = r]]
      /\ notes' = IF c.theirs.life # "deleted" THEN notes
                  ELSE [notes EXCEPT ![d] = [n \in Note |-> Without(notes[d][n], {c.of})]]
      /\ UNCHANGED <<cursor, stage, arrived>>
      /\ conflicts' = [conflicts EXCEPT ![d] = conflicts[d] \ {c}]
  BY Here DEF KeepRemoteNotebook, Resolved, MayTakeRemote, Closed, EveryDevice
<1>2. BookSides(c) /\ c.of \notin Note /\ c.other = c.of
  BY <1>1, ConflictSides DEF BookSides
<1>3. r \in BookRecord /\ r.status = "synced" /\ Dated(r, ops) /\ r # None
  BY <1>2, TakenFacts
<1> HIDE DEF r
<1>4. OnlyDevice(d)
  BY <1>1, Here DEF OnlyDevice, EveryDevice
<1>5. \A n \in Note : notes'[d][n] = left(notes[d][n])
  BY <1>1, Here DEF EveryDevice
<1>6. ASSUME NEW n \in Note
      PROVE  /\ left(notes[d][n]) \in NoteRecord
             /\ left(notes[d][n]).status = "conflict" <=> notes[d][n].status = "conflict"
             /\ left(notes[d][n]) = notes[d][n] \/ left(notes[d][n]).status # "synced"
             /\ notes[d][n].status = "pending" => left(notes[d][n]).status = "pending"
             /\ (c.theirs.life = "deleted" /\ notes[d][n].status = "synced"
                 /\ c.of \in notes[d][n].content) => left(notes[d][n]).status = "pending"
  <2>1. notes[d][n] \in NoteRecord
    BY Here
  <2> QED BY <2>1, WithoutFacts
<1> HIDE DEF left
<1>7. /\ books'[d] \in [Notebook -> BookRecord \union {None}] /\ books'[d][c.of] = r
      /\ \A b \in Notebook \ {c.of} : books'[d][b] = books[d][b]
      /\ notes'[d] \in [Note -> NoteRecord]
  <2>1. notes'[d] = [n \in Note |-> left(notes[d][n])]
    BY <1>1, Here DEF EveryDevice, left
  <2> QED BY <1>1, <1>3, <1>6, <2>1, Here DEF EveryDevice
<1>8. ASSUME NEW n \in Note
      PROVE  \/ notes'[d][n] = notes[d][n]
             \/ notes'[d][n].status = "pending" /\ notes[d][n].status # "conflict"
  <2>1. notes'[d][n].status \in {"pending", "synced", "conflict"}
    BY <1>7 DEF NoteRecord, Local, Status
  <2>2. CASE notes[d][n].status = "conflict"
    BY <2>2, <1>5, <1>6, Here DEF left, Without
  <2> QED BY <2>1, <2>2, <1>5, <1>6
<1>9. ASSUME NEW n \in Note, NEW b \in filed[n].content,
             b \in Notebook, shelf[b] # None, ~OnShelf(b), stamp[b] > stamp[n], filed[n].device = d
      PROVE  \/ stamp[b] > Reach(d) \/ notes'[d][n].status = "pending"
             \/ books'[d][b] = books[d][b]
  <2>1. CASE b # c.of
    BY <2>1, <1>7, <1>9
  <2>2. CASE b = c.of
    <3>1. c.theirs.life = "deleted"
      <4>1. CASE c.reason = "deleted_remotely"
        BY <4>1, <1>2 DEF BookSides
      <4>2. CASE c.reason # "deleted_remotely"
        <5>1. shelf[b] = c.theirs
          BY <4>2, <2>2, <1>1, <1>2 DEF StillRemote, Current
        <5>2. c.theirs.life \in {"active", "deleted", "purged"} /\ c.theirs.life # "purged"
          BY <1>2 DEF BookSides, Row
        <5> QED BY <5>1, <5>2, <1>9 DEF OnShelf
      <4> QED BY <4>1, <4>2
    <3> QED BY <3>1, <2>2, <1>5, <1>6, <1>9, StillReferred
  <2> QED BY <2>1, <2>2
<1>10. ASSUME NEW b \in Notebook
       PROVE  books'[d][b] = books[d][b] \/
               (books'[d][b] # None =>
                   /\ Dated(books'[d][b], ops) /\ books'[d][b].status # "conflict"
                   /\ books'[d][b].status = "pending" =>
                        /\ Timed(books'[d][b]) /\ ~SameDeletion(books'[d][b], b)
                        /\ \A t \in books'[d][b].content : t > 0 \/ t \in Unsent(d))
  BY <1>3, <1>7
<1>11. \/ books'[d][c.of] # books[d][c.of] \/ books[d][c.of] = None
       \/ books[d][c.of].status # "conflict"
  BY <1>1, <1>3, <1>7
<1>12. ASSUME NEW n \in Note
       PROVE \/ notes'[d][n] = notes[d][n] /\ (n = c.of => notes[d][n].status # "conflict")
             \/ notes'[d][n].status = "pending" /\ (notes[d][n].status # "conflict" \/ n = c.of)
  BY <1>2, <1>8
<1> HIDE DEF r
<1> QED BY <1>1, <1>4, <1>7, <1>9, <1>10, <1>11, <1>12, ResolveFrame

(* What moving the notes of a notebook does. *)
LEMMA RemapFacts ==
    ASSUME NEW d \in Device, NEW from, NEW to \in Notebook, RefsAllInv, from \notin Note,
           Remap(d, from, to)
    PROVE  /\ EveryDevice => DOMAIN notes' = Device
           /\ \A e \in Device \ {d} : notes'[e] = notes[e]
           /\ notes'[d] \in [Note -> NoteRecord]
           /\ \A n \in Note :
                \/ notes'[d][n] = notes[d][n] /\ (n = from => notes[d][n].status # "conflict")
                \/ notes'[d][n].status = "pending" /\ (notes[d][n].status # "conflict" \/ n = from)
           /\ \A n \in Note : (from \in filed[n].content /\ filed[n].device = d
                               /\ stamp[from] > stamp[n] /\ from \in Notebook) =>
                stamp[from] > Reach(d) \/ notes'[d][n].status = "pending"
<1> DEFINE moved(n) == Remapped(notes[d][n], from, to)
<1>1. notes' = [notes EXCEPT ![d] = [n \in Note |-> moved(n)]]
  BY Here DEF Remap, EveryDevice
<1>2. /\ DOMAIN notes' = Device /\ \A e \in Device \ {d} : notes'[e] = notes[e]
      /\ notes'[d] = [n \in Note |-> moved(n)]
  BY <1>1, Here DEF EveryDevice
<1>3. ASSUME NEW n \in Note
      PROVE  /\ moved(n) \in NoteRecord
             /\ moved(n).status = "conflict" => moved(n) = notes[d][n]
             /\ moved(n).status = "conflict" <=> notes[d][n].status = "conflict"
             /\ moved(n).status = "synced" => moved(n) = notes[d][n]
             /\ notes[d][n].status = "pending" => moved(n).status = "pending"
             /\ notes[d][n].status = "synced" /\ from \in notes[d][n].content =>
                    moved(n).status = "pending"
  <2>1. notes[d][n] \in NoteRecord
    BY Here
  <2>2. moved(n).status = "conflict" <=> notes[d][n].status = "conflict"
    BY <2>1, RemappedFacts
  <2>3. notes[d][n].status = "conflict" => moved(n) = notes[d][n]
    BY DEF Remapped
  <2> QED BY <2>1, <2>2, <2>3, RemappedFacts
<1> HIDE DEF moved
<1>4. \A n \in Note : moved(n).status \in {"pending", "synced", "conflict"}
  BY <1>3 DEF NoteRecord, Local, Status
<1>5. ASSUME NEW n \in Note
      PROVE  \/ notes'[d][n] = notes[d][n] /\ (n = from => notes[d][n].status # "conflict")
             \/ notes'[d][n].status = "pending" /\ (notes[d][n].status # "conflict" \/ n = from)
  BY <1>2, <1>3, <1>4
<1>6. ASSUME NEW n \in Note, from \in filed[n].content, filed[n].device = d,
             stamp[from] > stamp[n], from \in Notebook
      PROVE  stamp[from] > Reach(d) \/ notes'[d][n].status = "pending"
  BY <1>2, <1>3, <1>6, StillReferred
<1> QED BY <1>2, <1>3, <1>5, <1>6

LEMMA DuplicateKeepsRefs ==
    ASSUME NEW d \in Device, NEW c, NEW copy \in Notebook, RefsAllInv, Closed,
           DuplicateNotebook(d, c, copy)
    PROVE  RefsAllInv'
<1> DEFINE r == Synced(c.theirs)
<1>1. PICK name \in Name :
        /\ name - 1 \in c.mine.content
        /\ books' = [books EXCEPT ![d][c.of] = Synced(c.theirs),
                                  ![d][copy] = CopyOf(c.mine, name)]
  BY DEF DuplicateNotebook
<1> DEFINE s == CopyOf(c.mine, name)
<1>2. /\ Resolved(d, c) /\ c \in conflicts[d] /\ c.of \in Notebook
      /\ c.reason # "duplicate_name" /\ StillRemote(c) /\ Fresh(copy)
      /\ Remap(d, c.of, copy) /\ UNCHANGED <<cursor, stage, arrived>>
      /\ conflicts' = [conflicts EXCEPT ![d] = conflicts[d] \ {c}]
  BY Here DEF DuplicateNotebook, Resolved, MayTakeRemote, Closed, EveryDevice
<1>3. /\ BookSides(c) /\ c.of \notin Note /\ c.other = c.of
      /\ \A t \in c.mine.content : t > 0 \/ t \in Unsent(d)
  BY <1>2, ConflictSides DEF BookSides
<1>4. copy # c.of /\ shelf[copy] = None
  BY <1>2, <1>3 DEF Fresh, BookSides
<1>5. r \in BookRecord /\ r.status = "synced" /\ Dated(r, ops) /\ r # None
  BY <1>3, TakenFacts
<1>6. /\ s \in BookRecord /\ s.status = "pending" /\ s.life = c.mine.life
      /\ \A t \in s.content : t > 0 \/ t \in c.mine.content
      /\ \A t \in c.mine.content : t < 0 => t \in s.content
  <2> DEFINE old == c.mine.content
             new == (old \ {name - 1}) \union {name}
  <2>1. /\ c.mine.life \in {"active", "deleted"} /\ old \in Named \union Deleted
        /\ name \in Nat /\ name > 0 /\ name - 1 \in Nat
    BY <1>3, NotebookBounds DEF BookSides, BookRecord, Local
  <2>2. new \in Named \union Deleted
    <3>1. CASE old \in Named
      <4>1. new = {name}
        BY <1>1, <3>1 DEF Named
      <4> QED BY <4>1 DEF Named
    <3>2. CASE old \in Deleted
      <4>1. PICK m \in Name, k \in 1..MaxOps : old = {m, -k}
        BY <3>2 DEF Deleted
      <4>2. k \in Nat /\ k > 0 /\ m \in Nat
        BY NotebookBounds
      <4>3. m = name - 1 /\ -k # name - 1
        BY <1>1, <4>1, <4>2, <2>1
      <4>4. new = {name, -k}
        BY <4>1, <4>3
      <4> QED BY <4>4 DEF Deleted
    <3> QED BY <2>1, <3>1, <3>2
  <2>3. /\ s.content = new /\ s.life = c.mine.life /\ s.status = "pending"
        /\ s \in BookRecord
    <3> HIDE DEF new
    <3>1. s = [Created(new) EXCEPT !.life = c.mine.life]
      BY DEF CopyOf, new
    <3>2. s = [content |-> new, life |-> c.mine.life, version |-> 1, base |-> 0,
               status |-> "pending"]
      BY <3>1 DEF Created
    <3> HIDE DEF s
    <3> QED BY <2>1, <2>2, <3>2 DEF BookRecord, Local, Status
  <2>4. \A t \in new : t > 0 \/ t \in old
    BY <2>1
  <2>5. \A t \in old : t < 0 => t \in new
    BY <2>1
  <2> QED BY <2>3, <2>4, <2>5
<1>7. Dated(s, ops) /\ Timed(s) /\ ~SameDeletion(s, copy) /\ s # None
  <2>1. /\ \A t \in c.mine.content : t >= -ops
        /\ c.mine.life = "active" => \A t \in c.mine.content : t > 0
        /\ c.mine.life = "deleted" => \E t \in c.mine.content : t < 0
        /\ ops \in Nat
    BY <1>3, Here DEF BookSides, Dated, Timed
  <2>2. \A t \in s.content : t \in Int
    BY <1>6, RecordInts
  <2> HIDE DEF s
  <2>3. Dated(s, ops)
    BY <1>6, <2>1, <2>2 DEF Dated
  <2>4. Timed(s)
    BY <1>6, <2>1 DEF Timed
  <2>5. ~SameDeletion(s, copy)
    BY <1>4 DEF SameDeletion, HasRow
  <2> QED BY <2>3, <2>4, <2>5, <1>6, NoneAssumption DEF BookRecord
<1> HIDE DEF r, s
<1>8. /\ DOMAIN books' = Device /\ \A e \in Device \ {d} : books'[e] = books[e]
      /\ books'[d] = [books[d] EXCEPT ![c.of] = r, ![copy] = s]
  BY <1>1, Here DEF EveryDevice, r, s
<1>9. /\ books'[d] \in [Notebook -> BookRecord \union {None}]
      /\ books'[d][c.of] = r /\ books'[d][copy] = s
      /\ \A b \in Notebook \ {c.of, copy} : books'[d][b] = books[d][b]
  BY <1>2, <1>4, <1>5, <1>6, <1>8, Here
<1>10. OnlyDevice(d)
  BY <1>2, <1>3, <1>8, RemapFacts, Here DEF OnlyDevice, EveryDevice
<1>11. ASSUME NEW b \in Notebook
       PROVE  books'[d][b] = books[d][b] \/
               (books'[d][b] # None =>
                   /\ Dated(books'[d][b], ops) /\ books'[d][b].status # "conflict"
                   /\ books'[d][b].status = "pending" =>
                        /\ Timed(books'[d][b]) /\ ~SameDeletion(books'[d][b], b)
                        /\ \A t \in books'[d][b].content : t > 0 \/ t \in Unsent(d))
  <2>1. CASE b = c.of
    BY <2>1, <1>5, <1>9
  <2>2. CASE b = copy
    BY <2>2, <1>3, <1>6, <1>7, <1>9
  <2> QED BY <2>1, <2>2, <1>9
<1>12. \/ books'[d][c.of] # books[d][c.of] \/ books[d][c.of] = None
       \/ books[d][c.of].status # "conflict"
  BY <1>5, <1>9
<1>13. ASSUME NEW n \in Note, NEW b \in filed[n].content,
             b \in Notebook, shelf[b] # None, ~OnShelf(b), stamp[b] > stamp[n], filed[n].device = d
      PROVE  \/ stamp[b] > Reach(d) \/ notes'[d][n].status = "pending"
             \/ books'[d][b] = books[d][b]
  <2>1. CASE b = c.of
    BY <2>1, <1>2, <1>3, <1>13, RemapFacts
  <2>2. CASE b # c.of
    BY <2>2, <1>4, <1>9, <1>13
  <2> QED BY <2>1, <2>2
<1>14. /\ notes'[d] \in [Note -> NoteRecord]
       /\ \A n \in Note :
            \/ notes'[d][n] = notes[d][n] /\ (n = c.of => notes[d][n].status # "conflict")
            \/ notes'[d][n].status = "pending" /\ (notes[d][n].status # "conflict" \/ n = c.of)
  BY <1>2, <1>3, RemapFacts
<1> QED BY <1>2, <1>9, <1>10, <1>11, <1>12, <1>13, <1>14, ResolveFrame

LEMMA KeepExistingKeepsRefs ==
    ASSUME NEW d \in Device, NEW c, RefsAllInv, Closed, c.of \in Notebook, KeepExisting(d, c)
    PROVE  RefsAllInv'
<1> DEFINE r == Synced(c.theirs)
<1>1. /\ Resolved(d, c) /\ c \in conflicts[d]
      /\ c.reason = "duplicate_name" /\ StillRemote(c)
      /\ books' = [books EXCEPT ![d][c.other] = r, ![d][c.of] = None]
      /\ Remap(d, c.of, c.other) /\ UNCHANGED <<cursor, stage, arrived>>
      /\ conflicts' = [conflicts EXCEPT ![d] = conflicts[d] \ {c}]
  BY Here DEF KeepExisting, Resolved, MayTakeRemote, Closed, EveryDevice
<1>2. BookSides(c) /\ c.of \notin Note /\ c.other \in Notebook
  BY <1>1, ConflictSides DEF BookSides
<1>3. r \in BookRecord /\ r.status = "synced" /\ Dated(r, ops) /\ r # None
  BY <1>2, TakenFacts
<1>4. OnShelf(c.other)
  BY <1>1, <1>2, NotebookBounds DEF StillRemote, Current, BookSides, OnShelf
<1> HIDE DEF r
<1>5. /\ DOMAIN books' = Device /\ \A e \in Device \ {d} : books'[e] = books[e]
      /\ books'[d] = [books[d] EXCEPT ![c.other] = r, ![c.of] = None]
  BY <1>1, Here DEF EveryDevice
<1>6. /\ books'[d] \in [Notebook -> BookRecord \union {None}]
      /\ books'[d][c.of] = None /\ books'[d][c.other] \in {r, None}
      /\ \A b \in Notebook \ {c.of, c.other} : books'[d][b] = books[d][b]
  BY <1>2, <1>3, <1>5, Here
<1>7. OnlyDevice(d)
  BY <1>1, <1>2, <1>5, RemapFacts, Here DEF OnlyDevice, EveryDevice
<1>8. ASSUME NEW b \in Notebook
      PROVE  books'[d][b] = books[d][b] \/
               (books'[d][b] # None =>
                   /\ Dated(books'[d][b], ops) /\ books'[d][b].status # "conflict"
                   /\ books'[d][b].status = "pending" =>
                        /\ Timed(books'[d][b]) /\ ~SameDeletion(books'[d][b], b)
                        /\ \A t \in books'[d][b].content : t > 0 \/ t \in Unsent(d))
  BY <1>3, <1>6
<1>9. \/ books'[d][c.of] # books[d][c.of] \/ books[d][c.of] = None
      \/ books[d][c.of].status # "conflict"
  BY <1>6
<1>10. ASSUME NEW n \in Note, NEW b \in filed[n].content,
             b \in Notebook, shelf[b] # None, ~OnShelf(b), stamp[b] > stamp[n], filed[n].device = d
       PROVE  \/ stamp[b] > Reach(d) \/ notes'[d][n].status = "pending"
              \/ books'[d][b] = books[d][b]
  <2>1. CASE b = c.of
    BY <2>1, <1>1, <1>2, <1>10, RemapFacts
  <2>2. CASE b # c.of
    BY <2>2, <1>4, <1>6, <1>10
  <2> QED BY <2>1, <2>2
<1>11. /\ notes'[d] \in [Note -> NoteRecord]
       /\ \A n \in Note :
            \/ notes'[d][n] = notes[d][n] /\ (n = c.of => notes[d][n].status # "conflict")
            \/ notes'[d][n].status = "pending" /\ (notes[d][n].status # "conflict" \/ n = c.of)
  BY <1>1, <1>2, RemapFacts
<1>12. \A b \in Notebook \ {c.of} :
          \/ books'[d][b] = books[d][b] \/ Fresh(b)
          \/ books'[d][b] # None /\ books'[d][b].status = "synced"
  <2> SUFFICES ASSUME NEW b \in Notebook \ {c.of}, books'[d][b] # books[d][b]
               PROVE  books'[d][b] = r
    BY <1>3
  <2> QED BY <1>5, Here
<1>13. Resolved(d, c)
  BY <1>1
<1> QED BY <1>6, <1>7, <1>8, <1>9, <1>10, <1>11, <1>12, <1>13, ResolveFrame

LEMMA KeepAsCopyKeepsRefs ==
    ASSUME NEW d \in Device, NEW c, NEW copy \in Notebook, RefsAllInv, Closed, c.of \in Notebook,
           KeepAsCopy(d, c, copy)
    PROVE  RefsAllInv'
<1> DEFINE r == Synced(c.theirs)
<1>1. PICK name \in CopyName(d, c) :
        books' = [books EXCEPT ![d][c.other] = Synced(c.theirs), ![d][c.of] = None,
                               ![d][copy] = Created({name})]
  BY DEF KeepAsCopy
<1> DEFINE s == Created({name})
<1>2. /\ Resolved(d, c) /\ c \in conflicts[d]
      /\ c.reason = "duplicate_name" /\ StillRemote(c) /\ Fresh(copy)
      /\ Remap(d, c.of, copy) /\ UNCHANGED <<cursor, stage, arrived>>
      /\ conflicts' = [conflicts EXCEPT ![d] = conflicts[d] \ {c}]
  BY Here DEF KeepAsCopy, Resolved, MayTakeRemote, Closed, EveryDevice
<1>3. BookSides(c) /\ c.of \notin Note /\ c.other \in Notebook
  BY <1>2, ConflictSides DEF BookSides
<1>4. r \in BookRecord /\ r.status = "synced" /\ Dated(r, ops) /\ r # None
  BY <1>3, TakenFacts
<1>5. OnShelf(c.other) /\ shelf[copy] = None
  BY <1>2, <1>3, NotebookBounds DEF StillRemote, Current, BookSides, OnShelf, Fresh
<1>6. /\ s \in BookRecord /\ s.content = {name} /\ s.life = "active" /\ s.status = "pending"
      /\ name \in Nat /\ name > 0 /\ s # None
  <2>1. name \in Name /\ name \in Nat /\ name > 0
    <3>1. name \in Name
      BY Zenon DEF CopyName
    <3> QED BY <3>1, NotebookBounds
  <2>2. {name} \in Named \union Deleted
    BY <2>1 DEF Named
  <2>3. s \in BookRecord /\ s.content = {name} /\ s.life = "active" /\ s.status = "pending"
    BY <2>2, CreatedFacts DEF BookRecord
  <2> HIDE DEF s
  <2>4. s # None
    BY <2>3, NoneAssumption DEF BookRecord
  <2> QED BY <2>1, <2>3, <2>4
<1>7. Dated(s, ops) /\ Timed(s) /\ ~SameDeletion(s, copy) /\ \A t \in s.content : t > 0
  <2> HIDE DEF s
  <2>1. ops \in Nat
    BY Here
  <2>2. \A t \in s.content : t > 0 /\ t >= -ops
    BY <1>6, <2>1
  <2> QED BY <1>6, <2>2 DEF Dated, Timed, SameDeletion
<1> HIDE DEF r, s
<1>8. /\ DOMAIN books' = Device /\ \A e \in Device \ {d} : books'[e] = books[e]
      /\ books'[d] = [books[d] EXCEPT ![c.other] = r, ![c.of] = None, ![copy] = s]
  BY <1>1, Here DEF EveryDevice, r, s
<1>9. /\ books'[d] \in [Notebook -> BookRecord \union {None}]
      /\ books'[d][c.of] \in {None, s} /\ books'[d][c.other] \in {r, None, s}
      /\ books'[d][copy] = s
      /\ \A b \in Notebook \ {c.of, c.other, copy} : books'[d][b] = books[d][b]
  BY <1>3, <1>4, <1>6, <1>8, Here
<1>10. OnlyDevice(d)
  BY <1>2, <1>3, <1>8, RemapFacts, Here DEF OnlyDevice, EveryDevice
<1>11. \A b \in Notebook : ~SameDeletion(s, b)
  BY <1>6 DEF SameDeletion
<1>12. ASSUME NEW b \in Notebook
       PROVE  books'[d][b] = books[d][b] \/
               (books'[d][b] # None =>
                   /\ Dated(books'[d][b], ops) /\ books'[d][b].status # "conflict"
                   /\ books'[d][b].status = "pending" =>
                        /\ Timed(books'[d][b]) /\ ~SameDeletion(books'[d][b], b)
                        /\ \A t \in books'[d][b].content : t > 0 \/ t \in Unsent(d))
  <2>1. CASE books'[d][b] = s
    BY <2>1, <1>6, <1>7, <1>11
  <2>2. CASE books'[d][b] = r
    BY <2>2, <1>4
  <2> QED BY <2>1, <2>2, <1>9
<1>13. \/ books'[d][c.of] # books[d][c.of] \/ books[d][c.of] = None
       \/ books[d][c.of].status # "conflict"
  BY <1>6, <1>9
<1>14. ASSUME NEW n \in Note, NEW b \in filed[n].content,
             b \in Notebook, shelf[b] # None, ~OnShelf(b), stamp[b] > stamp[n], filed[n].device = d
       PROVE  \/ stamp[b] > Reach(d) \/ notes'[d][n].status = "pending"
              \/ books'[d][b] = books[d][b]
  <2>1. CASE b = c.of
    BY <2>1, <1>2, <1>3, <1>14, RemapFacts
  <2>2. CASE b # c.of
    BY <2>2, <1>5, <1>9, <1>14
  <2> QED BY <2>1, <2>2
<1>15. /\ notes'[d] \in [Note -> NoteRecord]
       /\ \A n \in Note :
            \/ notes'[d][n] = notes[d][n] /\ (n = c.of => notes[d][n].status # "conflict")
            \/ notes'[d][n].status = "pending" /\ (notes[d][n].status # "conflict" \/ n = c.of)
  BY <1>2, <1>3, RemapFacts
<1>16. \A b \in Notebook \ {c.of} :
          \/ books'[d][b] = books[d][b] \/ Fresh(b)
          \/ books'[d][b] # None /\ books'[d][b].status = "synced"
  <2> SUFFICES ASSUME NEW b \in Notebook \ {c.of}, books'[d][b] # books[d][b], b # copy
               PROVE  books'[d][b] = r
    BY <1>2, <1>4
  <2> QED BY <1>8, Here
<1> QED BY <1>2, <1>9, <1>10, <1>12, <1>13, <1>14, <1>15, <1>16, ResolveFrame

LEMMA ResolveKeepsRefs ==
    ASSUME NEW d \in Device, RefsAllInv, Closed, Resolve(d)
    PROVE  RefsAllInv'
<1>1. PICK c \in conflicts[d] :
        \/ ResolveNote(d, c)
        \/ KeepLocalNotebook(d, c) \/ KeepRemoteNotebook(d, c)
        \/ KeepExisting(d, c)
        \/ \E copy \in Notebook : DuplicateNotebook(d, c, copy) \/ KeepAsCopy(d, c, copy)
  BY DEF Resolve
<1>2. c.reason = "duplicate_name" => c.of \in Notebook
  BY ConflictSides DEF NoteSides
<1>3. CASE KeepExisting(d, c)
  <2>1. c.of \in Notebook
    BY <1>2, <1>3 DEF KeepExisting
  <2> QED BY <1>3, <2>1, KeepExistingKeepsRefs
<1>4. ASSUME NEW copy \in Notebook, KeepAsCopy(d, c, copy) PROVE RefsAllInv'
  <2>1. c.of \in Notebook
    BY <1>2, <1>4 DEF KeepAsCopy
  <2> QED BY <1>4, <2>1, KeepAsCopyKeepsRefs
<1> QED BY <1>1, <1>3, <1>4, ResolveNoteKeepsRefs, KeepLocalKeepsRefs, KeepRemoteKeepsRefs,
           DuplicateKeepsRefs

LEMMA UserStepKeepsRefs ==
    ASSUME NEW d \in Device, RefsAllInv, UserStep(d)
    PROVE  RefsAllInv'
BY CreateKeepsRefs, RenameKeepsRefs, DeleteKeepsRefs, AssignKeepsRefs DEF UserStep

(***************************************************************************)
(* The sync of one device, but for its push.                               *)
(***************************************************************************)
LEMMA SidesStay ==
    ASSUME NEW d \in Device, RefsAllInv, shelf' = shelf, ops' = ops
    PROVE  \A c \in conflicts[d] : \/ c.of \in Note /\ NoteSides(c)'
                                   \/ c.of \in Notebook /\ BookSides(c)'
<1> SUFFICES ASSUME NEW c \in conflicts[d]
             PROVE  \/ c.of \in Note /\ NoteSides(c)'
                    \/ c.of \in Notebook /\ BookSides(c)'
  OBVIOUS
<1>1. \/ c.of \in Note /\ NoteSides(c)
      \/ c.of \in Notebook /\ BookSides(c)
  BY ConflictSides
<1>2. NoteSides(c) => NoteSides(c)'
  BY DEF NoteSides, NoteRecord
<1>3. BookSides(c) => BookSides(c)'
  BY DEF BookSides, BookRecord, Dated, SameDeletion, HasRow, Timed
<1> QED BY <1>1, <1>2, <1>3

LEMMA AbortKeepsRefs ==
    ASSUME NEW d \in Device, RefsAllInv, Abort(d)
    PROVE  RefsAllInv'
<1>1. /\ shelf' = shelf /\ filed' = filed /\ stamp' = stamp /\ lastRev' = lastRev
      /\ ops' = ops /\ ops \in Nat
      /\ books' = books /\ notes' = notes /\ conflicts' = conflicts /\ cursor' = cursor
      /\ stage[d] # "idle" /\ stage' = [stage EXCEPT ![d] = "idle"]
      /\ arrived' = [arrived EXCEPT ![d] = NothingArrived]
  BY Here DEF Abort, server
<1>2. ServerStill /\ OnlyDevice(d) /\ stage'[d] = "idle" /\ arrived'[d] = NothingArrived
  BY <1>1, Here DEF ServerStill, server, OnlyDevice, EveryDevice
<1>3. /\ Reach(d)' = cursor[d] /\ cursor[d] \in Nat /\ Reach(d) \in Nat
      /\ cursor[d] <= Reach(d) /\ Reach(d) <= lastRev /\ lastRev \in Nat
      /\ \A e \in Notebook \union Note : stamp[e] \in Nat
  BY <1>1, <1>2, Here DEF Reach, DeviceInv, DeviceTyped, ServerTyped
<1>4. DeviceTyped(d)'
  <2>1. \A b \in Notebook : books'[d][b] # None => Dated(books'[d][b], ops')
    BY <1>1 DEF RefsAllInv, DeviceInv, DeviceTyped
  <2>2. arrived'[d] \in [purged : SUBSET Notebook, deleted : SUBSET Notebook, next : Nat]
    BY <1>2 DEF NothingArrived
  <2>3. /\ books'[d] \in [Notebook -> BookRecord \union {None}]
        /\ notes'[d] \in [Note -> NoteRecord]
    BY <1>1, <1>2, <1>3, Here
  <2>4. /\ cursor'[d] \in Nat /\ stage'[d] \in {"idle", "pushed", "merged"}
        /\ cursor'[d] <= Reach(d)' /\ Reach(d)' <= lastRev'
    BY <1>1, <1>2, <1>3
  <2> QED BY <2>1, <2>2, <2>3, <2>4 DEF DeviceTyped, BookRecord, NoteRecord
<1>5. ConflictsInv(d)'
  <2>1. \A c \in conflicts[d] : \/ c.of \in Note /\ NoteSides(c)'
                                \/ c.of \in Notebook /\ BookSides(c)'
    BY <1>1, SidesStay
  <2> QED BY <1>1, <2>1 DEF RefsAllInv, DeviceInv, ConflictsInv
<1>6. CopyInv(d)'
  BY <1>1, <1>3 DEF RefsAllInv, DeviceInv, CopyInv
<1>7. DeletionInv(d)'
  BY <1>1, <1>2 DEF RefsAllInv, DeviceInv, DeletionInv, Unsettled, SameDeletion, HasRow, Timed
<1>8. HeldInv(d)'
  BY <1>1 DEF RefsAllInv, DeviceInv, HeldInv
<1>9. DeviceInv(d)'
  BY <1>4, <1>5, <1>6, <1>7, <1>8 DEF DeviceInv
<1>10. Unsent(d)' = Unsent(d)
  BY <1>1 DEF Unsent, Unsettled
<1>11. ASSUME NEW n \in Note, NEW b \in filed[n].content, b \in Notebook, Owed(d, n, b)
       PROVE  Owed(d, n, b)'
  BY <1>1, <1>3, <1>11 DEF Owed, StillOpen, Unsettled
<1> QED BY <1>2, <1>9, <1>10, <1>11, ClientFrame

LEMMA RepairKeepsRefs ==
    ASSUME NEW d \in Device, RefsAllInv, RepairAndSaveCursor(d)
    PROVE  RefsAllInv'
<1> DEFINE left(n) == Without(notes[d][n], Gone(d))
<1>1. /\ shelf' = shelf /\ filed' = filed /\ stamp' = stamp /\ lastRev' = lastRev
      /\ ops' = ops /\ ops \in Nat
      /\ books' = books /\ conflicts' = conflicts
      /\ notes' = [notes EXCEPT ![d] = [n \in Note |-> left(n)]]
      /\ cursor' = [cursor EXCEPT ![d] = arrived[d].next]
      /\ stage[d] = "merged" /\ stage' = [stage EXCEPT ![d] = "idle"]
      /\ arrived' = [arrived EXCEPT ![d] = NothingArrived]
  BY Here DEF RepairAndSaveCursor, server, bounds, EveryDevice
<1>2. /\ ServerStill /\ OnlyDevice(d) /\ stage'[d] = "idle" /\ arrived'[d] = NothingArrived
      /\ cursor'[d] = arrived[d].next /\ notes'[d] = [n \in Note |-> left(n)]
  BY <1>1, Here DEF ServerStill, server, OnlyDevice, EveryDevice
<1>3. /\ Reach(d)' = Reach(d) /\ cursor'[d] = Reach(d) /\ Reach(d) \in Nat
      /\ Reach(d) <= lastRev /\ lastRev \in Nat
      /\ \A e \in Notebook \union Note : stamp[e] \in Nat
  BY <1>1, <1>2, Here DEF Reach, DeviceInv, DeviceTyped, ServerTyped
<1>4. ASSUME NEW n \in Note
      PROVE  /\ left(n) \in NoteRecord
             /\ left(n).status = "conflict" <=> notes[d][n].status = "conflict"
             /\ notes[d][n].status = "pending" => left(n).status = "pending"
             /\ left(n).status = "synced" => left(n) = notes[d][n]
             /\ notes[d][n].status = "synced" /\ notes[d][n].content \intersect Gone(d) # {} =>
                  left(n).status = "pending"
  BY Here, WithoutFacts
<1> HIDE DEF left
<1>5. DeviceTyped(d)'
  <2>1. \A b \in Notebook : books'[d][b] # None => Dated(books'[d][b], ops')
    BY <1>1 DEF RefsAllInv, DeviceInv, DeviceTyped
  <2>2. arrived'[d] \in [purged : SUBSET Notebook, deleted : SUBSET Notebook, next : Nat]
    BY <1>2 DEF NothingArrived
  <2>3. /\ books'[d] \in [Notebook -> BookRecord \union {None}]
        /\ notes'[d] \in [Note -> NoteRecord]
    BY <1>1, <1>2, <1>3, <1>4, Here
  <2>4. /\ cursor'[d] \in Nat /\ stage'[d] \in {"idle", "pushed", "merged"}
        /\ cursor'[d] <= Reach(d)' /\ Reach(d)' <= lastRev'
    BY <1>1, <1>2, <1>3, <1>4
  <2> QED BY <2>1, <2>2, <2>3, <2>4 DEF DeviceTyped, BookRecord, NoteRecord
<1>6. ConflictsInv(d)'
  <2>1. \A c \in conflicts[d] : \/ c.of \in Note /\ NoteSides(c)'
                                \/ c.of \in Notebook /\ BookSides(c)'
    BY <1>1, SidesStay
  <2> QED BY <1>1, <1>2, <1>4, <2>1 DEF RefsAllInv, DeviceInv, ConflictsInv
<1>7. CopyInv(d)'
  BY <1>1, <1>2, <1>3, <1>4 DEF RefsAllInv, DeviceInv, CopyInv
<1>8. DeletionInv(d)'
  BY <1>1 DEF RefsAllInv, DeviceInv, DeletionInv, Unsettled, SameDeletion, HasRow, Timed
<1>9. HeldInv(d)'
  BY <1>1 DEF RefsAllInv, DeviceInv, HeldInv
<1>10. DeviceInv(d)'
  BY <1>5, <1>6, <1>7, <1>8, <1>9 DEF DeviceInv
<1>11. Unsent(d)' = Unsent(d)
  BY <1>1 DEF Unsent, Unsettled
<1>12. ASSUME NEW n \in Note, NEW b \in filed[n].content, b \in Notebook, stamp[b] > stamp[n],
              filed[n].device = d, Owed(d, n, b)
       PROVE  Owed(d, n, b)'
  <2>1. CASE b \in Gone(d)
    <3>1. \/ stamp[b] > Reach(d) \/ notes[d][n].status = "pending"
          \/ notes[d][n].status = "synced" /\ b \in notes[d][n].content
      BY <1>12, StillReferred
    <3>2. stamp[b] > Reach(d) \/ left(n).status = "pending"
      BY <3>1, <2>1, <1>4
    <3> QED BY <3>2, <1>1, <1>2, <1>3 DEF Owed
  <2>2. CASE b \notin Gone(d)
    BY <2>2, <1>1, <1>2, <1>3, <1>4, <1>12 DEF Owed, StillOpen, Unsettled
  <2> QED BY <2>1, <2>2
<1> QED BY <1>2, <1>10, <1>11, <1>12, ClientFrame

(* What a pull makes of the notebooks of the device: nothing that it has not
   settled is lost, and the rest is as on the server. *)
LEMMA PulledBooks ==
    ASSUME NEW d \in Device, RefsAllInv, Pull(d), NEW b \in Notebook
    PROVE  /\ books'[d][b] \in BookRecord \union {None}
           /\ Unsettled(d, b)' <=> Unsettled(d, b)
           /\ Unsettled(d, b) =>
                /\ books'[d][b].content = books[d][b].content
                /\ books'[d][b].life = books[d][b].life
                /\ books[d][b].base # 0 => books'[d][b].base # 0
                /\ books'[d][b].status = "conflict" =>
                     \/ books[d][b].status = "conflict"
                     \/ /\ b \in New(d) /\ HasRow(b)
                        /\ Diverged(books[d][b], shelf[b]) /\ shelf[b].device # d
                /\ \/ books[d][b].status = "conflict"
                   \/ /\ b \in New(d) /\ HasRow(b)
                      /\ Diverged(books[d][b], shelf[b]) /\ shelf[b].device # d
                   => books'[d][b].status = "conflict"
           /\ books[d][b] # None /\ books'[d][b] = None => b \in New(d)
           /\ ~Unsettled(d, b) /\ books'[d][b] # None =>
                \/ books'[d][b] = books[d][b]
                \/ HasRow(b) /\ books'[d][b] = Synced(shelf[b])
           /\ ~Unsettled(d, b) /\ b \in New(d) =>
                books'[d][b] = IF HasRow(b) THEN Synced(shelf[b]) ELSE None
           /\ shelf[b] = None /\ Unsettled(d, b) => books'[d][b] = books[d][b]
<1> DEFINE l == books[d][b]
           m == books'[d][b]
<1>1. /\ l \in BookRecord \union {None}
      /\ HasRow(b) => /\ shelf[b].content \in Named \union Deleted
                      /\ shelf[b].life \in {"active", "deleted"}
                      /\ shelf[b].version \in Nat
  BY Here DEF ServerTyped, HasRow, Row
<1>2. m = IF b \in New(d) /\ HasRow(b) THEN Merged(d, l, shelf[b])
          ELSE IF b \in New(d) /\ ~HasRow(b) /\ l # None /\ l.status = "synced"
          THEN None ELSE l
  BY Here DEF Pull, EveryDevice
<1>3. \A x \in BookRecord : x # None
  BY NoneAssumption DEF BookRecord
<1>4. CASE b \in New(d) /\ HasRow(b)
  <2>1. m = Merged(d, l, shelf[b])
    BY <1>2, <1>4
  <2>2. /\ m \in BookRecord
        /\ l = None => m = Synced(shelf[b])
        /\ l # None /\ l.status = "synced" => m = Synced(shelf[b])
        /\ l # None /\ l.status # "synced" =>
             /\ m.content = l.content /\ m.life = l.life
             /\ l.base # 0 => m.base # 0
             /\ m.status = IF Diverged(l, shelf[b]) /\ shelf[b].device # d
                           THEN "conflict" ELSE l.status
    BY <1>1, <1>4, <2>1, MergedFacts DEF BookRecord
  <2>3. m # None /\ Synced(shelf[b]).status = "synced"
    BY <1>3, <2>2 DEF Synced
  <2> HIDE DEF l, m
  <2>4. Unsettled(d, b)' <=> Unsettled(d, b)
    BY <2>2, <2>3 DEF Unsettled, l, m
  <2>5. Unsettled(d, b) <=> (l # None /\ l.status # "synced")
    BY DEF Unsettled, l
  <2>6. shelf[b] # None
    BY <1>4 DEF HasRow
  <2> QED BY <1>4, <2>2, <2>3, <2>4, <2>5, <2>6 DEF l, m
<1>5. CASE ~(b \in New(d) /\ HasRow(b))
  <2>1. m = IF b \in New(d) /\ l # None /\ l.status = "synced" THEN None ELSE l
    BY <1>2, <1>5
  <2> QED BY <1>1, <1>5, <2>1 DEF Unsettled
<1> QED BY <1>4, <1>5

LEMMA PulledNotes ==
    ASSUME NEW d \in Device, RefsAllInv, Pull(d), NEW n \in Note
    PROVE  /\ notes'[d][n] \in NoteRecord
           /\ notes[d][n].status = "synced" => notes'[d][n].status = "synced"
           /\ notes[d][n].status = "conflict" => notes'[d][n].status = "conflict"
           /\ notes'[d][n].status = "conflict" =>
                \/ notes[d][n].status = "conflict"
                \/ /\ n \in New(d) /\ Diverged(notes[d][n], filed[n]) /\ filed[n].device # d
           /\ notes[d][n].status # "synced" => notes'[d][n].status # "synced"
           /\ notes[d][n].status = "pending" /\ filed[n].device = d => notes'[d][n].status = "pending"
           /\ Diverged(notes[d][n], filed[n]) /\ filed[n].device # d /\ n \in New(d) =>
                notes'[d][n].status = "conflict"
           /\ notes[d][n].status = "synced" =>
                notes'[d][n].content = IF n \in New(d) THEN filed[n].content
                                       ELSE notes[d][n].content
<1> DEFINE l == notes[d][n]
           m == notes'[d][n]
<1>1. /\ l \in NoteRecord /\ filed[n].content \in SUBSET Notebook
      /\ filed[n].life \in {"active", "deleted"} /\ filed[n].version \in Nat
  BY Here DEF ServerTyped, NoteRow
<1>2. m = IF n \in New(d) THEN Merged(d, l, filed[n]) ELSE l
  BY Here DEF Pull, EveryDevice
<1>3. l # None
  BY <1>1, NoneAssumption DEF NoteRecord
<1>4. CASE n \in New(d)
  <2>1. m = Merged(d, l, filed[n])
    BY <1>2, <1>4
  <2>2. /\ m \in NoteRecord
        /\ l.status = "synced" => m = Synced(filed[n])
        /\ l.status # "synced" =>
             m.status = IF Diverged(l, filed[n]) /\ filed[n].device # d
                           THEN "conflict" ELSE l.status
    BY <1>1, <1>3, <2>1, MergedFacts DEF NoteRecord
  <2>3. Synced(filed[n]).status = "synced" /\ Synced(filed[n]).content = filed[n].content
    BY DEF Synced
  <2>4. Diverged(l, filed[n]) => l.status = "pending"
    BY DEF Diverged
  <2> HIDE DEF l, m
  <2> QED BY <1>4, <2>2, <2>3, <2>4 DEF l, m
<1>5. CASE n \notin New(d)
  BY <1>1, <1>2, <1>5
<1> QED BY <1>4, <1>5

LEMMA PullKeepsRefs ==
    ASSUME NEW d \in Device, RefsAllInv, StillbornInv, Pull(d)
    PROVE  RefsAllInv'
<1> DEFINE purged == {b \in New(d) \intersect Notebook : ~HasRow(b)}
           rows == (New(d) \intersect Notebook) \ purged
           fromBooks == MergeConflicts(d, books[d], shelf, rows)
           fromNotes == MergeConflicts(d, notes[d], filed, New(d) \intersect Note)
<1>1. /\ shelf' = shelf /\ filed' = filed /\ stamp' = stamp /\ lastRev' = lastRev
      /\ ops' = ops /\ ops \in Nat /\ cursor' = cursor
      /\ stage[d] = "pushed" /\ stage' = [stage EXCEPT ![d] = "merged"]
  BY Here DEF Pull, server, bounds
<1>2. conflicts' = [conflicts EXCEPT ![d] = @ \union fromBooks \union fromNotes]
  BY DEF Pull
<1>3. arrived' = [arrived EXCEPT ![d] =
                    [purged |-> {b \in purged : books'[d][b] = None},
                     deleted |-> {b \in rows : shelf[b].life = "deleted"},
                     next |-> lastRev]]
  BY Here DEF Pull, NextCursor, EveryDevice
<1>4. ServerStill /\ OnlyDevice(d)
  <2>1. EveryDevice'
    BY Here DEF Pull, EveryDevice
  <2>2. \A e \in Device \ {d} :
          /\ books'[e] = books[e] /\ notes'[e] = notes[e]
          /\ conflicts'[e] = conflicts[e] /\ cursor'[e] = cursor[e]
          /\ stage'[e] = stage[e] /\ arrived'[e] = arrived[e]
    BY Here DEF Pull, EveryDevice
  <2> QED BY <1>1, <2>1, <2>2 DEF ServerStill, server, OnlyDevice
<1>5. /\ stage'[d] = "merged" /\ cursor'[d] = cursor[d]
      /\ conflicts'[d] = conflicts[d] \union fromBooks \union fromNotes
      /\ arrived'[d].purged = {b \in purged : books'[d][b] = None}
      /\ arrived'[d].deleted = {b \in rows : shelf[b].life = "deleted"}
      /\ arrived'[d].next = lastRev
      /\ arrived'[d] \in [purged : SUBSET Notebook, deleted : SUBSET Notebook, next : Nat]
  <2>1. lastRev \in Nat
    BY Here DEF ServerTyped
  <2>2. arrived'[d] = [purged |-> {b \in purged : books'[d][b] = None},
                       deleted |-> {b \in rows : shelf[b].life = "deleted"},
                       next |-> lastRev]
    BY <1>3, Here DEF EveryDevice
  <2> QED BY <1>1, <1>2, <2>1, <2>2, Here DEF EveryDevice
<1>6. /\ Reach(d) = cursor[d] /\ Reach(d)' = lastRev /\ cursor[d] \in Nat /\ lastRev \in Nat
      /\ cursor[d] <= lastRev
      /\ \A e \in Notebook \union Note : stamp[e] \in Nat /\ stamp[e] <= lastRev
      /\ \A e \in Notebook \union Note : e \in New(d) <=> stamp[e] > cursor[d]
  BY <1>1, <1>5, Here DEF Reach, DeviceInv, DeviceTyped, ServerTyped, New
<1>7. \A c \in fromBooks : \E b \in rows :
        /\ c = Stored(d, Conflict(b, "remote_changed", shelf[b], b))
        /\ books[d][b] # None /\ Diverged(books[d][b], shelf[b])
  BY DEF MergeConflicts
<1>8. \A c \in fromNotes : \E n \in New(d) \intersect Note :
        /\ c = Stored(d, Conflict(n, "remote_changed", filed[n], n))
        /\ Diverged(notes[d][n], filed[n]) /\ filed[n].device # d
  BY DEF MergeConflicts
<1>9. \A b \in rows : (books[d][b] # None /\ Diverged(books[d][b], shelf[b])
                       /\ shelf[b].device # d) => \E c \in fromBooks : c.of = b
  <2> SUFFICES ASSUME NEW b \in rows, books[d][b] # None, Diverged(books[d][b], shelf[b]),
                      shelf[b].device # d
               PROVE  \E c \in fromBooks : c.of = b
    OBVIOUS
  <2> DEFINE c == Stored(d, Conflict(b, "remote_changed", shelf[b], b))
  <2>1. c \in fromBooks
    BY DEF MergeConflicts
  <2>2. c.of = b
    BY DEF Stored, Conflict
  <2> QED BY <2>1, <2>2
<1>10. \A n \in New(d) \intersect Note : (Diverged(notes[d][n], filed[n])
                       /\ filed[n].device # d) => \E c \in fromNotes : c.of = n
  <2> SUFFICES ASSUME NEW n \in New(d) \intersect Note, Diverged(notes[d][n], filed[n]),
                      filed[n].device # d
               PROVE  \E c \in fromNotes : c.of = n
    OBVIOUS
  <2> DEFINE c == Stored(d, Conflict(n, "remote_changed", filed[n], n))
  <2>1. notes[d][n] # None
    BY Here, NoneAssumption DEF NoteRecord
  <2>2. c \in fromNotes
    BY <2>1 DEF MergeConflicts
  <2>3. c.of = n
    BY DEF Stored, Conflict
  <2> QED BY <2>2, <2>3
<1>11. \A b \in Notebook : b \in New(d) => (b \in rows <=> HasRow(b)) /\ (b \in purged <=> ~HasRow(b))
  OBVIOUS
<1>12. \A b \in Notebook : SameDeletion(books[d][b], b) => ~Unsettled(d, b)
  BY <1>1 DEF RefsAllInv, DeviceInv, DeletionInv
<1>13. /\ \A c \in fromBooks : /\ c.of \in Notebook /\ BookSides(c)
                               /\ Unsettled(d, c.of) /\ c.mine = books[d][c.of]
       /\ \A c \in fromNotes :
            /\ c.of \in Note /\ NoteSides(c)
            /\ c.of \in New(d) /\ filed[c.of].device # d /\ Diverged(notes[d][c.of], filed[c.of])
            /\ c = Stored(d, Conflict(c.of, "remote_changed", filed[c.of], c.of))
  <2>1. ASSUME NEW c \in fromBooks
        PROVE  c.of \in Notebook /\ BookSides(c) /\ Unsettled(d, c.of) /\ c.mine = books[d][c.of]
    <3>1. PICK b \in rows :
            /\ c = Stored(d, Conflict(b, "remote_changed", shelf[b], b))
            /\ books[d][b] # None /\ Diverged(books[d][b], shelf[b])
      BY <1>7
    <3>2. /\ c.of = b /\ c.other = b /\ c.reason = "remote_changed" /\ c.theirs = shelf[b]
          /\ c.mine = books[d][b] /\ b \in Notebook /\ HasRow(b)
      BY <3>1 DEF Stored, Conflict
    <3>3. Unsettled(d, b)
      BY <3>1 DEF Unsettled, Diverged
    <3>4. /\ books[d][b] \in BookRecord /\ Dated(books[d][b], ops)
          /\ shelf[b] \in Row /\ shelf[b] # None /\ shelf[b].life # "purged"
          /\ Dated(shelf[b], ops)
      BY <3>1, <3>2, Here DEF DeviceInv, DeviceTyped, ServerTyped, HasRow
    <3>5. Timed(books[d][b]) /\ ~SameDeletion(books[d][b], b)
      BY <1>12, <3>2, <3>3 DEF RefsAllInv, DeviceInv, DeletionInv
    <3> QED BY <3>2, <3>3, <3>4, <3>5 DEF BookSides
  <2>2. ASSUME NEW c \in fromNotes
        PROVE  /\ c.of \in Note /\ NoteSides(c)
               /\ c.of \in New(d) /\ filed[c.of].device # d
               /\ Diverged(notes[d][c.of], filed[c.of])
               /\ c = Stored(d, Conflict(c.of, "remote_changed", filed[c.of], c.of))
    <3>1. PICK n \in New(d) \intersect Note :
            /\ c = Stored(d, Conflict(n, "remote_changed", filed[n], n))
            /\ Diverged(notes[d][n], filed[n]) /\ filed[n].device # d
      BY <1>8
    <3>2. /\ c.of = n /\ c.other = n /\ c.reason = "remote_changed" /\ c.theirs = filed[n]
          /\ n \in Note /\ n \notin Notebook
      BY <3>1, NotebookBounds DEF Stored, Conflict
    <3>3. c.mine = notes[d][n]
      BY <3>1, <3>2 DEF Stored, Conflict
    <3>4. notes[d][n] \in NoteRecord /\ filed[n] \in NoteRow
      BY <3>2, Here DEF ServerTyped
    <3> QED BY <3>1, <3>2, <3>3, <3>4 DEF NoteSides
  <2> QED BY <2>1, <2>2
<1>24. \A c \in fromBooks :
          /\ c.of \in Notebook /\ c.of \in New(d) /\ HasRow(c.of) /\ books[d][c.of] # None
          /\ c = Stored(d, Conflict(c.of, "remote_changed", shelf[c.of], c.of))
          /\ Diverged(books[d][c.of], shelf[c.of]) /\ shelf[c.of].device # d
  <2> SUFFICES ASSUME NEW c \in fromBooks
               PROVE  \E b \in rows :
                         /\ c.of = b /\ books[d][b] # None
                         /\ c = Stored(d, Conflict(b, "remote_changed", shelf[b], b))
                         /\ Diverged(books[d][b], shelf[b]) /\ shelf[b].device # d
    OBVIOUS
  <2>1. PICK b \in rows :
            /\ c = Stored(d, Conflict(b, "remote_changed", shelf[b], b))
            /\ books[d][b] # None /\ Diverged(books[d][b], shelf[b]) /\ shelf[b].device # d
    BY DEF MergeConflicts
  <2>2. c.of = b
    BY <2>1 DEF Stored, Conflict
  <2> QED BY <2>1, <2>2
<1> HIDE DEF purged, rows, fromBooks, fromNotes
<1>14. DeviceTyped(d)'
  <2>1. ASSUME NEW b \in Notebook, books'[d][b] # None PROVE Dated(books'[d][b], ops)
    <3>1. CASE Unsettled(d, b)
      <4>1. /\ books'[d][b].content = books[d][b].content
            /\ books'[d][b].life = books[d][b].life /\ Dated(books[d][b], ops)
        BY <3>1, PulledBooks, Here DEF DeviceInv, DeviceTyped, Unsettled
      <4> QED BY <4>1 DEF Dated
    <3>2. CASE ~Unsettled(d, b) /\ books'[d][b] = books[d][b]
      BY <2>1, <3>2, Here DEF DeviceInv, DeviceTyped
    <3>3. CASE HasRow(b) /\ books'[d][b] = Synced(shelf[b])
      <4>1. Dated(shelf[b], ops)
        BY <3>3, Here DEF ServerTyped, HasRow
      <4> QED BY <3>3, <4>1 DEF Dated, Synced
    <3> QED BY <2>1, <3>1, <3>2, <3>3, PulledBooks
  <2>2. \A b \in Notebook : books'[d][b] # None => Dated(books'[d][b], ops')
    BY <1>1, <2>1
  <2>3. /\ books'[d] \in [Notebook -> BookRecord \union {None}]
        /\ notes'[d] \in [Note -> NoteRecord]
    <3>1. \E f, g : books'[d] = [b \in Notebook |-> f[b]] /\ notes'[d] = [n \in Note |-> g[n]]
      <4> DEFINE f == [b \in Notebook |-> books'[d][b]]
                 g == [n \in Note |-> notes'[d][n]]
      <4>1. books'[d] = f /\ notes'[d] = g
        BY Here DEF Pull, EveryDevice
      <4> QED BY <4>1
    <3>2. \A b \in Notebook : books'[d][b] \in BookRecord \union {None}
      BY PulledBooks
    <3>3. \A n \in Note : notes'[d][n] \in NoteRecord
      BY PulledNotes
    <3> QED BY <3>1, <3>2, <3>3
  <2>4. /\ cursor'[d] \in Nat /\ stage'[d] \in {"idle", "pushed", "merged"}
        /\ cursor'[d] <= Reach(d)' /\ Reach(d)' <= lastRev'
    BY <1>1, <1>5, <1>6
  <2> QED BY <1>5, <2>2, <2>3, <2>4 DEF DeviceTyped, BookRecord, NoteRecord
<1>15. ConflictsInv(d)'
  <2>0. /\ \A n \in Note : notes[d][n].status = "conflict" =>
                filed[n].device # d /\ \E c \in conflicts[d] : c.of = n
        /\ \A c \in conflicts[d] : c.of \in Note => notes[d][c.of].status = "conflict"
        /\ \A c, e \in conflicts[d] : c.of \in Note /\ c.of = e.of => c = e
        /\ \A b \in Notebook : (books[d][b] # None /\ books[d][b].status = "conflict") =>
                \E c \in conflicts[d] : c.of = b
    BY DEF RefsAllInv, DeviceInv, ConflictsInv
  <2>1. ASSUME NEW c \in conflicts'[d]
        PROVE  \/ c.of \in Note /\ NoteSides(c)'
               \/ c.of \in Notebook /\ BookSides(c)'
    <3>1. NoteSides(c) => NoteSides(c)'
      BY DEF NoteSides, NoteRecord
    <3>2. BookSides(c) => BookSides(c)'
      BY <1>1 DEF BookSides, BookRecord, Dated, SameDeletion, HasRow, Timed
    <3>3. CASE c \in conflicts[d]
      BY <3>3, <1>1, SidesStay
    <3>4. CASE c \in fromBooks \/ c \in fromNotes
      BY <3>1, <3>2, <3>4, <1>13
    <3> QED BY <3>3, <3>4, <1>5
  <2>2. ASSUME NEW n \in Note, notes'[d][n].status = "conflict"
        PROVE  filed[n].device # d /\ \E c \in conflicts'[d] : c.of = n
    <3>1. CASE notes[d][n].status = "conflict"
      BY <3>1, <2>0, <1>5
    <3>2. CASE n \in New(d) /\ Diverged(notes[d][n], filed[n]) /\ filed[n].device # d
      BY <3>2, <1>10, <1>5
    <3> QED BY <3>1, <3>2, <2>2, PulledNotes
  <2>3. ASSUME NEW c \in conflicts'[d], c.of \in Note PROVE notes'[d][c.of].status = "conflict"
    <3>1. CASE c \in conflicts[d]
      BY <3>1, <2>0, <2>3, PulledNotes
    <3>2. CASE c \in fromNotes
      BY <3>2, <2>3, <1>13, PulledNotes
    <3> QED BY <3>1, <3>2, <2>3, <1>5, <1>13, NotebookBounds
  <2>4. ASSUME NEW c \in conflicts'[d], NEW e \in conflicts'[d], c.of \in Note, c.of = e.of
        PROVE  c = e
    <3>1. ASSUME NEW x \in conflicts'[d], x.of \in Note PROVE x \in conflicts[d] \/ x \in fromNotes
      BY <3>1, <1>5, <1>13, NotebookBounds
    <3>2. \A x \in fromNotes : notes[d][x.of].status = "pending"
      BY <1>13 DEF Diverged
    <3>3. \A x \in conflicts[d] : x.of \in Note => notes[d][x.of].status # "pending"
      BY <2>0
    <3> QED BY <2>4, <2>0, <3>1, <3>2, <3>3, <1>13
  <2>5. ASSUME NEW b \in Notebook, books'[d][b] # None, books'[d][b].status = "conflict"
        PROVE  \E c \in conflicts'[d] : c.of = b
    <3>1. Unsettled(d, b)' 
      BY <2>5 DEF Unsettled
    <3>2. Unsettled(d, b) /\ books[d][b] # None
      BY <3>1, PulledBooks DEF Unsettled
    <3>3. CASE books[d][b].status = "conflict"
      BY <3>2, <3>3, <2>0, <1>5
    <3>4. CASE /\ b \in New(d) /\ HasRow(b)
               /\ Diverged(books[d][b], shelf[b]) /\ shelf[b].device # d
      <4>1. b \in rows
        BY <3>4, <1>11
      <4>2. \E c \in fromBooks : c.of = b
        BY <4>1, <3>2, <3>4, <1>9
      <4> QED BY <4>2, <1>5
    <3> QED BY <3>2, <3>3, <3>4, <2>5, PulledBooks
  <2> QED BY <2>1, <2>2, <2>3, <2>4, <2>5, <1>1 DEF ConflictsInv
<1>16. CopyInv(d)'
  <2> SUFFICES ASSUME NEW n \in Note, notes'[d][n].status = "synced"
               PROVE  notes'[d][n].content = filed[n].content
    BY <1>1 DEF CopyInv
  <2>1. notes[d][n].status = "synced"
    BY PulledNotes
  <2>2. notes'[d][n].content = IF n \in New(d) THEN filed[n].content ELSE notes[d][n].content
    BY <2>1, PulledNotes
  <2>3. notes[d][n].content = filed[n].content \/ stamp[n] > cursor[d]
    BY <2>1, <1>6 DEF RefsAllInv, DeviceInv, CopyInv
  <2> QED BY <2>2, <2>3, <1>6
<1>17. DeletionInv(d)'
  <2> SUFFICES ASSUME NEW b \in Notebook, Unsettled(d, b)'
               PROVE  Timed(books'[d][b]) /\ ~SameDeletion(books'[d][b], b)
    BY <1>1 DEF DeletionInv, SameDeletion, HasRow, Timed
  <2>1. Unsettled(d, b) /\ books'[d][b].content = books[d][b].content
        /\ books'[d][b].life = books[d][b].life
    BY PulledBooks
  <2> QED BY <2>1, <1>12 DEF Timed, SameDeletion, RefsAllInv, DeviceInv, DeletionInv
<1>18. \A b \in Notebook : StillOpen(d, b) => StillOpen(d, b)'
  BY PulledBooks DEF StillOpen
<1>19. \A b \in Notebook : Unsettled(d, b) /\ shelf[b] # None => StillOpen(d, b)
  <2> SUFFICES ASSUME NEW b \in Notebook, Unsettled(d, b), shelf[b] # None
               PROVE  books[d][b].base # 0 \/ books[d][b].life = "active"
    BY DEF StillOpen
  <2>1. books[d][b] # None /\ ~Stillborn(d, b)
    BY DEF StillbornInv, Unsettled
  <2>2. books[d][b].life \in {"active", "deleted"}
    BY <2>1, Here DEF BookRecord, Local
  <2> QED BY <2>1, <2>2 DEF Stillborn
<1>20. HeldInv(d)'
  <2>0. /\ \A c, e \in conflicts[d] : c.of \in Notebook /\ c.of = e.of => c = e
        /\ \A c \in conflicts[d] : c.of \in Notebook =>
              /\ shelf[c.of] # None \/ books[d][c.of] # None
              /\ books[d][c.of] # None => books[d][c.of].status # "pending"
    BY DEF RefsAllInv, DeviceInv, HeldInv
  <2>1. \A c \in fromBooks : /\ c.of \in Notebook /\ c.of \in New(d)
                             /\ c = Stored(d, Conflict(c.of, "remote_changed", shelf[c.of], c.of))
                             /\ Diverged(books[d][c.of], shelf[c.of]) /\ shelf[c.of].device # d
                             /\ HasRow(c.of) /\ books[d][c.of] # None
    BY <1>24
  <2>2. \A c \in conflicts'[d] : c.of \in Notebook => c \in conflicts[d] \/ c \in fromBooks
    BY <1>5, <1>13, NotebookBounds
  <2>3. \A c \in fromBooks : books[d][c.of].status = "pending"
    BY <2>1 DEF Diverged
  <2>4. ASSUME NEW c \in conflicts'[d], NEW e \in conflicts'[d], c.of \in Notebook, c.of = e.of
        PROVE  c = e
    BY <2>0, <2>1, <2>2, <2>3, <2>4
  <2>5. ASSUME NEW c \in conflicts'[d], c.of \in Notebook
        PROVE  /\ shelf[c.of] # None \/ books'[d][c.of] # None
               /\ books'[d][c.of] # None => books'[d][c.of].status # "pending"
    <3>1. CASE c \in fromBooks
      <4>1. c.of \in New(d) /\ HasRow(c.of) /\ books[d][c.of] # None
            /\ Diverged(books[d][c.of], shelf[c.of]) /\ shelf[c.of].device # d
        BY <3>1, <2>1
      <4>2. Unsettled(d, c.of)
        BY <4>1 DEF Unsettled, Diverged
      <4>3. books'[d][c.of].status = "conflict"
        BY <4>1, <4>2, <2>5, PulledBooks
      <4>4. shelf[c.of] # None
        BY <4>1 DEF HasRow
      <4> QED BY <4>3, <4>4
    <3>2. CASE c \in conflicts[d]
      <4>1. books'[d][c.of] = None => books[d][c.of] = None \/ shelf[c.of] # None
        <5>1. CASE c.of \in New(d)
          <6>1. stamp[c.of] > cursor[d] /\ cursor[d] \in Nat /\ stamp[c.of] \in Nat
            BY <5>1, <2>5, Here DEF New, DeviceInv, DeviceTyped, ServerTyped
          <6>2. stamp[c.of] > 0
            BY <6>1
          <6> QED BY <6>2, <2>5, Here DEF ServerTyped
        <5>2. CASE c.of \notin New(d)
          BY <5>2, <2>5, PulledBooks
        <5> QED BY <5>1, <5>2
      <4>2. ASSUME books'[d][c.of] # None PROVE books'[d][c.of].status # "pending"
        <5>1. CASE Unsettled(d, c.of)
          <6>1. books[d][c.of] # None /\ books[d][c.of].status # "pending"
            BY <5>1, <2>0, <2>5, <3>2 DEF Unsettled
          <6>2. books[d][c.of].status \in {"pending", "synced", "conflict"}
            BY <6>1, <2>5, Here DEF BookRecord, Local, Status
          <6>3. books[d][c.of].status = "conflict"
            BY <5>1, <6>1, <6>2 DEF Unsettled
          <6>4. books'[d][c.of].status = "conflict"
            BY <5>1, <6>3, <2>5, PulledBooks
          <6> QED BY <6>4
        <5>2. CASE ~Unsettled(d, c.of)
          <6>1. ~Unsettled(d, c.of)'
            BY <5>2, <2>5, PulledBooks
          <6> QED BY <6>1, <4>2 DEF Unsettled
        <5> QED BY <5>1, <5>2
      <4> QED BY <2>0, <2>5, <3>2, <4>1, <4>2
    <3> QED BY <2>2, <2>5, <3>1, <3>2
  <2> QED BY <2>4, <2>5, <1>1 DEF HeldInv
<1>21. DeviceInv(d)'
  BY <1>14, <1>15, <1>16, <1>17, <1>20 DEF DeviceInv
<1>22. \A t \in Unsent(d)' : t \in Unsent(d)
  <2> SUFFICES ASSUME NEW t \in Unsent(d)' PROVE t \in Unsent(d)
    OBVIOUS
  <2>1. t \in Int /\ t < 0
    BY DEF Unsent
  <2>2. CASE \E b \in Notebook : Unsettled(d, b)' /\ t \in books'[d][b].content
    BY <2>1, <2>2, PulledBooks DEF Unsent
  <2>3. CASE \E c \in conflicts'[d] : c.of \in Notebook /\ t \in c.mine.content
    <3>1. PICK c \in conflicts'[d] : c.of \in Notebook /\ t \in c.mine.content
      BY <2>3
    <3>2. CASE c \in conflicts[d]
      BY <2>1, <3>1, <3>2 DEF Unsent
    <3>3. CASE c \in fromBooks
      BY <2>1, <3>1, <3>3, <1>13 DEF Unsent
    <3> QED BY <3>1, <3>2, <3>3, <1>5, <1>13, NotebookBounds
  <2> QED BY <2>2, <2>3 DEF Unsent
<1>23. ASSUME NEW n \in Note, NEW b \in filed[n].content, b \in Notebook, shelf[b] # None,
              ~OnShelf(b), filed[n].device = d, Owed(d, n, b)
       PROVE  Owed(d, n, b)'
  <2>1. CASE notes[d][n].status = "pending"
    BY <2>1, <1>23, PulledNotes DEF Owed
  <2>2. CASE StillOpen(d, b)
    BY <2>2, <1>18, <1>23 DEF Owed
  <2>3. CASE stamp[b] > cursor[d] /\ ~Unsettled(d, b)
    <3>1. b \in New(d)
      BY <2>3, <1>6, <1>23
    <3>2. books'[d][b] = IF HasRow(b) THEN Synced(shelf[b]) ELSE None
      BY <2>3, <3>1, <1>23, PulledBooks
    <3>3. CASE ~HasRow(b)
      BY <3>1, <3>2, <3>3, <1>1, <1>5, <1>11, <1>23, <2>3 DEF Owed, Gone
    <3>4. CASE HasRow(b)
      <4>1. shelf[b].life = "deleted" /\ shelf[b].content \in Named \union Deleted
            /\ shelf[b].version \in Nat
        BY <3>4, <1>23, Here DEF OnShelf, HasRow, ServerTyped, Row
      <4>2. /\ books'[d][b] \in BookRecord /\ books'[d][b].life = "deleted"
            /\ books'[d][b].status = "synced"
        BY <3>2, <3>4, <4>1, SyncedFacts DEF BookRecord
      <4>3. books'[d][b] # None
        BY <4>2, NoneAssumption DEF BookRecord
      <4>4. b \in rows
        BY <3>1, <3>4, <1>11, <1>23
      <4>5. b \in arrived'[d].deleted
        BY <4>1, <4>4, <1>5
      <4>6. b \in Gone(d)'
        BY <4>2, <4>3, <4>5 DEF Gone
      <4> QED BY <4>6, <1>1, <1>5, <2>3 DEF Owed
    <3> QED BY <3>3, <3>4
  <2>4. stamp[b] > cursor[d] \/ notes[d][n].status = "pending" \/ StillOpen(d, b)
    BY <1>1, <1>6, <1>23 DEF Owed
  <2> QED BY <2>1, <2>2, <2>3, <2>4, <1>19, <1>23
<1> QED BY <1>4, <1>21, <1>22, <1>23, ClientFrame

(***************************************************************************)
(* A step of the server behind the back of device e: what it changes gets a *)
(* revision after all others, and no row that e has filed changes hands.    *)
(***************************************************************************)
BehindBack(e) ==
    /\ books'[e] = books[e] /\ notes'[e] = notes[e] /\ conflicts'[e] = conflicts[e]
    /\ cursor'[e] = cursor[e] /\ stage'[e] = stage[e] /\ arrived'[e] = arrived[e]
    /\ ops' = ops /\ lastRev' >= lastRev /\ ServerTyped'
    /\ \A x \in Notebook \union Note : stamp'[x] = stamp[x] \/ stamp'[x] > lastRev
    /\ \A b \in Notebook :
          /\ shelf[b] # None => shelf'[b] # None
          /\ shelf'[b] = shelf[b] \/ stamp'[b] > lastRev
          /\ \/ shelf'[b] = shelf[b] \/ ~HasRow(b)'
             \/ \A t \in shelf'[b].content : t < 0 => t \notin Unsent(e)
    /\ \A n \in Note : \/ filed'[n] = filed[n] /\ stamp'[n] = stamp[n]
                       \/ filed'[n].device # e /\ stamp'[n] > lastRev

LEMMA ServerFrame ==
    ASSUME NEW e \in Device, RefsAllInv, BehindBack(e)
    PROVE  /\ DeviceInv(e)'
           /\ Unsent(e)' = Unsent(e)
           /\ \A n \in Note : \A b \in filed'[n].content : filed'[n].device = e =>
                /\ shelf'[b] # None
                /\ ~OnShelf(b)' => stamp'[b] > stamp'[n] /\ Owed(e, n, b)'
<1>1. /\ books'[e] = books[e] /\ notes'[e] = notes[e] /\ conflicts'[e] = conflicts[e]
      /\ cursor'[e] = cursor[e] /\ stage'[e] = stage[e] /\ arrived'[e] = arrived[e]
      /\ ops' = ops /\ lastRev' >= lastRev /\ ServerTyped'
  BY DEF BehindBack
<1>2. /\ Reach(e)' = Reach(e) /\ Reach(e) \in Nat /\ Reach(e) <= lastRev /\ cursor[e] \in Nat
      /\ cursor[e] <= Reach(e) /\ lastRev \in Nat /\ lastRev' \in Nat
      /\ \A x \in Notebook \union Note : /\ stamp[x] \in Nat /\ stamp[x] <= lastRev
                                         /\ stamp'[x] \in Nat
  BY <1>1, Here DEF Reach, DeviceInv, DeviceTyped, ServerTyped
<1>3. Unsent(e)' = Unsent(e)
  BY <1>1 DEF Unsent, Unsettled
<1>4. ASSUME NEW r, NEW b \in Notebook, Timed(r), SameDeletion(r, b)',
             \A t \in r.content : t < 0 => t \in Unsent(e)
      PROVE  SameDeletion(r, b)
  <2>1. /\ r.life = "deleted" /\ HasRow(b)' /\ shelf'[b].life = "deleted"
        /\ shelf'[b].content = r.content
    BY <1>4 DEF SameDeletion
  <2>2. PICK t \in r.content : t < 0
    BY <2>1, <1>4 DEF Timed
  <2>3. t \in shelf'[b].content /\ t \in Unsent(e)
    BY <2>1, <2>2, <1>4
  <2>4. shelf'[b] = shelf[b]
    BY <2>1, <2>2, <2>3 DEF BehindBack
  <2> QED BY <2>1, <2>4 DEF SameDeletion, HasRow
<1>5. DeviceTyped(e)'
  <2>1. \A b \in Notebook : books'[e][b] # None => Dated(books'[e][b], ops')
    BY <1>1 DEF RefsAllInv, DeviceInv, DeviceTyped
  <2>2. /\ books'[e] \in [Notebook -> BookRecord \union {None}]
        /\ notes'[e] \in [Note -> NoteRecord]
    BY <1>1, Here
  <2>3. arrived'[e] \in [purged : SUBSET Notebook, deleted : SUBSET Notebook, next : Nat]
    BY <1>1, Here DEF DeviceInv, DeviceTyped
  <2>4. /\ cursor'[e] \in Nat /\ stage'[e] \in {"idle", "pushed", "merged"}
        /\ cursor'[e] <= Reach(e)' /\ Reach(e)' <= lastRev'
    BY <1>1, <1>2, Here DEF DeviceInv, DeviceTyped
  <2> QED BY <2>1, <2>2, <2>3, <2>4 DEF DeviceTyped, BookRecord, NoteRecord
<1>6. ConflictsInv(e)'
  <2>0. /\ \A n \in Note : notes[e][n].status = "conflict" =>
                filed[n].device # e /\ \E c \in conflicts[e] : c.of = n
        /\ \A c \in conflicts[e] : c.of \in Note => notes[e][c.of].status = "conflict"
        /\ \A c, x \in conflicts[e] : c.of \in Note /\ c.of = x.of => c = x
        /\ \A b \in Notebook : (books[e][b] # None /\ books[e][b].status = "conflict") =>
                \E c \in conflicts[e] : c.of = b
    BY DEF RefsAllInv, DeviceInv, ConflictsInv
  <2>1. ASSUME NEW c \in conflicts[e]
        PROVE  \/ c.of \in Note /\ NoteSides(c)'
               \/ c.of \in Notebook /\ BookSides(c)'
    <3>1. NoteSides(c) => NoteSides(c)'
      BY DEF NoteSides, NoteRecord
    <3>2. ASSUME c.of \in Notebook, BookSides(c) PROVE BookSides(c)'
      <4>1. Timed(c.mine) /\ ~SameDeletion(c.mine, c.of)
        BY <3>2 DEF BookSides
      <4>2. \A t \in c.mine.content : t \in Int
        BY <3>2, RecordInts DEF BookSides
      <4>3. \A t \in c.mine.content : t < 0 => t \in Unsent(e)
        BY <3>2, <4>2 DEF Unsent
      <4>4. ~SameDeletion(c.mine, c.of)'
        BY <1>4, <3>2, <4>1, <4>3
      <4>5. shelf'[c.other] # None
        BY <3>2 DEF BookSides, BehindBack
      <4> QED BY <1>1, <3>2, <4>4, <4>5 DEF BookSides, BookRecord, Dated, Timed
    <3> QED BY <3>1, <3>2, ConflictSides
  <2>2. \A n \in Note : notes[e][n].status = "conflict" => filed'[n].device # e
    BY <2>0 DEF BehindBack
  <2> QED BY <1>1, <2>0, <2>1, <2>2 DEF ConflictsInv
<1>7. CopyInv(e)'
  <2> SUFFICES ASSUME NEW n \in Note, notes[e][n].status = "synced"
               PROVE  notes[e][n].content = filed'[n].content \/ stamp'[n] > Reach(e)
    BY <1>1, <1>2 DEF CopyInv
  <2>1. notes[e][n].content = filed[n].content \/ stamp[n] > Reach(e)
    BY DEF RefsAllInv, DeviceInv, CopyInv
  <2>2. \/ filed'[n] = filed[n] /\ stamp'[n] = stamp[n]
        \/ stamp'[n] > lastRev
    BY DEF BehindBack
  <2> QED BY <2>1, <2>2, <1>2
<1>8. DeletionInv(e)'
  <2> SUFFICES ASSUME NEW b \in Notebook, Unsettled(e, b)
               PROVE  /\ Timed(books[e][b])
                      /\ SameDeletion(books[e][b], b)' =>
                             /\ books[e][b].status # "conflict"
                             /\ stage[e] = "idle" /\ stamp'[b] > cursor[e]
    BY <1>1 DEF DeletionInv, SameDeletion, HasRow, Timed, Unsettled
  <2>1. Timed(books[e][b])
    BY DEF RefsAllInv, DeviceInv, DeletionInv
  <2>2. ASSUME SameDeletion(books[e][b], b)'
        PROVE  /\ books[e][b].status # "conflict"
               /\ stage[e] = "idle" /\ stamp'[b] > cursor[e]
    <3>1. books[e][b] \in BookRecord
      BY Here DEF Unsettled
    <3>2. \A t \in books[e][b].content : t < 0 => t \in Unsent(e)
      BY <3>1, RecordInts DEF Unsent
    <3> DEFINE r == books[e][b]
    <3>3. SameDeletion(r, b)
      BY <1>1, <1>4, <2>1, <2>2, <3>2 DEF SameDeletion, HasRow
    <3>4. /\ books[e][b].status # "conflict" /\ stage[e] = "idle" /\ stamp[b] > cursor[e]
      BY <3>3 DEF RefsAllInv, DeviceInv, DeletionInv
    <3>5. stamp'[b] = stamp[b] \/ stamp'[b] > lastRev
      BY DEF BehindBack
    <3> QED BY <3>4, <3>5, <1>2
  <2> QED BY <2>1, <2>2
<1>9. HeldInv(e)'
  <2>1. \A b \in Notebook : shelf[b] # None => shelf'[b] # None
    BY DEF BehindBack
  <2> QED BY <1>1, <2>1 DEF RefsAllInv, DeviceInv, HeldInv
<1>10. ASSUME NEW n \in Note, NEW b \in filed'[n].content, filed'[n].device = e
       PROVE  /\ shelf'[b] # None
              /\ ~OnShelf(b)' => stamp'[b] > stamp'[n] /\ Owed(e, n, b)'
  <2>1. filed'[n] = filed[n] /\ stamp'[n] = stamp[n]
    BY <1>10 DEF BehindBack
  <2>2. /\ b \in Notebook /\ shelf[b] # None
        /\ ~OnShelf(b) => stamp[b] > stamp[n] /\ Owed(e, n, b)
    BY <1>10, <2>1, Here DEF RefsAllInv, RefsInv, ServerTyped, NoteRow
  <2>3. /\ shelf'[b] # None
        /\ stamp'[b] = stamp[b] \/ stamp'[b] > lastRev
        /\ shelf'[b] = shelf[b] \/ stamp'[b] > lastRev
    BY <2>2 DEF BehindBack
  <2>4. CASE stamp'[b] > lastRev
    BY <2>1, <2>2, <2>3, <2>4, <1>2 DEF Owed
  <2>5. CASE ~(stamp'[b] > lastRev)
    <3>1. stamp'[b] = stamp[b] /\ shelf'[b] = shelf[b]
      BY <2>3, <2>5
    <3>2. Owed(e, n, b) => Owed(e, n, b)'
      BY <1>1, <1>2, <3>1 DEF Owed, StillOpen, Unsettled, Gone
    <3>3. OnShelf(b)' <=> OnShelf(b)
      BY <3>1 DEF OnShelf
    <3> QED BY <2>1, <2>2, <2>3, <3>1, <3>2, <3>3
  <2> QED BY <2>4, <2>5
<1>11. DeviceInv(e)'
  BY <1>5, <1>6, <1>7, <1>8, <1>9 DEF DeviceInv
<1> QED BY <1>3, <1>10, <1>11

LEMMA PurgedFacts ==
    ASSUME NEW row \in Row
    PROVE  LET s == [row EXCEPT !.life = "purged", !.version = row.version + 1]
           IN  s \in Row /\ s.life = "purged" /\ s.content = row.content
<1>1. row.version + 1 \in Nat \ {0}
  BY DEF Row
<1> QED BY <1>1 DEF Row

LEMMA CleanupKeepsRefs ==
    ASSUME NEW b \in Notebook, RefsAllInv, CleanupTrash(b)
    PROVE  RefsAllInv'
<1> DEFINE r == [shelf[b] EXCEPT !.life = "purged", !.version = shelf[b].version + 1]
<1>1. /\ shelf[b] # None /\ shelf[b] \in Row /\ Dated(shelf[b], ops) /\ lastRev \in Nat
      /\ ops \in Nat /\ shelf \in [Notebook -> Row \union {None}]
      /\ filed \in [Note -> NoteRow] /\ stamp \in [Notebook \union Note -> Nat]
      /\ \A x \in Notebook \union Note : stamp[x] <= lastRev
      /\ \A x \in Notebook : shelf[x] # None => Dated(shelf[x], ops)
  BY DEF CleanupTrash, RefsAllInv, ServerTyped
<1>2. /\ shelf' = [shelf EXCEPT ![b] = r] /\ filed' = filed /\ ops' = ops
      /\ lastRev' = lastRev + 1 /\ stamp' = [stamp EXCEPT ![b] = lastRev + 1]
      /\ UNCHANGED <<books, notes, conflicts, cursor, stage, arrived>>
  BY <1>1 DEF CleanupTrash
<1>3. r \in Row /\ r.life = "purged" /\ r.content = shelf[b].content
  BY <1>1, PurgedFacts
<1>4. Dated(r, ops) /\ r # None
  BY <1>1, <1>3, NoneAssumption DEF Dated
<1> HIDE DEF r
<1>5. /\ shelf'[b] = r /\ \A x \in Notebook \ {b} : shelf'[x] = shelf[x]
      /\ shelf' \in [Notebook -> Row \union {None}]
      /\ stamp'[b] = lastRev + 1 /\ \A x \in (Notebook \union Note) \ {b} : stamp'[x] = stamp[x]
      /\ stamp' \in [Notebook \union Note -> Nat]
  BY <1>1, <1>2, <1>3
<1>6. ServerTyped'
  <2>1. \A x \in Notebook : shelf'[x] # None => Dated(shelf'[x], ops')
    BY <1>1, <1>2, <1>4, <1>5
  <2>2. \A x \in Notebook \union Note : stamp'[x] <= lastRev'
    BY <1>1, <1>2, <1>5
  <2>3. \A x \in Notebook : stamp[x] > 0 => shelf[x] # None
    BY DEF RefsAllInv, ServerTyped
  <2>4. \A x \in Notebook : stamp'[x] > 0 => shelf'[x] # None
    BY <1>4, <1>5, <2>3
  <2> QED BY <1>1, <1>2, <1>5, <2>1, <2>2, <2>4 DEF ServerTyped, Row, NoteRow
<1>7. ASSUME NEW e \in Device PROVE BehindBack(e)
  <2>1. ~HasRow(b)'
    BY <1>3, <1>5 DEF HasRow
  <2>2. \A x \in Notebook : shelf'[x] = shelf[x] \/ x = b
    BY <1>5
  <2>3. \A n \in Note : filed'[n] = filed[n] /\ stamp'[n] = stamp[n]
    BY <1>2, <1>5, NotebookBounds
  <2>4. \A x \in Notebook \union Note : stamp'[x] = stamp[x] \/ stamp'[x] > lastRev
    BY <1>1, <1>5
  <2>5. \A x \in Notebook :
          /\ shelf[x] # None => shelf'[x] # None
          /\ shelf'[x] = shelf[x] \/ stamp'[x] > lastRev
          /\ \/ shelf'[x] = shelf[x] \/ ~HasRow(x)'
             \/ \A t \in shelf'[x].content : t < 0 => t \notin Unsent(e)
    BY <1>1, <1>4, <1>5, <2>1, <2>2
  <2> QED BY <1>1, <1>2, <1>6, <2>3, <2>4, <2>5 DEF BehindBack
<1>8. /\ \A e \in Device : DeviceInv(e)' /\ Unsent(e)' = Unsent(e)
      /\ \A e \in Device : \A n \in Note : \A c \in filed'[n].content : filed'[n].device = e =>
             /\ shelf'[c] # None
             /\ ~OnShelf(c)' => stamp'[c] > stamp'[n] /\ Owed(e, n, c)'
  BY <1>7, ServerFrame
<1>9. EveryDevice'
  BY <1>2 DEF RefsAllInv, EveryDevice
<1>10. DeletionsApart'
  BY <1>8 DEF RefsAllInv, DeletionsApart
<1>11. RefsInv'
  <2> SUFFICES ASSUME NEW n \in Note, NEW c \in filed'[n].content
               PROVE  /\ shelf'[c] # None /\ filed'[n].device \in Device
                      /\ ~OnShelf(c)' => stamp'[c] > stamp'[n] /\ Owed(filed[n].device, n, c)'
    BY <1>2 DEF RefsInv
  <2>1. filed'[n].device \in Device
    BY <1>2 DEF RefsAllInv, RefsInv
  <2>2. PICK w \in Device : w = filed[n].device
    BY <1>2, <2>1
  <2> QED BY <1>2, <1>8, <2>1, <2>2
<1> QED BY <1>6, <1>8, <1>9, <1>10, <1>11 DEF RefsAllInv

(***************************************************************************)
(* The push: what a request decided as far as "seen" has made of the rows. *)
(***************************************************************************)
LEMMA AcceptedFacts ==
    ASSUME NEW d \in Device, RefsAllInv, NEW b \in Notebook, books[d][b] # None
    PROVE  LET ch  == books[d][b]
               row == AcceptedRow(d, b, ch) IN
           /\ row \in Row /\ row # None /\ Dated(row, ops)
           /\ row.content = ch.content /\ row.life = ch.life
           /\ row = shelf[b] => HasRow(b)
<1> DEFINE ch == books[d][b]
           row == AcceptedRow(d, b, ch)
           version == IF shelf[b] = None THEN 1 ELSE NextVersionAfter(shelf[b].version)
           written == [content |-> ch.content, life |-> ch.life, device |-> d, version |-> version]
<1>1. /\ ch \in BookRecord /\ Dated(ch, ops)
      /\ shelf[b] # None => shelf[b] \in Row
  BY Here DEF DeviceInv, DeviceTyped, ServerTyped
<1>2. /\ ch.content \in Named \union Deleted /\ ch.life \in {"active", "deleted"}
      /\ shelf[b] # None => shelf[b].version \in Nat \ {0}
      /\ version \in Nat \ {0}
  BY <1>1 DEF BookRecord, Local, Row, NextVersionAfter
<1>3. row = IF HasRow(b) /\ ~RecordsDiffer(ch, shelf[b]) THEN shelf[b] ELSE written
  BY DEF AcceptedRow
<1>4. CASE HasRow(b) /\ ~RecordsDiffer(ch, shelf[b])
  <2>1. row = shelf[b] /\ shelf[b] # None
    BY <1>3, <1>4 DEF HasRow
  <2>2. shelf[b].content = ch.content /\ shelf[b].life = ch.life
    BY <1>4 DEF RecordsDiffer
  <2> QED BY <1>1, <1>4, <2>1, <2>2 DEF Dated
<1>5. CASE ~(HasRow(b) /\ ~RecordsDiffer(ch, shelf[b]))
  <2> HIDE DEF ch
  <2>1. row = written
    BY <1>3, <1>5
  <2>2. /\ written.content = ch.content /\ written.life = ch.life
        /\ written.version = version
    OBVIOUS
  <2> HIDE DEF version
  <2>3. written \in Row
    BY <1>2 DEF Row
  <2> HIDE DEF written, row
  <2>4. row # None
    BY <2>1, <2>3, NoneAssumption
  <2>5. row # shelf[b]
    <3>1. CASE shelf[b] = None
      BY <2>4, <3>1
    <3>2. CASE shelf[b] # None
      BY <1>2, <2>1, <2>2, <3>2 DEF version, NextVersionAfter
    <3> QED BY <3>1, <3>2
  <2>6. Dated(row, ops)
    BY <1>1, <2>1, <2>2 DEF Dated
  <2> QED BY <2>1, <2>2, <2>3, <2>4, <2>5, <2>6 DEF ch, row
<1> QED BY <1>4, <1>5

GoodRefusal(d, rows, c) ==
    /\ c.other \in Notebook /\ rows[c.other] # None /\ rows[c.of] = shelf[c.of]
    /\ c.theirs \in Row /\ c.theirs.life # "purged" /\ Dated(c.theirs, ops)
    /\ c.reason = "duplicate_name" => c.theirs.life = "active"
    /\ c.reason # "duplicate_name" => c.other = c.of
    /\ c.reason = "deleted_remotely" => c.theirs.life = "deleted"
    /\ ~SameDeletion(books[d][c.of], c.of)

RequestSoFar(d, acc, seen) ==
    /\ acc.rows = [b \in Notebook |-> acc.rows[b]]
    /\ \A b \in Notebook : acc.rows[b] # None => acc.rows[b] \in Row /\ Dated(acc.rows[b], ops)
    /\ \A b \in Notebook : shelf[b] # None => acc.rows[b] # None
    /\ \A b \in acc.active : b \in Notebook /\ IsActive(acc, b)
    /\ acc.active \subseteq seen /\ acc.wrote \subseteq seen
    /\ \A b \in acc.wrote : acc.rows[b] # None
    /\ \A b \in Notebook :
          \/ acc.rows[b] = shelf[b]
          \/ b \in acc.wrote /\ acc.rows[b] = AcceptedRow(d, b, books[d][b])
    /\ \A c \in acc.refused : c.of \in seen /\ GoodRefusal(d, acc.rows, c)
    /\ \A c, e \in acc.refused : c.of = e.of => c = e
    /\ \A b \in seen : \/ \E c \in acc.refused : c.of = b
                       \/ acc.rows[b] = AcceptedRow(d, b, books[d][b])

LEMMA StaleIsGood ==
    ASSUME NEW d \in Device, RefsAllInv, NEW b \in Notebook, books[d][b] # None,
           NEW rows, rows[b] = shelf[b], NEW c \in StaleChange(b, books[d][b])
    PROVE  c.of = b /\ GoodRefusal(d, rows, c)
<1> DEFINE ch == books[d][b]
<1>1. /\ ch \in BookRecord /\ Dated(ch, ops) /\ shelf[b] # None
      /\ shelf[b] \in Row /\ Dated(shelf[b], ops)
  BY Here DEF DeviceInv, DeviceTyped, ServerTyped, StaleChange
<1>2. CASE shelf[b].life = "purged"
  <2> DEFINE theirs == [shelf[b] EXCEPT !.content = ch.content, !.life = "deleted"]
  <2>1. c = Conflict(b, "deleted_remotely", theirs, b)
    BY <1>1, <1>2 DEF StaleChange
  <2>2. theirs \in Row /\ theirs.life = "deleted" /\ theirs.content = ch.content
    BY <1>1 DEF Row, BookRecord, Local
  <2> HIDE DEF theirs, ch
  <2>3. /\ c.of = b /\ c.reason = "deleted_remotely" /\ c.theirs = theirs /\ c.other = b
    BY <2>1 DEF Conflict
  <2>4. Dated(theirs, ops)
    BY <1>1, <2>2 DEF Dated
  <2>5. ~SameDeletion(books[d][b], b)
    BY <1>2 DEF SameDeletion, HasRow
  <2> QED BY <1>1, <2>2, <2>3, <2>4, <2>5 DEF GoodRefusal
<1>3. CASE shelf[b].life # "purged"
  <2> DEFINE reason == IF shelf[b].life = "deleted" THEN "deleted_remotely" ELSE "remote_changed"
  <2>1. c = Conflict(b, reason, shelf[b], b) /\ RecordsDiffer(ch, shelf[b])
    BY <1>1, <1>3 DEF StaleChange, ShouldConflict
  <2>2. /\ c.of = b /\ c.reason = reason /\ c.theirs = shelf[b] /\ c.other = b
    BY <2>1 DEF Conflict
  <2>3. ~SameDeletion(books[d][b], b)
    BY <2>1 DEF SameDeletion, RecordsDiffer
  <2> QED BY <1>1, <1>3, <2>2, <2>3 DEF GoodRefusal
<1> QED BY <1>2, <1>3

LEMMA DuplicateIsGood ==
    ASSUME NEW d \in Device, RefsAllInv, NEW b \in Notebook, books[d][b] # None,
           NEW acc, NEW seen, RequestSoFar(d, acc, seen),
           acc.rows[b] = shelf[b], NEW c \in DuplicateOf(acc, b, books[d][b])
    PROVE  c.of = b /\ GoodRefusal(d, acc.rows, c)
<1> DEFINE ch == books[d][b]
<1>1. ch.life # "deleted"
  BY DEF DuplicateOf
<1>2. ~SameDeletion(ch, b)
  BY <1>1 DEF SameDeletion
<1>3. ASSUME NEW o, o \in Notebook, NEW theirs, theirs \in Row, theirs.life = "active", Dated(theirs, ops),
             acc.rows[o] # None, c = Conflict(b, "duplicate_name", theirs, o)
      PROVE  c.of = b /\ GoodRefusal(d, acc.rows, c)
  <2>1. c.of = b /\ c.other = o /\ c.theirs = theirs /\ c.reason = "duplicate_name"
    BY <1>3 DEF Conflict
  <2> QED BY <1>2, <1>3, <2>1 DEF GoodRefusal
<1>4. CASE \E o \in acc.active : c = Conflict(b, "duplicate_name", acc.rows[o], o)
  <2>1. PICK o \in acc.active : c = Conflict(b, "duplicate_name", acc.rows[o], o)
    BY <1>4
  <2>2. /\ o \in Notebook /\ acc.rows[o] # None /\ acc.rows[o].life = "active"
        /\ acc.rows[o] \in Row /\ Dated(acc.rows[o], ops)
    BY DEF RequestSoFar, IsActive
  <2> QED BY <2>1, <2>2, <1>3
<1>5. CASE \E o \in Notebook : OnShelf(o) /\ c = Conflict(b, "duplicate_name", shelf[o], o)
  <2>1. PICK o \in Notebook : OnShelf(o) /\ c = Conflict(b, "duplicate_name", shelf[o], o)
    BY <1>5
  <2>2. /\ shelf[o] # None /\ shelf[o].life = "active" /\ shelf[o] \in Row /\ Dated(shelf[o], ops)
    BY <2>1, Here DEF OnShelf, ServerTyped
  <2>3. acc.rows[o] # None
    BY <2>2 DEF RequestSoFar
  <2> QED BY <2>1, <2>2, <2>3, <1>3
<1>6. c \in {Conflict(b, "duplicate_name", acc.rows[o], o) :
                o \in SameName(b, ch, acc.rows, acc.active)}
      \/ c \in {Conflict(b, "duplicate_name", shelf[o], o) :
                o \in SameName(b, ch, shelf, {x \in Notebook : OnShelf(x)}) \ acc.deleted}
  BY <1>1 DEF DuplicateOf
<1> QED BY <1>4, <1>5, <1>6 DEF SameName

LEMMA DecideExtends ==
    ASSUME NEW d \in Device, RefsAllInv, NEW acc, NEW seen, seen \subseteq Notebook,
           NEW b \in Notebook \ seen, books[d][b] # None,
           IsDecision(acc), RequestSoFar(d, acc, seen)
    PROVE  /\ IsDecision(Decide(d, acc, b))
           /\ RequestSoFar(d, Decide(d, acc, b), seen \union {b})
<1> DEFINE ch == books[d][b]
           stale == StaleChange(b, ch)
           refusal == IF stale # {} THEN stale ELSE DuplicateOf(acc, b, ch)
           row == AcceptedRow(d, b, ch)
           next == Decide(d, acc, b)
<1>1. next = IF refusal # {}
             THEN [acc EXCEPT !.refused = @ \union {CHOOSE c \in refusal : TRUE}]
             ELSE [acc EXCEPT
                !.rows[b] = row,
                !.active = IF row.life = "active" THEN @ \union {b} ELSE @,
                !.deleted = IF row.life = "deleted" THEN @ \union {b} ELSE @,
                !.wrote = IF row = shelf[b] THEN @ ELSE @ \union {b}]
  BY DEF Decide
<1>2. acc.rows[b] = shelf[b]
  BY DEF RequestSoFar
<1>3. \A c \in refusal : c.of = b /\ GoodRefusal(d, acc.rows, c)
  BY <1>2, StaleIsGood, DuplicateIsGood
<1>4. /\ row \in Row /\ row # None /\ Dated(row, ops)
      /\ row.content = ch.content /\ row.life = ch.life
  BY AcceptedFacts
<1> HIDE DEF refusal, row, next, ch
<1>5. CASE refusal # {}
  <2> DEFINE c == CHOOSE x \in refusal : TRUE
  <2>1. c \in refusal
    BY <1>5
  <2>2. c.of = b /\ GoodRefusal(d, acc.rows, c)
    BY <2>1, <1>3
  <2>3. /\ IsDecision(next)
        /\ next.rows = acc.rows /\ next.active = acc.active /\ next.deleted = acc.deleted
        /\ next.wrote = acc.wrote /\ next.refused = acc.refused \union {c}
    BY <1>1, <1>5 DEF IsDecision
  <2> HIDE DEF c
  <2>4. \A x \in next.refused : x.of \in seen \union {b} /\ GoodRefusal(d, next.rows, x)
    BY <2>2, <2>3 DEF RequestSoFar
  <2>5. \A x \in seen \union {b} :
          \/ \E y \in next.refused : y.of = x
          \/ next.rows[x] = AcceptedRow(d, x, books[d][x])
    BY <2>2, <2>3 DEF RequestSoFar
  <2>6. \A x, y \in next.refused : x.of = y.of => x = y
    BY <2>2, <2>3 DEF RequestSoFar
  <2> QED BY <2>3, <2>4, <2>5, <2>6 DEF RequestSoFar, IsActive, next
<1>6. CASE refusal = {}
  <2>1. /\ IsDecision(next)
        /\ next.rows = [acc.rows EXCEPT ![b] = row]
        /\ next.active = IF row.life = "active" THEN acc.active \union {b} ELSE acc.active
        /\ next.wrote = IF row = shelf[b] THEN acc.wrote ELSE acc.wrote \union {b}
        /\ next.refused = acc.refused
    BY <1>1, <1>6 DEF IsDecision
  <2>2. /\ next.rows = [x \in Notebook |-> next.rows[x]]
        /\ next.rows[b] = row
        /\ \A x \in Notebook \ {b} : next.rows[x] = acc.rows[x]
    BY <2>1 DEF RequestSoFar
  <2>3. \A x \in Notebook : /\ next.rows[x] # None => next.rows[x] \in Row /\ Dated(next.rows[x], ops)
                            /\ shelf[x] # None => next.rows[x] # None
                            /\ acc.rows[x] # None => next.rows[x] # None
    BY <2>2, <1>4 DEF RequestSoFar
  <2>4. \A x \in next.active : x \in Notebook /\ IsActive(next, x)
    <3> SUFFICES ASSUME NEW x \in next.active PROVE x \in Notebook /\ IsActive(next, x)
      OBVIOUS
    <3>1. CASE x # b
      <4>1. x \in acc.active
        BY <3>1, <2>1
      <4> QED BY <3>1, <4>1, <2>2 DEF RequestSoFar, IsActive
    <3>2. CASE x = b
      <4>1. row.life = "active"
        BY <3>2, <2>1 DEF RequestSoFar
      <4> QED BY <3>2, <4>1, <2>2, <1>4 DEF IsActive
    <3> QED BY <3>1, <3>2
  <2>5. next.active \subseteq seen \union {b} /\ next.wrote \subseteq seen \union {b}
    BY <2>1 DEF RequestSoFar
  <2>6. \A x \in Notebook : \/ next.rows[x] = shelf[x]
                            \/ x \in next.wrote /\ next.rows[x] = AcceptedRow(d, x, books[d][x])
    BY <2>1, <2>2 DEF RequestSoFar, row, ch
  <2>7. \A x \in next.refused : x.of \in seen \union {b} /\ GoodRefusal(d, next.rows, x)
    <3> SUFFICES ASSUME NEW x \in acc.refused
                 PROVE  x.of \in seen \union {b} /\ GoodRefusal(d, next.rows, x)
      BY <2>1
    <3>1. x.of \in seen /\ GoodRefusal(d, acc.rows, x)
      BY DEF RequestSoFar
    <3>2. next.rows[x.of] = acc.rows[x.of] /\ next.rows[x.other] # None
      BY <3>1, <2>2, <2>3 DEF GoodRefusal
    <3> QED BY <3>1, <3>2 DEF GoodRefusal
  <2>8. \A x \in seen \union {b} :
          \/ \E y \in next.refused : y.of = x
          \/ next.rows[x] = AcceptedRow(d, x, books[d][x])
    BY <2>1, <2>2 DEF RequestSoFar, row, ch
  <2> QED BY <2>1, <2>2, <2>3, <2>4, <2>5, <2>6, <2>7, <2>8 DEF RequestSoFar, next
<1> QED BY <1>5, <1>6

LEMMA DecidedWell ==
    ASSUME NEW d \in Device, RefsAllInv, NEW S, S \subseteq PendingBooks(d),
           NEW order \in SetToSeqs(S)
    PROVE  RequestSoFar(d, Decided(d, order), S)
<1>0. S \subseteq Notebook /\ \A b \in S : books[d][b] # None
  BY DEF PendingBooks
<1>1. PICK n \in Nat : \E f : Decisions(d, S, order, n, f)
  BY <1>0, DecidedSteps
<1>2. PICK f : Decisions(d, S, order, n, f)
  BY <1>1
<1>3. /\ f[0] = Undecided /\ Decided(d, order) = f[n]
      /\ \A k \in 1..n : f[k] = Decide(d, f[k - 1], order[k])
      /\ \A k \in 1..n : order[k] \in S \ {order[i] : i \in 1..(k - 1)}
      /\ {order[i] : i \in 1..n} = S
  BY <1>2 DEF Decisions
<1> DEFINE seen(k) == {order[i] : i \in 1..k}
           Good(k) == IsDecision(f[k]) /\ RequestSoFar(d, f[k], seen(k))
           T == {k \in 0..n : Good(k)}
<1>4. Good(0)
  <2>1. IsDecision(Undecided)
    BY DEF IsDecision, Undecided
  <2>2. RequestSoFar(d, Undecided, {})
    BY Here DEF RequestSoFar, Undecided, ServerTyped
  <2>3. seen(0) = {}
    OBVIOUS
  <2> HIDE DEF seen
  <2> QED BY <1>3, <2>1, <2>2, <2>3
<1>5. ASSUME NEW k \in 1..n, Good(k - 1) PROVE Good(k)
  <2>1. seen(k) = seen(k - 1) \union {order[k]}
    <3>1. 1..k = (1..(k - 1)) \union {k}
      OBVIOUS
    <3> QED BY <3>1
  <2>2. seen(k - 1) \subseteq Notebook
    <3>1. \A i \in 1..(k - 1) : i \in 1..n
      OBVIOUS
    <3> QED BY <1>0, <1>3, <3>1
  <2> DEFINE acc == f[k - 1]
             before == seen(k - 1)
             b == order[k]
  <2>3. IsDecision(acc) /\ RequestSoFar(d, acc, before) /\ b \in S \ before
    BY <1>3, <1>5
  <2> HIDE DEF acc, before, b
  <2>4. b \in Notebook \ before /\ books[d][b] # None /\ before \subseteq Notebook
    BY <2>2, <2>3, <1>0 DEF before
  <2>5. IsDecision(Decide(d, acc, b)) /\ RequestSoFar(d, Decide(d, acc, b), before \union {b})
    BY <2>3, <2>4, DecideExtends
  <2> QED BY <1>3, <2>1, <2>5 DEF acc, before, b
<1> HIDE DEF Good
<1>6. n \in T
  <2>1. 0 \in T /\ \A k \in 1..n : k - 1 \in T => k \in T
    BY <1>4, <1>5
  <2> HIDE DEF T
  <2> QED BY <2>1, CountUp
<1> QED BY <1>3, <1>6 DEF Good

(***************************************************************************)
(* The push as one request, and what comes of it.                          *)
(***************************************************************************)
Sent(d) == PendingBooks(d) \ LocalOnlyDeleted(d)

NewRow(d, n, rows) ==
    IF n \notin PendingNotes(d) \/ NoteRefused(d, n, rows)
    THEN filed[n] ELSE FiledRow(d, n, rows)

StaleNotes(d, rows) ==
    {Conflict(n, "remote_changed", filed[n], n) :
        n \in {x \in PendingNotes(d) : NoteRefused(d, x, rows)}}

Wrote(d, done) == done.wrote \union {n \in Note : NewRow(d, n, done.rows) # filed[n]}
Answers(d, done) == done.refused \union StaleNotes(d, done.rows)
AnswersOf(d, done, e) == {c \in Answers(d, done) : c.of = e}

Pushed(d, heard, done) ==
    /\ RequestSoFar(d, done, Sent(d)) /\ OnlyDevice(d)
    /\ stage[d] = "idle"
    /\ shelf' = done.rows
    /\ filed' = [n \in Note |-> NewRow(d, n, done.rows)]
    /\ lastRev' = IF Wrote(d, done) = {} THEN lastRev ELSE lastRev + 1
    /\ stamp' = [e \in Notebook \union Note |->
                    IF e \in Wrote(d, done) THEN lastRev' ELSE stamp[e]]
    /\ books'[d] = [b \in Notebook |->
                        IF b \in LocalOnlyDeleted(d) THEN None
                        ELSE IF heard /\ b \in Sent(d)
                        THEN Answered(d, books[d][b], done.rows[b], AnswersOf(d, done, b))
                        ELSE books[d][b]]
    /\ notes'[d] = [n \in Note |->
                        IF heard /\ n \in PendingNotes(d)
                        THEN Answered(d, notes[d][n], NewRow(d, n, done.rows), AnswersOf(d, done, n))
                        ELSE notes[d][n]]
    /\ conflicts'[d] =
           IF heard THEN conflicts[d]
                \union {Stored(d, c) : c \in {x \in Answers(d, done) : ~OwnEcho(d, x)}}
           ELSE conflicts[d]
    /\ stage'[d] = IF heard THEN "pushed" ELSE "idle"
    /\ cursor' = cursor /\ arrived' = arrived /\ ops' = ops

LEMMA PushIsPushed ==
    ASSUME NEW d \in Device, NEW heard \in BOOLEAN, RefsAllInv, Push(d, heard)
    PROVE  \E done : Pushed(d, heard, done)
<1>1. PICK order \in SetToSeqs(Sent(d)) :
         LET done    == Decided(d, order)
             new     == [n \in Note |->
                            IF n \notin PendingNotes(d) \/ NoteRefused(d, n, done.rows)
                            THEN filed[n] ELSE FiledRow(d, n, done.rows)]
             stale   == {Conflict(n, "remote_changed", filed[n], n) :
                            n \in {x \in PendingNotes(d) : NoteRefused(d, x, done.rows)}}
             wrote   == done.wrote \union {n \in Note : new[n] # filed[n]}
             answers == done.refused \union stale
             of(e)   == {c \in answers : c.of = e}
         IN /\ shelf' = done.rows
            /\ filed' = new
            /\ lastRev' = IF wrote = {} THEN lastRev ELSE lastRev + 1
            /\ stamp' = [e \in Notebook \union Note |->
                            IF e \in wrote THEN lastRev' ELSE stamp[e]]
            /\ books' = [books EXCEPT ![d] = [b \in Notebook |->
                            IF b \in LocalOnlyDeleted(d) THEN None
                            ELSE IF heard /\ b \in Sent(d)
                            THEN Answered(d, @[b], done.rows[b], of(b)) ELSE @[b]]]
            /\ notes' = [notes EXCEPT ![d] = [n \in Note |->
                            IF heard /\ n \in PendingNotes(d)
                            THEN Answered(d, @[n], new[n], of(n)) ELSE @[n]]]
            /\ conflicts' = IF ~heard THEN conflicts
                            ELSE [conflicts EXCEPT ![d] = @ \union
                                    {Stored(d, c) : c \in {x \in answers : ~OwnEcho(d, x)}}]
            /\ stage' = IF heard THEN [stage EXCEPT ![d] = "pushed"] ELSE stage
            /\ UNCHANGED <<cursor, arrived, ops, purges>>
  BY DEF Push, Sent
<1> DEFINE done == Decided(d, order)
           new == [n \in Note |-> NewRow(d, n, done.rows)]
           wrote == done.wrote \union {n \in Note : new[n] # filed[n]}
<1>2. stage[d] = "idle"
  BY DEF Push
<1>3. RequestSoFar(d, done, Sent(d))
  BY DecidedWell DEF Sent
<1> HIDE DEF done
<1>4. wrote = Wrote(d, done)
  BY DEF Wrote
<1>5. /\ shelf' = done.rows /\ filed' = new
      /\ lastRev' = IF wrote = {} THEN lastRev ELSE lastRev + 1
      /\ stamp' = [e \in Notebook \union Note |-> IF e \in wrote THEN lastRev' ELSE stamp[e]]
  BY <1>1 DEF done, NewRow
<1>6. /\ books' = [books EXCEPT ![d] = [b \in Notebook |->
                            IF b \in LocalOnlyDeleted(d) THEN None
                            ELSE IF heard /\ b \in Sent(d)
                            THEN Answered(d, books[d][b], done.rows[b], AnswersOf(d, done, b))
                            ELSE books[d][b]]]
      /\ notes' = [notes EXCEPT ![d] = [n \in Note |->
                            IF heard /\ n \in PendingNotes(d)
                            THEN Answered(d, notes[d][n], new[n], AnswersOf(d, done, n))
                            ELSE notes[d][n]]]
  BY <1>1, Here DEF done, NewRow, EveryDevice, AnswersOf, Answers, StaleNotes
<1>7. /\ conflicts' = IF ~heard THEN conflicts
                      ELSE [conflicts EXCEPT ![d] = @ \union
                               {Stored(d, c) : c \in {x \in Answers(d, done) : ~OwnEcho(d, x)}}]
      /\ stage' = IF heard THEN [stage EXCEPT ![d] = "pushed"] ELSE stage
      /\ cursor' = cursor /\ arrived' = arrived /\ ops' = ops
  BY <1>1 DEF done, Answers, StaleNotes
<1>8. /\ books'[d] = [b \in Notebook |->
                            IF b \in LocalOnlyDeleted(d) THEN None
                            ELSE IF heard /\ b \in Sent(d)
                            THEN Answered(d, books[d][b], done.rows[b], AnswersOf(d, done, b))
                            ELSE books[d][b]]
      /\ notes'[d] = [n \in Note |->
                            IF heard /\ n \in PendingNotes(d)
                            THEN Answered(d, notes[d][n], NewRow(d, n, done.rows), AnswersOf(d, done, n))
                            ELSE notes[d][n]]
      /\ DOMAIN books' = Device /\ DOMAIN notes' = Device
      /\ \A e \in Device \ {d} : books'[e] = books[e] /\ notes'[e] = notes[e]
  BY <1>6, Here DEF EveryDevice
<1>9. /\ conflicts'[d] =
             IF heard THEN conflicts[d]
                  \union {Stored(d, c) : c \in {x \in Answers(d, done) : ~OwnEcho(d, x)}}
             ELSE conflicts[d]
      /\ stage'[d] = IF heard THEN "pushed" ELSE "idle"
      /\ DOMAIN conflicts' = Device /\ DOMAIN stage' = Device
      /\ \A e \in Device \ {d} : conflicts'[e] = conflicts[e] /\ stage'[e] = stage[e]
  BY <1>2, <1>7, Here DEF EveryDevice
<1>10. OnlyDevice(d)
  BY <1>7, <1>8, <1>9, Here DEF OnlyDevice, EveryDevice
<1> HIDE DEF wrote
<1>11. Pushed(d, heard, done)
  BY <1>2, <1>3, <1>4, <1>5, <1>7, <1>8, <1>9, <1>10 DEF Pushed
<1> QED BY <1>11

LEMMA OfferedFacts ==
    ASSUME NEW d \in Device, RefsAllInv, NEW n \in Note, NEW rows
    PROVE  Offered(d, n, rows).content = SyncableRefs(notes[d][n].content, rows)
<1>1. notes[d][n] \in NoteRecord
  BY Here
<1> QED BY <1>1 DEF Offered, NoteRecord, Local

LEMMA FiledFacts ==
    ASSUME NEW d \in Device, RefsAllInv, NEW n \in Note, NEW rows
    PROVE  LET row == FiledRow(d, n, rows) IN
           /\ row \in NoteRow
           /\ row.content = SyncableRefs(notes[d][n].content, rows)
           /\ row # filed[n] => row.device = d
           /\ row = filed[n] => notes[d][n].content = filed[n].content
<1> DEFINE row == FiledRow(d, n, rows)
           offered == Offered(d, n, rows)
           version == NextVersionAfter(filed[n].version)
           written == [content |-> offered.content, life |-> "active", device |-> d,
                       version |-> version]
<1>1. filed[n] \in NoteRow /\ notes[d][n] \in NoteRecord
  BY Here DEF ServerTyped
<1>2. filed[n].version \in Nat /\ version = filed[n].version + 1 /\ version \in Nat \ {0}
  BY <1>1 DEF NoteRow, NextVersionAfter
<1>3. offered.content = SyncableRefs(notes[d][n].content, rows)
  BY OfferedFacts
<1>4. offered.content \in SUBSET Notebook
  BY <1>1, <1>3 DEF NoteRecord, Local, SyncableRefs
<1>5. row = IF offered = notes[d][n] /\ ~RecordsDiffer(offered, filed[n])
            THEN filed[n] ELSE written
  BY DEF FiledRow
<1> HIDE DEF offered, version, row
<1>6. CASE offered = notes[d][n] /\ ~RecordsDiffer(offered, filed[n])
  <2>1. row = filed[n] /\ offered.content = filed[n].content
    BY <1>5, <1>6 DEF RecordsDiffer
  <2> QED BY <1>1, <1>3, <1>6, <2>1 DEF row
<1>7. CASE ~(offered = notes[d][n] /\ ~RecordsDiffer(offered, filed[n]))
  <2>1. row = written
    BY <1>5, <1>7
  <2>2. /\ written.content = offered.content /\ written.device = d /\ written.version = version
        /\ written \in NoteRow
    BY <1>2, <1>4 DEF NoteRow
  <2> HIDE DEF written
  <2>3. row # filed[n]
    BY <1>2, <2>1, <2>2
  <2> QED BY <1>3, <2>1, <2>2, <2>3 DEF row
<1> QED BY <1>6, <1>7

LEMMA NewRowFacts ==
    ASSUME NEW d \in Device, RefsAllInv, NEW n \in Note, NEW rows
    PROVE  LET row == NewRow(d, n, rows) IN
           /\ row \in NoteRow
           /\ row # filed[n] => /\ row.device = d /\ notes[d][n].status = "pending"
                                /\ row.content = SyncableRefs(notes[d][n].content, rows)
           /\ row = filed[n] /\ notes[d][n].status = "pending" /\ ~NoteRefused(d, n, rows) =>
                /\ notes[d][n].content = filed[n].content
                /\ filed[n].content = SyncableRefs(notes[d][n].content, rows)
           /\ NoteRefused(d, n, rows) => row = filed[n]
<1> DEFINE row == NewRow(d, n, rows)
           written == FiledRow(d, n, rows)
<1>1. filed[n] \in NoteRow /\ (n \in PendingNotes(d) <=> notes[d][n].status = "pending")
  BY Here DEF ServerTyped, PendingNotes
<1>2. /\ written \in NoteRow
      /\ written.content = SyncableRefs(notes[d][n].content, rows)
      /\ written # filed[n] => written.device = d
      /\ written = filed[n] => notes[d][n].content = filed[n].content
  BY FiledFacts
<1>3. row = IF n \notin PendingNotes(d) \/ NoteRefused(d, n, rows) THEN filed[n] ELSE written
  BY DEF NewRow
<1> HIDE DEF row, written
<1> QED BY <1>1, <1>2, <1>3 DEF row

(* The server after a push. *)
LEMMA PushedServer ==
    ASSUME NEW d \in Device, NEW heard \in BOOLEAN, RefsAllInv, NEW done, Pushed(d, heard, done)
    PROVE  /\ ServerTyped' /\ lastRev' >= lastRev
           /\ \A x \in Notebook \union Note : stamp'[x] = stamp[x] \/ stamp'[x] > lastRev
           /\ \A b \in Notebook :
                /\ shelf'[b] = done.rows[b]
                /\ shelf[b] # None => shelf'[b] # None
                /\ \/ shelf'[b] = shelf[b]
                   \/ /\ stamp'[b] > lastRev /\ b \in Sent(d)
                      /\ shelf'[b] = AcceptedRow(d, b, books[d][b])
           /\ \A n \in Note :
                /\ filed'[n] = NewRow(d, n, done.rows)
                /\ \/ filed'[n] = filed[n] /\ stamp'[n] = stamp[n]
                   \/ filed'[n] # filed[n] /\ filed'[n].device = d /\ stamp'[n] > lastRev
<1>1. /\ RequestSoFar(d, done, Sent(d)) /\ shelf' = done.rows
      /\ filed' = [n \in Note |-> NewRow(d, n, done.rows)] /\ ops' = ops
      /\ lastRev' = IF Wrote(d, done) = {} THEN lastRev ELSE lastRev + 1
      /\ stamp' = [e \in Notebook \union Note |->
                      IF e \in Wrote(d, done) THEN lastRev' ELSE stamp[e]]
  BY DEF Pushed
<1>2. /\ lastRev \in Nat /\ stamp \in [Notebook \union Note -> Nat] /\ ops \in Nat
      /\ \A x \in Notebook \union Note : stamp[x] \in Nat /\ stamp[x] <= lastRev
  BY Here DEF ServerTyped
<1>3. lastRev' \in Nat /\ lastRev' >= lastRev
      /\ \A e \in Wrote(d, done) : lastRev' = lastRev + 1
  BY <1>1, <1>2
<1>4. \A x \in Notebook \union Note :
        /\ x \in Wrote(d, done) => stamp'[x] = lastRev' /\ stamp'[x] > lastRev
        /\ x \notin Wrote(d, done) => stamp'[x] = stamp[x]
  BY <1>1, <1>2, <1>3
<1>5. ASSUME NEW b \in Notebook
      PROVE  /\ shelf'[b] = done.rows[b]
             /\ shelf[b] # None => shelf'[b] # None
             /\ \/ shelf'[b] = shelf[b]
                \/ /\ stamp'[b] > lastRev /\ b \in Sent(d)
                   /\ shelf'[b] = AcceptedRow(d, b, books[d][b])
  <2>1. /\ shelf[b] # None => done.rows[b] # None
        /\ \/ done.rows[b] = shelf[b]
           \/ b \in done.wrote /\ done.rows[b] = AcceptedRow(d, b, books[d][b])
        /\ done.wrote \subseteq Sent(d)
    BY <1>1 DEF RequestSoFar
  <2>2. b \in done.wrote => b \in Wrote(d, done)
    BY DEF Wrote
  <2> QED BY <1>1, <1>4, <2>1, <2>2
<1>6. ASSUME NEW n \in Note
      PROVE  /\ filed'[n] = NewRow(d, n, done.rows) /\ filed'[n] \in NoteRow
             /\ \/ filed'[n] = filed[n] /\ stamp'[n] = stamp[n]
                \/ filed'[n] # filed[n] /\ filed'[n].device = d /\ stamp'[n] > lastRev
  <2>1. /\ filed'[n] = NewRow(d, n, done.rows) /\ filed'[n] \in NoteRow
        /\ filed'[n] # filed[n] => filed'[n].device = d
    BY <1>1, NewRowFacts
  <2>2. n \notin done.wrote
    BY <1>1, NotebookBounds DEF RequestSoFar, Sent, PendingBooks
  <2>3. n \in Wrote(d, done) <=> filed'[n] # filed[n]
    BY <2>1, <2>2 DEF Wrote
  <2> QED BY <1>4, <2>1, <2>3
<1>7. ServerTyped'
  <2>1. /\ shelf' \in [Notebook -> Row \union {None}]
        /\ \A b \in Notebook : shelf'[b] # None => Dated(shelf'[b], ops')
    <3>1. /\ done.rows = [b \in Notebook |-> done.rows[b]]
          /\ \A b \in Notebook : done.rows[b] # None =>
                done.rows[b] \in Row /\ Dated(done.rows[b], ops)
      BY <1>1 DEF RequestSoFar
    <3>2. \A b \in Notebook : shelf'[b] # None => Dated(shelf'[b], ops')
      BY <1>1, <3>1
    <3> QED BY <1>1, <3>1, <3>2
  <2>2. filed' \in [Note -> NoteRow]
    BY <1>1, <1>6
  <2>3. /\ stamp' \in [Notebook \union Note -> Nat]
        /\ \A x \in Notebook \union Note : stamp'[x] <= lastRev'
    BY <1>1, <1>2, <1>3
  <2>4. ASSUME NEW b \in Notebook, stamp'[b] > 0 PROVE shelf'[b] # None
    <3>1. CASE b \in Wrote(d, done)
      <4>1. b \in done.wrote
        BY <3>1, NotebookBounds DEF Wrote
      <4> QED BY <1>1, <4>1 DEF RequestSoFar
    <3>2. CASE b \notin Wrote(d, done)
      <4>1. shelf[b] # None
        BY <2>4, <3>2, <1>4, Here DEF ServerTyped
      <4> QED BY <1>5, <4>1
    <3> QED BY <3>1, <3>2
  <2> QED BY <1>1, <1>2, <1>3, <2>1, <2>2, <2>3, <2>4 DEF ServerTyped, Row, NoteRow
<1> QED BY <1>3, <1>4, <1>5, <1>6, <1>7

LEMMA AnswerFacts ==
    ASSUME NEW d \in Device, NEW heard \in BOOLEAN, RefsAllInv, NEW done, Pushed(d, heard, done)
    PROVE  /\ Sent(d) \subseteq Notebook
           /\ \A b \in Notebook : \A c \in AnswersOf(d, done, b) :
                c.of = b /\ c.of \in Sent(d) /\ GoodRefusal(d, done.rows, c)
           /\ \A b \in Sent(d) : AnswersOf(d, done, b) = {} =>
                done.rows[b] = AcceptedRow(d, b, books[d][b])
           /\ \A n \in Note : \A c \in AnswersOf(d, done, n) :
                /\ c = Conflict(n, "remote_changed", filed[n], n)
                /\ c.of = n /\ c.theirs = filed[n] /\ c.other = n /\ c.reason = "remote_changed"
                /\ NoteRefused(d, n, done.rows) /\ notes[d][n].status = "pending"
           /\ \A n \in Note : NoteRefused(d, n, done.rows) /\ notes[d][n].status = "pending" =>
                AnswersOf(d, done, n) # {}
           /\ \A c \in Answers(d, done) : c.of \in Note \/ c.of \in Sent(d)
           /\ \A c, e \in Answers(d, done) : c.of = e.of => c = e
<1>1. Sent(d) \subseteq Notebook
  BY DEF Sent, PendingBooks
<1>2. /\ \A c \in done.refused : c.of \in Sent(d) /\ GoodRefusal(d, done.rows, c)
      /\ \A b \in Sent(d) : \/ \E c \in done.refused : c.of = b
                            \/ done.rows[b] = AcceptedRow(d, b, books[d][b])
  BY DEF Pushed, RequestSoFar
<1>3. ASSUME NEW c \in StaleNotes(d, done.rows)
      PROVE  /\ c.of \in Note /\ c = Conflict(c.of, "remote_changed", filed[c.of], c.of)
             /\ c.theirs = filed[c.of] /\ c.other = c.of /\ c.reason = "remote_changed"
             /\ NoteRefused(d, c.of, done.rows) /\ notes[d][c.of].status = "pending"
  <2>1. PICK n \in PendingNotes(d) : /\ NoteRefused(d, n, done.rows)
                                     /\ c = Conflict(n, "remote_changed", filed[n], n)
    BY DEF StaleNotes
  <2> QED BY <2>1 DEF Conflict, PendingNotes
<1>4. ASSUME NEW n \in Note, NoteRefused(d, n, done.rows), notes[d][n].status = "pending"
      PROVE  AnswersOf(d, done, n) # {}
  <2> DEFINE c == Conflict(n, "remote_changed", filed[n], n)
  <2>1. c \in StaleNotes(d, done.rows) /\ c.of = n
    BY <1>4 DEF StaleNotes, PendingNotes, Conflict
  <2> QED BY <2>1 DEF AnswersOf, Answers
<1>5. \A n \in Note : n \notin Notebook
  BY NotebookBounds
<1>6. ASSUME NEW b \in Notebook, NEW c \in AnswersOf(d, done, b)
      PROVE  c.of = b /\ c.of \in Sent(d) /\ GoodRefusal(d, done.rows, c)
  BY <1>2, <1>3, <1>5 DEF AnswersOf, Answers
<1>7. ASSUME NEW n \in Note, NEW c \in AnswersOf(d, done, n)
      PROVE  /\ c = Conflict(n, "remote_changed", filed[n], n)
             /\ c.of = n /\ c.theirs = filed[n] /\ c.other = n /\ c.reason = "remote_changed"
             /\ NoteRefused(d, n, done.rows) /\ notes[d][n].status = "pending"
  <2>1. c.of = n /\ c \in StaleNotes(d, done.rows)
    BY <1>1, <1>2, <1>5 DEF AnswersOf, Answers
  <2> QED BY <2>1, <1>3
<1>8. ASSUME NEW b \in Sent(d), AnswersOf(d, done, b) = {}
      PROVE  done.rows[b] = AcceptedRow(d, b, books[d][b])
  BY <1>2, <1>8 DEF AnswersOf, Answers
<1>9. \A c \in Answers(d, done) : c.of \in Note \/ c.of \in Sent(d)
  BY <1>2, <1>3 DEF Answers
<1>10. \A c, e \in done.refused : c.of = e.of => c = e
  BY DEF Pushed, RequestSoFar
<1>11. \A c, e \in Answers(d, done) : c.of = e.of => c = e
  BY <1>1, <1>2, <1>3, <1>5, <1>10 DEF Answers
<1> QED BY <1>1, <1>4, <1>6, <1>7, <1>8, <1>9, <1>11

LEMMA AnsweredFacts ==
    ASSUME NEW C, NEW d, NEW r \in Local(C), NEW row, NEW answer,
           answer = {} => row.version \in Nat,
           \A c \in answer : c.theirs.version \in Nat,
           NEW s, s = Answered(d, r, row, answer)
    PROVE  /\ s \in Local(C) /\ s.content = r.content /\ s.life = r.life
           /\ answer = {} => s.status = "synced" /\ s.base = row.version
           /\ answer # {} => /\ r.base # 0 => s.base # 0
                             /\ \/ s.status = r.status /\ \E c \in answer : OwnEcho(d, c)
                                \/ s.status = "conflict" /\ \E c \in answer : ~OwnEcho(d, c)
<1> DEFINE c == CHOOSE x \in answer : TRUE
<1>1. s = IF answer = {} THEN Marked(r, row)
          ELSE IF OwnEcho(d, c) THEN Absorbed(r, c.theirs.version)
          ELSE [r EXCEPT !.status = "conflict"]
  BY DEF Answered
<1>2. answer # {} => c \in answer
  OBVIOUS
<1> HIDE DEF c
<1>3. CASE answer = {}
  <2>1. s = Marked(r, row)
    BY <1>1, <1>3
  <2>2. /\ s \in Local(C) /\ s.content = r.content /\ s.life = r.life
        /\ s.status = "synced" /\ s.base = row.version
    BY <1>3, <2>1, MarkedFacts
  <2> QED BY <1>3, <2>2
<1>4. CASE answer # {} /\ OwnEcho(d, c)
  <2>1. s = Absorbed(r, c.theirs.version) /\ c.theirs.version \in Nat
    BY <1>1, <1>2, <1>4
  <2>2. /\ s \in Local(C) /\ s.content = r.content /\ s.life = r.life
        /\ s.status = r.status /\ (r.base # 0 => s.base # 0)
    BY <2>1, AbsorbedFacts
  <2> QED BY <1>2, <1>4, <2>2
<1>5. CASE answer # {} /\ ~OwnEcho(d, c)
  <2>1. s = [r EXCEPT !.status = "conflict"]
    BY <1>1, <1>5
  <2>2. /\ s \in Local(C) /\ s.content = r.content /\ s.life = r.life
        /\ s.status = "conflict" /\ s.base = r.base
    BY <2>1, InConflictFacts
  <2> QED BY <1>2, <1>5, <2>2
<1> QED BY <1>3, <1>4, <1>5

LEMMA PushedBooks ==
    ASSUME NEW d \in Device, NEW heard \in BOOLEAN, RefsAllInv, NEW done, Pushed(d, heard, done),
           NEW b \in Notebook
    PROVE  /\ books'[d][b] \in BookRecord \union {None}
           /\ books'[d][b] # None =>
                /\ books[d][b] # None /\ books'[d][b].content = books[d][b].content
                /\ books'[d][b].life = books[d][b].life
           /\ b \notin Sent(d) /\ (books[d][b] = None \/ books[d][b].status # "pending")
                => books'[d][b] = books[d][b]
           /\ Unsettled(d, b)' =>
                /\ Unsettled(d, b)
                /\ books[d][b].base # 0 => books'[d][b].base # 0
                /\ \/ books[d][b].status = "conflict"
                   \/ b \in Sent(d) /\ (heard => AnswersOf(d, done, b) # {})
           /\ ~heard /\ books'[d][b] # None => books'[d][b] = books[d][b]
           /\ (books'[d][b] # None /\ books'[d][b].status = "conflict") =>
                \/ books[d][b].status = "conflict"
                \/ heard /\ \E c \in AnswersOf(d, done, b) : ~OwnEcho(d, c)
           /\ \A c \in AnswersOf(d, done, b) : heard /\ b \in Sent(d) /\ ~OwnEcho(d, c) =>
                books'[d][b] # None /\ books'[d][b].status = "conflict"
           /\ b \in Sent(d) /\ (heard => AnswersOf(d, done, b) # {}) => Unsettled(d, b)'
           /\ b \in Sent(d) /\ books[d][b].base # 0 => books'[d][b].base # 0
<1> DEFINE l == books[d][b]
           m == books'[d][b]
           a == AnswersOf(d, done, b)
<1>1. m = IF b \in LocalOnlyDeleted(d) THEN None
          ELSE IF heard /\ b \in Sent(d) THEN Answered(d, l, done.rows[b], a) ELSE l
  BY DEF Pushed
<1>2. /\ l \in BookRecord \union {None}
      /\ b \in Sent(d) => l # None /\ l.status = "pending" /\ b \notin LocalOnlyDeleted(d)
      /\ Unsettled(d, b) /\ b \notin LocalOnlyDeleted(d) => b \in Sent(d) \/ l.status = "conflict"
  <2>2. l # None => l.status \in {"pending", "synced", "conflict"}
    BY Here DEF BookRecord, Local, Status
  <2> QED BY <2>2, Here DEF Sent, PendingBooks, Unsettled
<1>3. /\ b \in LocalOnlyDeleted(d) => l # None /\ l.status = "pending"
      /\ \A c, e \in a : c = e
  BY AnswerFacts DEF LocalOnlyDeleted, PendingBooks, AnswersOf
<1>4. \A x \in BookRecord : x # None
  BY NoneAssumption DEF BookRecord
<1>5. Unsettled(d, b) <=> l # None /\ l.status # "synced"
  BY DEF Unsettled
<1>6. Unsettled(d, b)' <=> m # None /\ m.status # "synced"
  BY DEF Unsettled
<1>7. CASE heard /\ b \in Sent(d)
  <2>1. \A c \in a : c.theirs.version \in Nat
    BY AnswerFacts DEF GoodRefusal, Row
  <2>2. a = {} => done.rows[b].version \in Nat \ {0}
    <3>1. a = {} => done.rows[b] = AcceptedRow(d, b, l)
      <4>1. \A x \in Sent(d) : AnswersOf(d, done, x) = {} =>
                done.rows[x] = AcceptedRow(d, x, books[d][x])
        BY AnswerFacts
      <4> QED BY <1>7, <4>1
    <3>2. AcceptedRow(d, b, l) \in Row
      BY <1>2, <1>7, AcceptedFacts
    <3> QED BY <3>1, <3>2 DEF Row
  <2>3. m = Answered(d, l, done.rows[b], a) /\ l \in BookRecord /\ l.status = "pending"
    BY <1>1, <1>2, <1>7
  <2> HIDE DEF l, m, a
  <2>4. /\ m \in BookRecord /\ m.content = l.content /\ m.life = l.life
        /\ a = {} => m.status = "synced" /\ m.base # 0
        /\ a # {} => /\ l.base # 0 => m.base # 0
                     /\ \/ m.status = l.status /\ \E c \in a : OwnEcho(d, c)
                        \/ m.status = "conflict" /\ \E c \in a : ~OwnEcho(d, c)
    <3> DEFINE row == done.rows[b]
    <3>1. a = {} => row.version \in Nat /\ row.version # 0
      BY <2>2
    <3> HIDE DEF row
    <3>2. m = Answered(d, l, row, a)
      BY <2>3 DEF row
    <3> QED BY <2>1, <2>3, <3>1, <3>2, AnsweredFacts DEF BookRecord
  <2> QED BY <1>2, <1>3, <1>4, <1>5, <1>6, <1>7, <2>3, <2>4 DEF l, m, a
<1>8. CASE ~(heard /\ b \in Sent(d))
  <2>1. m = IF b \in LocalOnlyDeleted(d) THEN None ELSE l
    BY <1>1, <1>8
  <2> HIDE DEF l, m, a
  <2> QED BY <1>2, <1>3, <1>5, <1>6, <1>8, <2>1 DEF l, m, a
<1> QED BY <1>7, <1>8

LEMMA PushedNotes ==
    ASSUME NEW d \in Device, NEW heard \in BOOLEAN, RefsAllInv, NEW done, Pushed(d, heard, done),
           NEW n \in Note
    PROVE  /\ notes'[d][n] \in NoteRecord
           /\ notes[d][n].status = "conflict" => notes'[d][n].status = "conflict"
           /\ notes'[d][n].status = "synced" =>
                notes'[d][n].content = filed'[n].content \/ stamp'[n] > Reach(d)
           /\ notes'[d][n].status = "conflict" =>
                /\ filed'[n].device # d
                /\ \/ notes[d][n].status = "conflict"
                   \/ heard /\ \E c \in AnswersOf(d, done, n) : ~OwnEcho(d, c)
           /\ \A c \in AnswersOf(d, done, n) :
                heard /\ ~OwnEcho(d, c) => notes'[d][n].status = "conflict"
           /\ (notes[d][n].status = "pending" /\ filed'[n] = filed[n] /\ filed[n].device = d
               /\ filed[n].content # SyncableRefs(notes[d][n].content, done.rows))
                => notes'[d][n].status = "pending"
<1> DEFINE l == notes[d][n]
           m == notes'[d][n]
           a == AnswersOf(d, done, n)
           row == NewRow(d, n, done.rows)
           pending == l.status = "pending"
           refused == NoteRefused(d, n, done.rows)
<1>1. m = IF heard /\ pending THEN Answered(d, l, row, a) ELSE l
  BY DEF Pushed, PendingNotes
<1>2. /\ l \in NoteRecord /\ l.status \in {"pending", "synced", "conflict"}
      /\ l.status = "conflict" => filed[n].device # d
  <2>1. l.status = "conflict" => filed[n].device # d
    BY DEF RefsAllInv, DeviceInv, ConflictsInv
  <2> QED BY <2>1, Here DEF NoteRecord, Local, Status
<1>3. /\ \A c \in a : /\ c.theirs = filed[n] /\ c.reason = "remote_changed"
                      /\ refused /\ pending
      /\ refused /\ pending => a # {}
  BY AnswerFacts
<1>4. /\ row \in NoteRow /\ filed'[n] = row
      /\ row = filed[n] /\ pending /\ ~refused =>
           /\ l.content = filed[n].content
           /\ filed[n].content = SyncableRefs(l.content, done.rows)
      /\ row # filed[n] => pending
      /\ refused => row = filed[n]
      /\ \/ row = filed[n] /\ stamp'[n] = stamp[n]
         \/ row # filed[n] /\ stamp'[n] > lastRev
  BY NewRowFacts, PushedServer
<1>5. \A c \in a : OwnEcho(d, c) <=> filed[n].device = d
  BY <1>3 DEF OwnEcho
<1>6. /\ filed[n] \in NoteRow /\ Reach(d) \in Nat /\ lastRev \in Nat /\ Reach(d) <= lastRev
      /\ stamp'[n] \in Nat /\ stamp[n] \in Nat
      /\ l.status = "synced" => l.content = filed[n].content \/ stamp[n] > Reach(d)
  <2>1. ServerTyped'
    BY PushedServer
  <2> QED BY <2>1, Here DEF ServerTyped, DeviceInv, DeviceTyped, Reach, CopyInv
<1> HIDE DEF l, m, a, row, pending, refused
<1>7. CASE heard /\ pending
  <2>1. m = Answered(d, l, row, a)
    BY <1>1, <1>7
  <2>2. a = {} => row.version \in Nat
    BY <1>4 DEF NoteRow
  <2>9. \A c \in a : c.theirs.version \in Nat
    BY <1>3, <1>6 DEF NoteRow
  <2>3. /\ m \in NoteRecord /\ m.content = l.content /\ m.life = l.life
        /\ a = {} => m.status = "synced"
        /\ a # {} => /\ l.base # 0 => m.base # 0
                     /\ \/ m.status = l.status /\ \E c \in a : OwnEcho(d, c)
                        \/ m.status = "conflict" /\ \E c \in a : ~OwnEcho(d, c)
    <3> DEFINE first == CHOOSE x \in a : TRUE
    <3>1. m = IF a = {} THEN Marked(l, row)
              ELSE IF OwnEcho(d, first) THEN Absorbed(l, first.theirs.version)
              ELSE [l EXCEPT !.status = "conflict"]
      BY <2>1 DEF Answered
    <3>2. a # {} => first \in a
      OBVIOUS
    <3> HIDE DEF first
    <3>3. CASE a = {}
      <4>1. m = Marked(l, row) /\ l \in NoteRecord /\ row.version \in Nat
        BY <1>2, <2>2, <3>1, <3>3
      <4>2. /\ m \in NoteRecord /\ m.content = l.content /\ m.life = l.life
            /\ m.status = "synced"
        BY <4>1, MarkedFacts DEF NoteRecord
      <4> QED BY <3>3, <4>2
    <3>4. CASE a # {} /\ OwnEcho(d, first)
      <4>1. m = Absorbed(l, first.theirs.version) /\ l \in NoteRecord
            /\ first.theirs.version \in Nat
        BY <1>2, <2>9, <3>1, <3>2, <3>4
      <4>2. /\ m \in NoteRecord /\ m.content = l.content /\ m.life = l.life
            /\ m.status = l.status /\ (l.base # 0 => m.base # 0)
        BY <4>1, AbsorbedFacts DEF NoteRecord
      <4> QED BY <3>2, <3>4, <4>2
    <3>5. CASE a # {} /\ ~OwnEcho(d, first)
      <4>1. m = [l EXCEPT !.status = "conflict"] /\ l \in NoteRecord
        BY <1>2, <3>1, <3>5
      <4>2. /\ m \in NoteRecord /\ m.content = l.content /\ m.life = l.life
            /\ m.status = "conflict" /\ m.base = l.base
        BY <4>1, InConflictFacts DEF NoteRecord
      <4> QED BY <3>2, <3>5, <4>2
    <3> QED BY <3>3, <3>4, <3>5
  <2>4. l.status = "pending"
    BY <1>7 DEF pending
  <2>5. m.status = "synced" => m.content = row.content \/ stamp'[n] > Reach(d)
    <3>1. CASE a # {}
      BY <3>1, <2>3, <2>4
    <3>2. CASE a = {} /\ row = filed[n]
      <4>1. ~refused
        BY <1>3, <1>7, <3>2
      <4> QED BY <4>1, <1>4, <1>7, <2>3, <3>2
    <3>3. CASE row # filed[n]
      BY <3>3, <1>4, <1>6
    <3> QED BY <3>1, <3>2, <3>3
  <2>6. m.status = "conflict" => row.device # d /\ \E c \in a : ~OwnEcho(d, c)
    <3>1. ASSUME m.status = "conflict" PROVE row.device # d /\ \E c \in a : ~OwnEcho(d, c)
      <4>1. \E c \in a : ~OwnEcho(d, c)
        BY <3>1, <2>3, <2>4
      <4> QED BY <4>1, <1>3, <1>4, <1>5
    <3> QED BY <3>1
  <2>7. \A c \in a : ~OwnEcho(d, c) => m.status = "conflict"
    BY <2>3, <1>5
  <2>8. (row = filed[n] /\ filed[n].device = d
         /\ filed[n].content # SyncableRefs(l.content, done.rows)) => m.status = "pending"
    <3>1. ASSUME row = filed[n], filed[n].device = d,
                 filed[n].content # SyncableRefs(l.content, done.rows)
          PROVE  m.status = "pending"
      <4>1. refused /\ a # {}
        BY <3>1, <1>3, <1>4, <1>7
      <4>2. \A c \in a : OwnEcho(d, c)
        BY <3>1, <1>5
      <4> QED BY <4>1, <4>2, <2>3, <2>4
    <3> QED BY <3>1
  <2> QED BY <1>2, <1>4, <1>7, <2>3, <2>4, <2>5, <2>6, <2>7, <2>8 DEF l, m, a, row
<1>8. CASE ~(heard /\ pending)
  <2>1. m = l
    BY <1>1, <1>8
  <2>2. m.status = "synced" => m.content = row.content \/ stamp'[n] > Reach(d)
    BY <2>1, <1>4, <1>6 DEF pending
  <2>3. \A c \in a : ~heard
    BY <1>3, <1>8
  <2>4. l.status = "conflict" => row.device # d
    BY <1>2, <1>4 DEF pending
  <2> QED BY <1>2, <1>4, <2>1, <2>2, <2>3, <2>4 DEF l, m, a, row
<1> QED BY <1>7, <1>8

LEMMA PushedDevice ==
    ASSUME NEW d \in Device, NEW heard \in BOOLEAN, RefsAllInv, NEW done, Pushed(d, heard, done)
    PROVE  DeviceInv(d)' /\ \A t \in Unsent(d)' : t \in Unsent(d)
<1> DEFINE open == {x \in Answers(d, done) : ~OwnEcho(d, x)}
<1>1. /\ stage[d] = "idle" /\ cursor' = cursor /\ arrived' = arrived
      /\ ops' = ops /\ ops \in Nat
      /\ conflicts'[d] = IF heard THEN conflicts[d] \union {Stored(d, c) : c \in open}
                         ELSE conflicts[d]
      /\ stage'[d] = IF heard THEN "pushed" ELSE "idle"
  BY Here DEF Pushed
<1>2. /\ Reach(d) = cursor[d] /\ Reach(d)' = cursor[d] /\ cursor[d] \in Nat /\ lastRev \in Nat
      /\ cursor[d] <= lastRev /\ lastRev' \in Nat /\ lastRev' >= lastRev
      /\ \A x \in Notebook \union Note :
            stamp[x] \in Nat /\ (stamp'[x] = stamp[x] \/ stamp'[x] > lastRev)
  <2>1. ServerTyped' /\ lastRev' >= lastRev
        /\ \A x \in Notebook \union Note : stamp'[x] = stamp[x] \/ stamp'[x] > lastRev
    BY PushedServer
  <2> QED BY <1>1, <2>1, Here DEF Reach, DeviceInv, DeviceTyped, ServerTyped
<1>3. ASSUME NEW c \in open, NEW s, s = Stored(d, c)
      PROVE  /\ s.of = c.of
             /\ c.of \in Note \/ c.of \in Sent(d)
             /\ c.of \in Note => /\ NoteSides(s)' /\ (notes'[d][c.of].status = "conflict" \/ ~heard)
                                 /\ notes[d][c.of].status = "pending"
             /\ c.of \in Sent(d) =>
                  /\ BookSides(s)' /\ s.mine = books[d][c.of]
                  /\ heard => books'[d][c.of] # None /\ books'[d][c.of].status = "conflict"
  <2>1. /\ s.of = c.of /\ s.reason = c.reason /\ s.theirs = c.theirs /\ s.other = c.other
        /\ s.mine = IF c.of \in Notebook THEN books[d][c.of] ELSE notes[d][c.of]
    BY <1>3 DEF Stored
  <2>2. c \in AnswersOf(d, done, c.of) /\ ~OwnEcho(d, c) /\ (c.of \in Note \/ c.of \in Sent(d))
    BY AnswerFacts DEF AnswersOf
  <2>3. ASSUME c.of \in Note
        PROVE  /\ NoteSides(s)' /\ (notes'[d][c.of].status = "conflict" \/ ~heard)
               /\ notes[d][c.of].status = "pending"
    <3>1. /\ notes[d][c.of].status = "pending"
          /\ c.theirs = filed[c.of] /\ c.other = c.of /\ c.reason = "remote_changed"
      BY <2>2, <2>3, AnswerFacts
    <3>2. s.mine = notes[d][c.of] /\ s.mine \in NoteRecord /\ filed[c.of] \in NoteRow
      BY <2>1, <2>3, NotebookBounds, Here DEF ServerTyped
    <3>3. NoteSides(s)
      BY <2>1, <3>1, <3>2 DEF NoteSides
    <3>4. NoteSides(s)'
      BY <3>3 DEF NoteSides, NoteRecord
    <3>5. notes'[d][c.of].status = "conflict" \/ ~heard
      BY <2>2, <2>3, PushedNotes
    <3> QED BY <3>1, <3>4, <3>5
  <2>4. ASSUME c.of \in Sent(d)
        PROVE  /\ BookSides(s)' /\ s.mine = books[d][c.of]
               /\ heard => books'[d][c.of] # None /\ books'[d][c.of].status = "conflict"
    <3>1. c.of \in Notebook /\ GoodRefusal(d, done.rows, c)
      BY <2>2, <2>4, AnswerFacts
    <3>2. s.mine = books[d][c.of] /\ Unsettled(d, c.of)
      BY <2>1, <2>4, <3>1 DEF Sent, PendingBooks, Unsettled
    <3>3. /\ s.mine \in BookRecord /\ Dated(s.mine, ops) /\ Timed(s.mine)
      BY <3>1, <3>2, Here DEF Unsettled, DeviceInv, DeviceTyped, DeletionInv
    <3>4. shelf'[c.other] # None /\ shelf'[c.of] = shelf[c.of]
      BY <3>1, PushedServer DEF GoodRefusal
    <3>5. ~SameDeletion(s.mine, c.of)'
      BY <3>1, <3>2, <3>4 DEF SameDeletion, HasRow, GoodRefusal
    <3>6. Dated(s.mine, ops') /\ Dated(s.theirs, ops')
      BY <1>1, <2>1, <3>1, <3>3 DEF GoodRefusal
    <3>7. heard => books'[d][c.of] # None /\ books'[d][c.of].status = "conflict"
      BY <2>2, <2>4, <3>1, PushedBooks
    <3> QED BY <2>1, <3>1, <3>2, <3>3, <3>4, <3>5, <3>6, <3>7
            DEF BookSides, GoodRefusal, BookRecord, Timed, Dated
  <2> QED BY <2>1, <2>2, <2>3, <2>4
<1> HIDE DEF open
<1>4. DeviceTyped(d)'
  <2>1. ASSUME NEW b \in Notebook, books'[d][b] # None PROVE Dated(books'[d][b], ops)
    <3>1. /\ books[d][b] # None /\ books'[d][b].content = books[d][b].content
          /\ books'[d][b].life = books[d][b].life
      BY <2>1, PushedBooks
    <3>2. Dated(books[d][b], ops)
      BY <3>1, Here DEF DeviceInv, DeviceTyped
    <3> QED BY <3>1, <3>2 DEF Dated
  <2>2. \A b \in Notebook : books'[d][b] # None => Dated(books'[d][b], ops')
    BY <1>1, <2>1
  <2>3. /\ books'[d] \in [Notebook -> BookRecord \union {None}]
        /\ notes'[d] \in [Note -> NoteRecord]
    <3>1. \E f, g : books'[d] = [b \in Notebook |-> f[b]] /\ notes'[d] = [n \in Note |-> g[n]]
      <4> DEFINE f == [b \in Notebook |-> books'[d][b]]
                 g == [n \in Note |-> notes'[d][n]]
      <4>1. books'[d] = f /\ notes'[d] = g
        BY DEF Pushed
      <4> QED BY <4>1
    <3>2. \A b \in Notebook : books'[d][b] \in BookRecord \union {None}
      BY PushedBooks
    <3>3. \A n \in Note : notes'[d][n] \in NoteRecord
      BY PushedNotes
    <3> QED BY <3>1, <3>2, <3>3
  <2>4. /\ cursor'[d] \in Nat /\ stage'[d] \in {"idle", "pushed", "merged"}
        /\ cursor'[d] <= Reach(d)' /\ Reach(d)' <= lastRev'
    BY <1>1, <1>2
  <2>5. arrived'[d] \in [purged : SUBSET Notebook, deleted : SUBSET Notebook, next : Nat]
    BY <1>1, Here DEF DeviceInv, DeviceTyped
  <2> QED BY <2>2, <2>3, <2>4, <2>5 DEF DeviceTyped, BookRecord, NoteRecord
<1>5. Sent(d) \subseteq Notebook
  BY AnswerFacts
<1>11. ASSUME NEW s \in conflicts'[d]
       PROVE  s \in conflicts[d] \/ (heard /\ \E c \in open : s = Stored(d, c))
  <2>1. CASE heard
    <3>1. conflicts'[d] = conflicts[d] \union {Stored(d, c) : c \in open}
      BY <1>1, <2>1
    <3> QED BY <3>1, <2>1, <1>11
  <2>2. CASE ~heard
    BY <1>1, <1>11, <2>2
  <2> QED BY <2>1, <2>2
<1>12. /\ \A n \in Note : notes[d][n].status = "conflict" => \E c \in conflicts[d] : c.of = n
       /\ \A c \in conflicts[d] : c.of \in Note => notes[d][c.of].status = "conflict"
       /\ \A c, e \in conflicts[d] : c.of = e.of /\ c.of \in Note => c = e
       /\ \A c, e \in conflicts[d] : c.of = e.of /\ c.of \in Notebook => c = e
       /\ \A b \in Notebook : (books[d][b] # None /\ books[d][b].status = "conflict") =>
               \E c \in conflicts[d] : c.of = b
       /\ \A c \in conflicts[d] : c.of \in Notebook =>
             /\ shelf[c.of] # None \/ books[d][c.of] # None
             /\ books[d][c.of] # None => books[d][c.of].status # "pending"
  BY DEF RefsAllInv, DeviceInv, ConflictsInv, HeldInv
<1>13. \A c \in conflicts[d] : c.of \notin Sent(d)
  BY <1>5, <1>12 DEF Sent, PendingBooks
<1>14. ASSUME NEW s \in conflicts'[d], NEW x \in conflicts'[d], s.of = x.of,
              s.of \in Note \/ s.of \in Notebook
       PROVE  s = x
  <2>1. CASE s \in conflicts[d] /\ x \in conflicts[d]
    BY <2>1, <1>12, <1>14
  <2>2. ASSUME NEW y, y \in conflicts[d], NEW c \in open, y.of = c.of PROVE FALSE
    BY <2>2, <1>3, <1>12, <1>13
  <2>3. CASE \E c, e \in open : s = Stored(d, c) /\ x = Stored(d, e)
    <3>1. PICK c, e \in open : s = Stored(d, c) /\ x = Stored(d, e)
      BY <2>3
    <3>2. c.of = e.of
      BY <1>3, <1>14, <3>1
    <3>3. c = e
      BY <3>2, AnswerFacts DEF open
    <3> QED BY <3>1, <3>3
  <2> QED BY <2>1, <2>2, <2>3, <1>3, <1>11, <1>14
<1>15. ConflictsInv(d)'
  <2>1. ASSUME NEW s \in conflicts[d]
        PROVE  \/ s.of \in Note /\ NoteSides(s)'
               \/ s.of \in Notebook /\ BookSides(s)'
    <3>1. NoteSides(s) => NoteSides(s)'
      BY DEF NoteSides, NoteRecord
    <3>2. ASSUME s.of \in Notebook, BookSides(s) PROVE BookSides(s)'
      <4>1. shelf'[s.other] # None /\ shelf'[s.of] = shelf[s.of]
        BY <3>2, <1>13, PushedServer DEF BookSides
      <4>2. ~SameDeletion(s.mine, s.of)'
        BY <3>2, <4>1 DEF SameDeletion, HasRow, BookSides
      <4> QED BY <1>1, <3>2, <4>1, <4>2 DEF BookSides, BookRecord, Dated, Timed
    <3> QED BY <3>1, <3>2, ConflictSides
  <2>3. \A s \in conflicts'[d] : \/ s.of \in Note /\ NoteSides(s)'
                                 \/ s.of \in Notebook /\ BookSides(s)'
    BY <1>3, <1>5, <1>11, <2>1
  <2>4. ASSUME NEW n \in Note, notes'[d][n].status = "conflict"
        PROVE  filed'[n].device # d /\ \E s \in conflicts'[d] : s.of = n
    <3>1. /\ filed'[n].device # d
          /\ \/ notes[d][n].status = "conflict"
             \/ heard /\ \E c \in AnswersOf(d, done, n) : ~OwnEcho(d, c)
      BY <2>4, PushedNotes
    <3>2. CASE notes[d][n].status = "conflict"
      BY <1>1, <1>12, <3>1, <3>2
    <3>3. CASE heard /\ \E c \in AnswersOf(d, done, n) : ~OwnEcho(d, c)
      <4>1. PICK c \in open : c.of = n
        BY <3>3 DEF open, AnswersOf
      <4>2. Stored(d, c) \in conflicts'[d] /\ Stored(d, c).of = n
        BY <1>1, <1>3, <3>3, <4>1
      <4> QED BY <3>1, <4>2
    <3> QED BY <3>1, <3>2, <3>3
  <2>5. \A s \in conflicts'[d] : s.of \in Note => notes'[d][s.of].status = "conflict"
    <3>1. \A n \in Note : notes[d][n].status = "conflict" => notes'[d][n].status = "conflict"
      BY PushedNotes
    <3> QED BY <1>3, <1>11, <1>12, <3>1
  <2>7. ASSUME NEW b \in Notebook, books'[d][b] # None, books'[d][b].status = "conflict"
        PROVE  \E s \in conflicts'[d] : s.of = b
    <3>1. /\ books[d][b] # None
          /\ \/ books[d][b].status = "conflict"
             \/ heard /\ \E c \in AnswersOf(d, done, b) : ~OwnEcho(d, c)
      BY <2>7, PushedBooks
    <3>2. CASE books[d][b].status = "conflict"
      BY <1>1, <1>12, <3>1, <3>2
    <3>3. CASE heard /\ \E c \in AnswersOf(d, done, b) : ~OwnEcho(d, c)
      <4>1. PICK c \in open : c.of = b
        BY <3>3 DEF open, AnswersOf
      <4>2. Stored(d, c) \in conflicts'[d] /\ Stored(d, c).of = b
        BY <1>1, <1>3, <3>3, <4>1
      <4> QED BY <4>2
    <3> QED BY <3>1, <3>2, <3>3
  <2> QED BY <2>3, <2>4, <2>5, <2>7, <1>14 DEF ConflictsInv
<1>6. CopyInv(d)'
  <2>1. \A n \in Note : notes'[d][n].status = "synced" =>
            notes'[d][n].content = filed'[n].content \/ stamp'[n] > Reach(d)
    BY PushedNotes
  <2> QED BY <2>1, <1>2 DEF CopyInv
<1>7. DeletionInv(d)'
  <2> SUFFICES ASSUME NEW b \in Notebook, Unsettled(d, b)', NEW r, r = books'[d][b]
               PROVE  /\ Timed(r)
                      /\ SameDeletion(r, b)' =>
                             /\ r.status # "conflict"
                             /\ stage'[d] = "idle" /\ stamp'[b] > cursor[d]
    BY <1>1 DEF DeletionInv, SameDeletion, HasRow, Timed
  <2>1. /\ Unsettled(d, b) /\ r # None
        /\ r.content = books[d][b].content /\ r.life = books[d][b].life
        /\ \/ books[d][b].status = "conflict"
           \/ b \in Sent(d) /\ (heard => AnswersOf(d, done, b) # {})
        /\ r.status = "conflict" => heard \/ books[d][b].status = "conflict"
    BY PushedBooks DEF Unsettled
  <2>2. /\ Timed(books[d][b])
        /\ SameDeletion(books[d][b], b) =>
              books[d][b].status # "conflict" /\ stamp[b] > cursor[d]
    BY <2>1 DEF RefsAllInv, DeviceInv, DeletionInv
  <2>3. Timed(r)
    BY <2>1, <2>2 DEF Timed
  <2>4. shelf'[b] = shelf[b] /\ SameDeletion(r, b)' => SameDeletion(books[d][b], b)
    BY <2>1 DEF SameDeletion, HasRow
  <2>7. CASE books[d][b].status = "conflict"
    <3>1. b \notin Sent(d)
      BY <2>7 DEF Sent, PendingBooks
    <3>2. shelf'[b] = shelf[b]
      BY <3>1, PushedServer
    <3> QED BY <2>2, <2>3, <2>4, <2>7, <3>2
  <2>5. CASE heard /\ books[d][b].status # "conflict"
    <3>1. \A c \in AnswersOf(d, done, b) : c.of = b /\ GoodRefusal(d, done.rows, c)
      BY AnswerFacts
    <3>2. PICK c \in AnswersOf(d, done, b) : c.of = b /\ GoodRefusal(d, done.rows, c)
      BY <2>1, <2>5, <3>1
    <3>3. shelf'[b] = shelf[b] /\ ~SameDeletion(books[d][b], b)
      BY <3>2, PushedServer DEF GoodRefusal
    <3> QED BY <2>3, <2>4, <3>3
  <2>6. CASE ~heard /\ books[d][b].status # "conflict"
    <3>1. shelf'[b] = shelf[b] \/ stamp'[b] > lastRev
      BY PushedServer
    <3>2. stamp'[b] \in Nat /\ (stamp'[b] = stamp[b] \/ stamp'[b] > lastRev)
      BY PushedServer DEF ServerTyped
    <3>3. SameDeletion(r, b)' => stamp'[b] > cursor[d]
      BY <2>2, <2>4, <3>1, <3>2, <1>2
    <3> QED BY <2>1, <2>3, <2>6, <3>3, <1>1
  <2> QED BY <2>5, <2>6, <2>7
<1>8. HeldInv(d)'
  <2>1. ASSUME NEW s \in conflicts'[d], s.of \in Notebook
        PROVE  /\ shelf'[s.of] # None \/ books'[d][s.of] # None
               /\ books'[d][s.of] # None => books'[d][s.of].status # "pending"
    <3>1. CASE s \in conflicts[d]
      <4>1. books'[d][s.of] = books[d][s.of]
        BY <2>1, <3>1, <1>12, <1>13, PushedBooks
      <4>2. shelf[s.of] # None => shelf'[s.of] # None
        BY <2>1, PushedServer
      <4> QED BY <2>1, <3>1, <4>1, <4>2, <1>12
    <3>2. CASE heard /\ \E c \in open : s = Stored(d, c)
      BY <2>1, <3>2, <1>3, NotebookBounds
    <3> QED BY <1>11, <3>1, <3>2
  <2> QED BY <2>1, <1>14 DEF HeldInv
<1>9. DeviceInv(d)'
  BY <1>4, <1>6, <1>7, <1>8, <1>15 DEF DeviceInv
<1>10. ASSUME NEW t \in Unsent(d)' PROVE t \in Unsent(d)
  <2>1. t \in Int /\ t < 0
    BY DEF Unsent
  <2>2. ASSUME NEW b \in Notebook, Unsettled(d, b), t \in books[d][b].content PROVE t \in Unsent(d)
    BY <2>1, <2>2 DEF Unsent
  <2>3. CASE \E b \in Notebook : Unsettled(d, b)' /\ t \in books'[d][b].content
    <3>1. PICK b \in Notebook : Unsettled(d, b)' /\ t \in books'[d][b].content
      BY <2>3
    <3>2. Unsettled(d, b) /\ books'[d][b].content = books[d][b].content
      BY <3>1, PushedBooks DEF Unsettled
    <3> QED BY <2>2, <3>1, <3>2
  <2>4. CASE \E s \in conflicts'[d] : s.of \in Notebook /\ t \in s.mine.content
    <3>1. PICK s \in conflicts'[d] : s.of \in Notebook /\ t \in s.mine.content
      BY <2>4
    <3>2. CASE s \in conflicts[d]
      BY <2>1, <3>1, <3>2 DEF Unsent
    <3>3. CASE \E c \in open : s = Stored(d, c)
      <4>1. PICK c \in open : s = Stored(d, c)
        BY <3>3
      <4>2. c.of \in Sent(d) /\ s.of = c.of /\ s.mine = books[d][c.of]
        BY <1>3, <3>1, <4>1, NotebookBounds
      <4>3. Unsettled(d, c.of) /\ c.of \in Notebook
        BY <4>2, <1>5 DEF Sent, PendingBooks, Unsettled
      <4> QED BY <2>2, <3>1, <4>2, <4>3
    <3> QED BY <3>2, <3>3, <1>11
  <2> QED BY <2>3, <2>4 DEF Unsent
<1> QED BY <1>9, <1>10

LEMMA PushKeepsRefs ==
    ASSUME NEW d \in Device, NEW heard \in BOOLEAN, RefsAllInv, Push(d, heard)
    PROVE  RefsAllInv'
<1>1. PICK done : Pushed(d, heard, done)
  BY PushIsPushed
<1>2. /\ OnlyDevice(d) /\ stage[d] = "idle" /\ ops' = ops /\ cursor' = cursor
      /\ stage'[d] = IF heard THEN "pushed" ELSE "idle"
      /\ ~heard => notes'[d] = [n \in Note |-> notes[d][n]]
  BY <1>1 DEF Pushed
<1>3. ServerTyped' /\ lastRev' >= lastRev
  BY <1>1, PushedServer
<1>4. /\ \A x \in Notebook \union Note : stamp'[x] = stamp[x] \/ stamp'[x] > lastRev
      /\ \A b \in Notebook :
           /\ shelf'[b] = done.rows[b]
           /\ shelf[b] # None => shelf'[b] # None
           /\ \/ shelf'[b] = shelf[b]
              \/ /\ stamp'[b] > lastRev /\ b \in Sent(d)
                 /\ shelf'[b] = AcceptedRow(d, b, books[d][b])
      /\ \A n \in Note :
           /\ filed'[n] = NewRow(d, n, done.rows)
           /\ \/ filed'[n] = filed[n] /\ stamp'[n] = stamp[n]
              \/ filed'[n] # filed[n] /\ filed'[n].device = d /\ stamp'[n] > lastRev
  BY <1>1, PushedServer
<1>5. /\ lastRev \in Nat /\ lastRev' \in Nat /\ cursor[d] \in Nat /\ cursor[d] <= lastRev
      /\ Reach(d)' = cursor[d] /\ Reach(d) = cursor[d]
      /\ \A x \in Notebook \union Note : /\ stamp[x] \in Nat /\ stamp[x] <= lastRev
                                         /\ stamp'[x] \in Nat
  BY <1>2, <1>3, Here DEF ServerTyped, DeviceInv, DeviceTyped, Reach
<1>6. DeviceInv(d)' /\ \A t \in Unsent(d)' : t \in Unsent(d)
  BY <1>1, PushedDevice
<1>7. ASSUME NEW e \in Device \ {d} PROVE BehindBack(e)
  <2>1. ASSUME NEW b \in Notebook, shelf'[b] # shelf[b], NEW t \in shelf'[b].content, t < 0
        PROVE  t \notin Unsent(e)
    <3>1. b \in Sent(d) /\ shelf'[b] = AcceptedRow(d, b, books[d][b])
      BY <1>4, <2>1
    <3>2. books[d][b] # None /\ Unsettled(d, b)
      BY <3>1 DEF Sent, PendingBooks, Unsettled
    <3>3. shelf'[b].content = books[d][b].content
      BY <3>1, <3>2, AcceptedFacts
    <3>4. t \in Int
      BY <2>1, <3>2, <3>3, Here, RecordInts
    <3>5. t \in Unsent(d)
      BY <2>1, <3>2, <3>3, <3>4 DEF Unsent
    <3> QED BY <3>5 DEF RefsAllInv, DeletionsApart
  <2>2. /\ books'[e] = books[e] /\ notes'[e] = notes[e] /\ conflicts'[e] = conflicts[e]
        /\ cursor'[e] = cursor[e] /\ stage'[e] = stage[e] /\ arrived'[e] = arrived[e]
    BY <1>2 DEF OnlyDevice
  <2>3. \A n \in Note : \/ filed'[n] = filed[n] /\ stamp'[n] = stamp[n]
                        \/ filed'[n].device # e /\ stamp'[n] > lastRev
    BY <1>4
  <2>4. \A b \in Notebook :
          /\ shelf[b] # None => shelf'[b] # None
          /\ shelf'[b] = shelf[b] \/ stamp'[b] > lastRev
          /\ \/ shelf'[b] = shelf[b] \/ ~HasRow(b)'
             \/ \A t \in shelf'[b].content : t < 0 => t \notin Unsent(e)
    BY <1>4, <2>1
  <2> QED BY <1>2, <1>3, <1>4, <2>2, <2>3, <2>4 DEF BehindBack
<1>8. /\ \A e \in Device \ {d} : DeviceInv(e)' /\ Unsent(e)' = Unsent(e)
      /\ \A e \in Device \ {d} : \A n \in Note : \A c \in filed'[n].content : filed'[n].device = e =>
             /\ shelf'[c] # None
             /\ ~OnShelf(c)' => stamp'[c] > stamp'[n] /\ Owed(e, n, c)'
  BY <1>7, ServerFrame
<1>9. DeletionsApart'
  BY <1>6, <1>8 DEF RefsAllInv, DeletionsApart
<1>10. ASSUME NEW n \in Note, NEW b \in filed'[n].content, filed'[n].device = d
       PROVE  /\ shelf'[b] # None
              /\ ~OnShelf(b)' => stamp'[b] > stamp'[n] /\ Owed(d, n, b)'
  <2>0. b \in Notebook
    BY <1>3, <1>10 DEF ServerTyped, NoteRow
  <2>1. OnShelf(b)' <=> (done.rows[b] # None /\ done.rows[b].life = "active")
    BY <1>4, <2>0 DEF OnShelf
  <2>2. CASE filed'[n] # filed[n]
    <3>1. filed'[n].content = SyncableRefs(notes[d][n].content, done.rows)
      BY <1>4, <2>2, NewRowFacts
    <3>2. OnShelf(b)'
      BY <1>10, <2>1, <3>1 DEF SyncableRefs
    <3> QED BY <3>2 DEF OnShelf
  <2>3. CASE filed'[n] = filed[n]
    <3>1. /\ shelf[b] # None /\ filed[n].device = d /\ stamp'[n] = stamp[n]
          /\ ~OnShelf(b) => stamp[b] > stamp[n] /\ Owed(d, n, b)
      BY <1>4, <1>10, <2>3 DEF RefsAllInv, RefsInv
    <3>2. shelf'[b] # None
      BY <1>4, <2>0, <3>1
    <3>3. CASE stamp'[b] > lastRev
      BY <3>1, <3>2, <3>3, <1>5, <2>0 DEF Owed
    <3>4. ASSUME ~(stamp'[b] > lastRev), ~OnShelf(b)'
          PROVE  stamp'[b] > stamp'[n] /\ Owed(d, n, b)'
      <4>1. stamp'[b] = stamp[b] /\ shelf'[b] = shelf[b] /\ ~OnShelf(b)
        BY <1>4, <2>0, <3>4 DEF OnShelf
      <4>2. stamp[b] > cursor[d] \/ notes[d][n].status = "pending" \/ StillOpen(d, b)
        BY <3>1, <4>1, <1>2, <1>5 DEF Owed
      <4>3. CASE stamp[b] > cursor[d]
        BY <4>1, <4>3, <3>1, <1>5 DEF Owed
      <4>4. CASE notes[d][n].status = "pending"
        <5>1. filed[n].content # SyncableRefs(notes[d][n].content, done.rows)
          <6>1. b \notin SyncableRefs(notes[d][n].content, done.rows)
            BY <2>1, <3>4 DEF SyncableRefs
          <6> QED BY <6>1, <1>10, <2>3
        <5>2. notes'[d][n].status = "pending"
          BY <1>1, <2>3, <3>1, <4>4, <5>1, PushedNotes
        <5> QED BY <5>2, <3>1, <4>1 DEF Owed
      <4>5. CASE StillOpen(d, b)
        <5>1. /\ Unsettled(d, b) /\ books[d][b] # None /\ books[d][b] \in BookRecord
              /\ books[d][b].base # 0 \/ books[d][b].life = "active"
          BY <4>5, <2>0, Here DEF StillOpen, Unsettled
        <5>2. CASE books[d][b].status = "conflict"
          <6>1. b \notin Sent(d)
            BY <5>2 DEF Sent, PendingBooks
          <6>2. books'[d][b] = books[d][b]
            BY <1>1, <2>0, <5>2, <6>1, PushedBooks
          <6>3. StillOpen(d, b)'
            BY <4>5, <6>2 DEF StillOpen, Unsettled
          <6> QED BY <6>3, <4>1, <3>1 DEF Owed
        <5>3. books[d][b].status # "conflict" => b \in Sent(d)
          BY <2>0, <5>1 DEF Sent, PendingBooks, LocalOnlyDeleted, Unsettled,
                            BookRecord, Local, Status
        <5>4. CASE books[d][b].status # "conflict" /\ heard /\ AnswersOf(d, done, b) = {}
          <6>1. \A x \in Sent(d) : AnswersOf(d, done, x) = {} =>
                    done.rows[x] = AcceptedRow(d, x, books[d][x])
            BY <1>1, AnswerFacts
          <6>2. AcceptedRow(d, b, books[d][b]) = shelf[b]
            BY <1>4, <2>0, <4>1, <5>3, <5>4, <6>1
          <6>3. /\ HasRow(b) /\ shelf[b].content = books[d][b].content
                /\ shelf[b].life = books[d][b].life
            BY <2>0, <5>1, <6>2, AcceptedFacts
          <6>4. shelf[b].life = "deleted"
            BY <4>1, <5>1, <6>3 DEF OnShelf, HasRow, BookRecord, Local
          <6>5. SameDeletion(books[d][b], b)
            BY <6>3, <6>4 DEF SameDeletion
          <6>6. stamp[b] > cursor[d]
            BY <2>0, <5>1, <6>5 DEF RefsAllInv, DeviceInv, DeletionInv
          <6> QED BY <6>6, <4>1, <3>1, <1>5 DEF Owed
        <5>5. CASE books[d][b].status # "conflict" /\ ~(heard /\ AnswersOf(d, done, b) = {})
          <6>1. Unsettled(d, b)'
            BY <1>1, <2>0, <5>3, <5>5, PushedBooks
          <6>2. /\ books'[d][b].life = books[d][b].life
                /\ books[d][b].base # 0 => books'[d][b].base # 0
            BY <1>1, <2>0, <6>1, PushedBooks DEF Unsettled
          <6>3. StillOpen(d, b)'
            BY <5>1, <6>1, <6>2 DEF StillOpen
          <6> QED BY <6>3, <4>1, <3>1 DEF Owed
        <5> QED BY <5>2, <5>4, <5>5
      <4> QED BY <4>2, <4>3, <4>4, <4>5
    <3> QED BY <3>2, <3>3, <3>4
  <2> QED BY <2>2, <2>3
<1>11. RefsInv'
  <2> SUFFICES ASSUME NEW n \in Note, NEW c \in filed'[n].content, NEW w, w = filed'[n].device
               PROVE  /\ shelf'[c] # None /\ w \in Device
                      /\ ~OnShelf(c)' => stamp'[c] > stamp'[n] /\ Owed(w, n, c)'
    BY DEF RefsInv
  <2>1. w \in Device
    <3>1. CASE filed'[n] = filed[n]
      BY <3>1 DEF RefsAllInv, RefsInv
    <3>2. CASE filed'[n] # filed[n]
      BY <3>2, <1>4
    <3> QED BY <3>1, <3>2
  <2> QED BY <1>8, <1>10, <2>1
<1> QED BY <1>2, <1>3, <1>6, <1>8, <1>9, <1>11 DEF RefsAllInv, OnlyDevice

(***************************************************************************)
(* The start, what changes nothing, and what the invariant is for.         *)
(***************************************************************************)
LEMMA StartKeepsRefs ==
    ASSUME NotebookInit
    PROVE  RefsAllInv
<1> DEFINE row == [content |-> {}, life |-> "active", version |-> 1, device |-> None]
<1>1. /\ shelf = [b \in Notebook |-> None]
      /\ filed = [n \in Note |-> row]
      /\ stamp = [e \in Notebook \union Note |-> IF e \in Note THEN 1 ELSE 0]
      /\ lastRev = 1 /\ ops = 0
      /\ books = [d \in Device |-> [b \in Notebook |-> None]]
      /\ notes = [d \in Device |-> [n \in Note |-> Synced(row)]]
      /\ conflicts = [d \in Device |-> {}]
      /\ cursor = [d \in Device |-> 1]
      /\ stage = [d \in Device |-> "idle"]
      /\ arrived = [d \in Device |-> NothingArrived]
  BY DEF NotebookInit
<1>2. row \in NoteRow /\ row.content = {} /\ row.device = None
  BY DEF NoteRow
<1>3. Synced(row) \in NoteRecord /\ Synced(row).content = {} /\ Synced(row).status = "synced"
  <2>1. row.content \in SUBSET Notebook /\ row.life \in {"active", "deleted"}
        /\ row.version \in Nat
    OBVIOUS
  <2> HIDE DEF row
  <2>2. Synced(row) \in Local(SUBSET Notebook) /\ Synced(row).content = row.content
        /\ Synced(row).status = "synced"
    BY <2>1, SyncedFacts
  <2> QED BY <2>2, <1>2 DEF NoteRecord
<1> HIDE DEF row
<1>4. ServerTyped
  <2>1. \A b \in Notebook : stamp[b] = 0
    BY <1>1, NotebookBounds
  <2> QED BY <1>1, <1>2, <2>1 DEF ServerTyped
<1>5. EveryDevice
  BY <1>1 DEF EveryDevice
<1>6. ASSUME NEW d \in Device
      PROVE  DeviceInv(d) /\ Unsent(d) = {}
  <2>1. /\ \A b \in Notebook : books[d][b] = None
        /\ \A n \in Note : notes[d][n] = Synced(row)
        /\ conflicts[d] = {} /\ cursor[d] = 1 /\ stage[d] = "idle" /\ Reach(d) = 1
    BY <1>1 DEF Reach
  <2>2. DeviceTyped(d)
    <3>1. /\ books[d] \in [Notebook -> BookRecord \union {None}]
          /\ notes[d] \in [Note -> NoteRecord]
      BY <1>1, <1>3
    <3>2. arrived[d] \in [purged : SUBSET Notebook, deleted : SUBSET Notebook, next : Nat]
      BY <1>1 DEF NothingArrived
    <3>3. cursor[d] \in Nat /\ cursor[d] <= Reach(d) /\ Reach(d) <= lastRev
          /\ stage[d] \in {"idle", "pushed", "merged"}
      BY <1>1, <2>1
    <3> QED BY <2>1, <3>1, <3>2, <3>3 DEF DeviceTyped
  <2>3. ConflictsInv(d)
    BY <2>1, <1>3 DEF ConflictsInv
  <2>4. CopyInv(d)
    BY <2>1, <1>1, <1>2, <1>3 DEF CopyInv
  <2>5. \A b \in Notebook : ~Unsettled(d, b)
    BY <2>1 DEF Unsettled
  <2> QED BY <2>1, <2>2, <2>3, <2>4, <2>5 DEF DeviceInv, DeletionInv, HeldInv, Unsent
<1>7. DeletionsApart
  BY <1>6 DEF DeletionsApart
<1>8. RefsInv
  BY <1>1, <1>2 DEF RefsInv
<1> QED BY <1>4, <1>5, <1>6, <1>7, <1>8 DEF RefsAllInv

LEMMA IdleKeepsRefs ==
    ASSUME RefsAllInv, UNCHANGED notebookVars
    PROVE  RefsAllInv'
<1>1. /\ shelf' = shelf /\ filed' = filed /\ stamp' = stamp /\ lastRev' = lastRev
      /\ books' = books /\ notes' = notes /\ conflicts' = conflicts /\ cursor' = cursor
      /\ stage' = stage /\ arrived' = arrived /\ ops' = ops
  BY DEF notebookVars, server, bounds
<1>2. ServerTyped' /\ EveryDevice'
  BY <1>1 DEF RefsAllInv, ServerTyped, EveryDevice
<1>3. ASSUME NEW d \in Device
      PROVE  DeviceInv(d)' /\ Unsent(d)' = Unsent(d)
  <2>1. DeviceInv(d) /\ Reach(d)' = Reach(d)
    BY <1>1 DEF RefsAllInv, Reach
  <2>2. DeviceTyped(d)'
    BY <1>1, <2>1 DEF DeviceInv, DeviceTyped
  <2>3. ConflictsInv(d)'
    BY <1>1, <2>1 DEF DeviceInv, ConflictsInv, NoteSides, BookSides, SameDeletion, HasRow
  <2>4. CopyInv(d)'
    BY <1>1, <2>1 DEF DeviceInv, CopyInv
  <2>5. DeletionInv(d)' /\ HeldInv(d)'
    BY <1>1, <2>1 DEF DeviceInv, DeletionInv, HeldInv, Unsettled, SameDeletion, HasRow
  <2>6. Unsent(d)' = Unsent(d)
    BY <1>1 DEF Unsent, Unsettled
  <2> QED BY <2>2, <2>3, <2>4, <2>5, <2>6 DEF DeviceInv
<1>4. DeletionsApart'
  BY <1>3 DEF RefsAllInv, DeletionsApart
<1>5. RefsInv'
  <2>1. ASSUME NEW w, NEW n, NEW b, Owed(w, n, b) PROVE Owed(w, n, b)'
    BY <1>1, <2>1 DEF Owed, Reach, StillOpen, Unsettled, Gone
  <2> QED BY <1>1, <2>1 DEF RefsAllInv, RefsInv, OnShelf
<1> QED BY <1>2, <1>3, <1>4, <1>5 DEF RefsAllInv

LEMMA NotebookStepKeepsRefs ==
    ASSUME Closed, RefsAllInv, StillbornInv, [NotebookNext]_notebookVars
    PROVE  RefsAllInv'
<1>1. CASE UNCHANGED notebookVars
  BY <1>1, IdleKeepsRefs
<1>2. ASSUME NEW d \in Device, UserStep(d) PROVE RefsAllInv'
  BY <1>2, UserStepKeepsRefs
<1>3. ASSUME NEW d \in Device, Resolve(d) PROVE RefsAllInv'
  BY <1>3, ResolveKeepsRefs
<1>4. ASSUME NEW d \in Device, NEW heard \in BOOLEAN, Push(d, heard) PROVE RefsAllInv'
  BY <1>4, PushKeepsRefs
<1>5. ASSUME NEW d \in Device, Pull(d) PROVE RefsAllInv'
  BY <1>5, PullKeepsRefs
<1>6. ASSUME NEW d \in Device, RepairAndSaveCursor(d) PROVE RefsAllInv'
  BY <1>6, RepairKeepsRefs
<1>7. ASSUME NEW d \in Device, Abort(d) PROVE RefsAllInv'
  BY <1>7, AbortKeepsRefs
<1>8. ASSUME NEW b \in Notebook, CleanupTrash(b) PROVE RefsAllInv'
  BY <1>8, CleanupKeepsRefs
<1> QED BY <1>1, <1>2, <1>3, <1>4, <1>5, <1>6, <1>7, <1>8 DEF NotebookNext

(* What makes or keeps a stillborn notebook: a new id, or a step that leaves it,
   its row and the copies of the others alone. *)
LEMMA StillbornStays ==
    ASSUME StillbornInv,
           \A d \in Device, b \in Notebook : Stillborn(d, b)' =>
              /\ books'[d][b].status = "pending" /\ shelf'[b] = None
              /\ Stillborn(d, b) \/ Fresh(b)
              /\ \A e \in Device \ {d} : books[e][b] = None => books'[e][b] = None
    PROVE  StillbornInv'
<1> SUFFICES ASSUME NEW d \in Device, NEW b \in Notebook, Stillborn(d, b)'
             PROVE  /\ books'[d][b].status = "pending" /\ shelf'[b] = None
                    /\ \A e \in Device \ {d} : books'[e][b] = None
  BY DEF StillbornInv
<1>1. \A e \in Device \ {d} : books[e][b] = None
  BY DEF StillbornInv, Fresh
<1> QED BY <1>1

(* A step of device d that leaves the rows of the notebooks alone and touches of
   its own copies only those that are not stillborn. *)
LEMMA StillbornFrame ==
    ASSUME NEW d \in Device, StillbornInv, shelf' = shelf,
           \A e \in Device \ {d} : books'[e] = books[e],
           \A b \in Notebook :
              \/ books'[d][b] = books[d][b]
              \/ books'[d][b] = None
              \/ /\ books[d][b] # None \/ shelf[b] # None \/ Fresh(b)
                 /\ \/ books'[d][b].life # "deleted" \/ books'[d][b].base # 0
                    \/ Fresh(b) /\ books'[d][b].status = "pending"
    PROVE  StillbornInv'
<1> SUFFICES ASSUME NEW e \in Device, NEW b \in Notebook, Stillborn(e, b)'
             PROVE  /\ books'[e][b].status = "pending" /\ shelf'[b] = None
                    /\ Stillborn(e, b) \/ Fresh(b)
                    /\ \A f \in Device \ {e} : books[f][b] = None => books'[f][b] = None
  BY StillbornStays
<1>1. CASE books'[e][b] = books[e][b]
  <2>1. /\ Stillborn(e, b) /\ books[e][b].status = "pending" /\ shelf[b] = None
        /\ \A f \in Device \ {e} : books[f][b] = None
    BY <1>1 DEF Stillborn, StillbornInv
  <2>2. books[e][b] # None
    BY <2>1 DEF Stillborn
  <2>3. \A f \in Device \ {e} : books'[f][b] = None
    BY <2>1, <2>2 DEF Fresh
  <2> QED BY <1>1, <2>1, <2>3
<1>2. CASE books'[e][b] # books[e][b]
  <2>1. e = d /\ books'[d][b] # None /\ books'[d][b].base = 0 /\ books'[d][b].life = "deleted"
    BY <1>2 DEF Stillborn
  <2>2. Fresh(b) /\ books'[d][b].status = "pending"
    BY <1>2, <2>1
  <2> QED BY <2>1, <2>2 DEF Fresh
<1> QED BY <1>1, <1>2

LEMMA UserKeepsStillborn ==
    ASSUME NEW d \in Device, RefsAllInv, StillbornInv, UserStep(d)
    PROVE  StillbornInv'
<1> DEFINE Safe(b) ==
        \/ books'[d][b] = books[d][b]
        \/ books'[d][b] = None
        \/ /\ books[d][b] # None \/ shelf[b] # None \/ Fresh(b)
           /\ books'[d][b].life # "deleted" \/ books'[d][b].base # 0
    Others == \A e \in Device \ {d} : books'[e] = books[e]
<1>1. shelf' = shelf
  BY ClientsKeepShelf
<1>2. ASSUME NEW b \in Notebook, NEW name \in Name, CreateNotebook(d, b, name)
      PROVE  Others /\ \A x \in Notebook : Safe(x)
  <2>1. books' = [books EXCEPT ![d] = [books[d] EXCEPT ![b] = Created({name})]] /\ Fresh(b)
    BY <1>2 DEF CreateNotebook
  <2>2. Created({name}).life # "deleted"
    BY DEF Created
  <2> QED BY <2>1, <2>2, Here DEF EveryDevice
<1>3. ASSUME NEW b \in Notebook, NEW name \in Name, RenameNotebook(d, b, name)
      PROVE  Others /\ \A x \in Notebook : Safe(x)
  <2> DEFINE r == Edited(books[d][b], {name}, "active")
  <2>1. books' = [books EXCEPT ![d] = [books[d] EXCEPT ![b] = r]] /\ books[d][b] # None
    BY <1>3, Here DEF RenameNotebook, Shown, EveryDevice
  <2>2. books[d][b] \in Local(Named \union Deleted) /\ {name} \in Named \union Deleted
    BY <2>1, Here DEF BookRecord, Named
  <2>3. r.life # "deleted"
    BY <2>2, EditedFacts
  <2> HIDE DEF r
  <2> QED BY <2>1, <2>3, Here DEF EveryDevice
<1>4. ASSUME NEW b \in Notebook, DeleteNotebook(d, b)
      PROVE  Others /\ \A x \in Notebook : Safe(x)
  <2> DEFINE l == books[d][b]
             r == Edited(l, l.content \union {-(ops + 1)}, "deleted")
  <2>1. /\ books' = [books EXCEPT ![d] = [books[d] EXCEPT ![b] = IF l.base = 0 THEN None ELSE r]]
        /\ l # None
    BY <1>4, Here DEF DeleteNotebook, Shown, EveryDevice
  <2>2. r.base = l.base
    <3>1. l = [content |-> l.content, life |-> l.life, version |-> l.version,
               base |-> l.base, status |-> l.status]
      BY <2>1, Here DEF BookRecord, Local
    <3> QED BY <3>1 DEF Edited
  <2> HIDE DEF r
  <2> QED BY <2>1, <2>2, Here DEF EveryDevice
<1>5. ASSUME NEW b \in Notebook, NEW n \in Note, AssignNoteToNotebook(d, n, b)
      PROVE  Others /\ \A x \in Notebook : Safe(x)
  BY <1>5 DEF AssignNoteToNotebook
<1>6. Others /\ \A x \in Notebook : Safe(x)
  BY <1>2, <1>3, <1>4, <1>5 DEF UserStep
<1> QED BY <1>1, <1>6, StillbornFrame

(* Nothing that a conflict leaves behind, but the copy, is stillborn. *)
LEMMA LeftFacts ==
    ASSUME NEW d \in Device, NEW c \in conflicts[d], RefsAllInv, c.of \in Notebook
    PROVE  /\ Synced(c.theirs).base # 0 /\ KeptLocal(c).base # 0
           /\ c.other \in Notebook /\ shelf[c.other] # None
           /\ shelf[c.of] # None \/ books[d][c.of] # None
<1>1. BookSides(c)
  BY ConflictSides
<1>2. /\ c.theirs.version \in Nat \ {0} /\ c.mine \in Local(Named \union Deleted)
  BY <1>1 DEF BookSides, Row, BookRecord
<1>3. KeptLocal(c).base # 0
  BY <1>2, KeptLocalFacts
<1>4. Synced(c.theirs).base # 0
  BY <1>2 DEF Synced
<1>5. shelf[c.of] # None \/ books[d][c.of] # None
  BY DEF RefsAllInv, DeviceInv, HeldInv
<1> QED BY <1>1, <1>3, <1>4, <1>5 DEF BookSides

LEMMA ResolveKeepsStillborn ==
    ASSUME NEW d \in Device, RefsAllInv, StillbornInv, Resolve(d)
    PROVE  StillbornInv'
<1> DEFINE Safe(b) ==
        \/ books'[d][b] = books[d][b]
        \/ books'[d][b] = None
        \/ /\ books[d][b] # None \/ shelf[b] # None \/ Fresh(b)
           /\ \/ books'[d][b].life # "deleted" \/ books'[d][b].base # 0
              \/ Fresh(b) /\ books'[d][b].status = "pending"
    Others == \A e \in Device \ {d} : books'[e] = books[e]
<1>1. shelf' = shelf
  BY ClientsKeepShelf
<1>2. PICK c \in conflicts[d] :
        \/ ResolveNote(d, c)
        \/ KeepLocalNotebook(d, c) \/ KeepRemoteNotebook(d, c)
        \/ KeepExisting(d, c)
        \/ \E copy \in Notebook : DuplicateNotebook(d, c, copy) \/ KeepAsCopy(d, c, copy)
  BY DEF Resolve
<1>3. c.of \in Note \/ c.of \in Notebook
  BY ConflictSides
<1> DEFINE theirs == Synced(c.theirs)
           mine == KeptLocal(c)
<1>4. CASE ResolveNote(d, c)
  BY <1>1, <1>4, StillbornFrame DEF ResolveNote
<1>5. CASE KeepLocalNotebook(d, c) \/ KeepRemoteNotebook(d, c)
  <2>1. c.of \in Notebook
    BY <1>5 DEF KeepLocalNotebook, KeepRemoteNotebook
  <2>2. PICK r \in {mine, theirs} : books' = [books EXCEPT ![d] = [books[d] EXCEPT ![c.of] = r]]
    BY <1>5, Here DEF KeepLocalNotebook, KeepRemoteNotebook, EveryDevice
  <2>3. r.base # 0
    BY <2>1, LeftFacts
  <2>4. shelf[c.of] # None \/ books[d][c.of] # None
    BY <2>1, LeftFacts
  <2> HIDE DEF mine, theirs
  <2>5. Others /\ \A b \in Notebook : Safe(b)
    BY <2>2, <2>3, <2>4, Here DEF EveryDevice
  <2> QED BY <1>1, <2>5, StillbornFrame
<1>6. CASE KeepExisting(d, c)
  <2>1. c.of \notin Note => c.of \in Notebook
    BY <1>3
  <2>2. /\ c.reason = "duplicate_name"
        /\ books' = [books EXCEPT ![d] = [books[d] EXCEPT ![c.other] = theirs, ![c.of] = None]]
    BY <1>6, Here DEF KeepExisting, EveryDevice
  <2>3. c.of \in Notebook
    BY <2>1, <2>2, ConflictSides DEF NoteSides
  <2>4. theirs.base # 0 /\ shelf[c.other] # None
    BY <2>3, LeftFacts
  <2> HIDE DEF theirs
  <2>5. Others /\ \A b \in Notebook : Safe(b)
    BY <2>2, <2>4, Here DEF EveryDevice
  <2> QED BY <1>1, <2>5, StillbornFrame
<1>7. ASSUME NEW copy \in Notebook, DuplicateNotebook(d, c, copy)
      PROVE  StillbornInv'
  <2>1. c.of \in Notebook /\ Fresh(copy)
    BY <1>7 DEF DuplicateNotebook
  <2>2. PICK s : /\ books' = [books EXCEPT ![d] = [books[d] EXCEPT ![c.of] = theirs, ![copy] = s]]
                 /\ s.status = "pending"
    <3>1. PICK name \in Name :
            books' = [books EXCEPT ![d][c.of] = theirs, ![d][copy] = CopyOf(c.mine, name)]
      BY <1>7 DEF DuplicateNotebook
    <3>2. CopyOf(c.mine, name).status = "pending"
      BY DEF CopyOf, Created
    <3> HIDE DEF theirs
    <3>3. books' = [books EXCEPT ![d] = [books[d] EXCEPT ![c.of] = theirs,
                                                         ![copy] = CopyOf(c.mine, name)]]
      BY <3>1, Here DEF EveryDevice
    <3> QED BY <3>2, <3>3
  <2>3. theirs.base # 0 /\ (shelf[c.of] # None \/ books[d][c.of] # None)
    BY <2>1, LeftFacts
  <2> HIDE DEF theirs
  <2>4. Others /\ \A b \in Notebook : Safe(b)
    BY <2>1, <2>2, <2>3, Here DEF EveryDevice
  <2> QED BY <1>1, <2>4, StillbornFrame
<1>8. ASSUME NEW copy \in Notebook, KeepAsCopy(d, c, copy)
      PROVE  StillbornInv'
  <2>1. c.reason = "duplicate_name" /\ Fresh(copy)
    BY <1>8 DEF KeepAsCopy
  <2>2. c.of \in Notebook
    BY <1>3, <2>1, ConflictSides DEF NoteSides
  <2>3. PICK s : /\ books' = [books EXCEPT ![d] = [books[d] EXCEPT ![c.other] = theirs,
                                                      ![c.of] = None, ![copy] = s]]
                 /\ s.status = "pending"
    <3>1. PICK name \in CopyName(d, c) :
            books' = [books EXCEPT ![d][c.other] = theirs, ![d][c.of] = None,
                                   ![d][copy] = Created({name})]
      BY <1>8 DEF KeepAsCopy
    <3>2. Created({name}).status = "pending"
      BY DEF Created
    <3> HIDE DEF theirs
    <3>3. books' = [books EXCEPT ![d] = [books[d] EXCEPT ![c.other] = theirs, ![c.of] = None,
                                                         ![copy] = Created({name})]]
      BY <3>1, Here DEF EveryDevice
    <3> QED BY <3>2, <3>3
  <2>4. theirs.base # 0 /\ shelf[c.other] # None
    BY <2>2, LeftFacts
  <2> HIDE DEF theirs
  <2>5. Others /\ \A b \in Notebook : Safe(b)
    BY <2>1, <2>3, <2>4, Here DEF EveryDevice
  <2> QED BY <1>1, <2>5, StillbornFrame
<1> QED BY <1>2, <1>4, <1>5, <1>6, <1>7, <1>8

LEMMA PushKeepsStillborn ==
    ASSUME NEW d \in Device, NEW heard \in BOOLEAN, RefsAllInv, StillbornInv, Push(d, heard)
    PROVE  StillbornInv'
<1>1. PICK done : Pushed(d, heard, done)
  BY PushIsPushed
<1>2. ASSUME NEW b \in Notebook PROVE ~Stillborn(d, b)'
  <2> SUFFICES ASSUME Stillborn(d, b)' PROVE FALSE
    OBVIOUS
  <2>1. /\ books'[d][b] # None /\ books'[d][b].base = 0 /\ books'[d][b].life = "deleted"
        /\ books[d][b] # None /\ books[d][b].life = "deleted"
    BY <1>1, PushedBooks DEF Stillborn
  <2>2. b \notin LocalOnlyDeleted(d)
    BY <1>1, <2>1 DEF Pushed
  <2>3. CASE b \in Sent(d)
    <3>1. books[d][b].base # 0
      BY <2>1, <2>2, <2>3 DEF Sent, LocalOnlyDeleted
    <3> QED BY <1>1, <2>1, <2>3, <3>1, PushedBooks
  <2>4. CASE b \notin Sent(d)
    <3>1. books'[d][b] = books[d][b]
      BY <1>1, <2>2, <2>4 DEF Pushed
    <3>2. Stillborn(d, b)
      BY <2>1, <3>1 DEF Stillborn
    <3>3. books[d][b].status = "pending"
      BY <3>2 DEF StillbornInv
    <3> QED BY <2>1, <2>2, <3>1, <3>3 DEF LocalOnlyDeleted, PendingBooks
  <2> QED BY <2>3, <2>4
<1>3. ASSUME NEW e \in Device, NEW b \in Notebook, Stillborn(e, b)'
      PROVE  /\ books'[e][b].status = "pending" /\ shelf'[b] = None
             /\ Stillborn(e, b) \/ Fresh(b)
             /\ \A f \in Device \ {e} : books[f][b] = None => books'[f][b] = None
  <2>1. e # d
    BY <1>2, <1>3
  <2>2. \A f \in Device \ {d} : books'[f] = books[f]
    BY <1>1 DEF Pushed, OnlyDevice
  <2>3. Stillborn(e, b)
    BY <1>3, <2>1, <2>2 DEF Stillborn
  <2>4. books[e][b].status = "pending" /\ shelf[b] = None /\ books[d][b] = None
    BY <2>1, <2>3 DEF StillbornInv
  <2>5. b \notin Sent(d)
    BY <2>4 DEF Sent, PendingBooks
  <2>6. shelf'[b] = None
    BY <1>1, <2>4, <2>5, PushedServer
  <2>7. books'[d][b] = None
    BY <1>1, <2>4, PushedBooks
  <2> QED BY <2>1, <2>2, <2>3, <2>4, <2>6, <2>7
<1> QED BY <1>3, StillbornStays

LEMMA PullKeepsStillborn ==
    ASSUME NEW d \in Device, RefsAllInv, StillbornInv, Pull(d)
    PROVE  StillbornInv'
<1> DEFINE Safe(b) ==
        \/ books'[d][b] = books[d][b]
        \/ books'[d][b] = None
        \/ /\ books[d][b] # None \/ shelf[b] # None
           /\ books'[d][b].life # "deleted" \/ books'[d][b].base # 0
<1>1. shelf' = shelf
  BY ClientsKeepShelf
<1>2. \A e \in Device \ {d} : books'[e] = books[e]
  BY Here DEF Pull, EveryDevice
<1>3. ASSUME NEW b \in Notebook PROVE Safe(b)
  <2>1. CASE ~Unsettled(d, b)
    <3>1. CASE HasRow(b) /\ books'[d][b] = Synced(shelf[b])
      <4>1. shelf[b] # None /\ shelf[b].version \in Nat \ {0}
        BY <3>1, Here DEF HasRow, ServerTyped, Row
      <4> QED BY <3>1, <4>1 DEF Synced
    <3> QED BY <2>1, <3>1, PulledBooks
  <2>2. CASE Unsettled(d, b) /\ shelf[b] = None
    BY <2>2, PulledBooks
  <2>3. CASE Unsettled(d, b) /\ shelf[b] # None
    <3>1. ~Stillborn(d, b)
      BY <2>3 DEF StillbornInv
    <3>2. books[d][b] # None /\ (books[d][b].base # 0 \/ books[d][b].life # "deleted")
      BY <2>3, <3>1 DEF Stillborn, Unsettled
    <3>3. /\ books'[d][b].life = books[d][b].life
          /\ books[d][b].base # 0 => books'[d][b].base # 0
      BY <2>3, PulledBooks
    <3> QED BY <3>2, <3>3
  <2> QED BY <2>1, <2>2, <2>3
<1> QED BY <1>1, <1>2, <1>3, StillbornFrame

LEMMA NotebookStepKeepsStillborn ==
    ASSUME RefsAllInv, StillbornInv, [NotebookNext]_notebookVars
    PROVE  StillbornInv'
<1>1. ASSUME books' = books, \A b \in Notebook : shelf[b] = None => shelf'[b] = None
      PROVE  StillbornInv'
  BY <1>1 DEF StillbornInv, Stillborn
<1>2. CASE UNCHANGED notebookVars
  BY <1>1, <1>2 DEF notebookVars, server
<1>3. ASSUME NEW d \in Device, UserStep(d) PROVE StillbornInv'
  BY <1>3, UserKeepsStillborn
<1>4. ASSUME NEW d \in Device, Resolve(d) PROVE StillbornInv'
  BY <1>4, ResolveKeepsStillborn
<1>5. ASSUME NEW d \in Device, NEW heard \in BOOLEAN, Push(d, heard) PROVE StillbornInv'
  BY <1>5, PushKeepsStillborn
<1>6. ASSUME NEW d \in Device, Pull(d) PROVE StillbornInv'
  BY <1>6, PullKeepsStillborn
<1>7. ASSUME NEW d \in Device, RepairAndSaveCursor(d) \/ Abort(d) PROVE StillbornInv'
  BY <1>1, <1>7 DEF RepairAndSaveCursor, Abort, server
<1>8. ASSUME NEW b \in Notebook, CleanupTrash(b) PROVE StillbornInv'
  <2>1. books' = books /\ shelf[b] # None /\ shelf' = [shelf EXCEPT ![b].life = "purged",
                                                                      ![b].version = @ + 1]
    BY <1>8 DEF CleanupTrash
  <2>2. \A x \in Notebook \ {b} : shelf'[x] = shelf[x]
    BY <2>1, Here DEF RefsAllInv, ServerTyped
  <2> QED BY <1>1, <2>1, <2>2
<1> QED BY <1>2, <1>3, <1>4, <1>5, <1>6, <1>7, <1>8 DEF NotebookNext

LEMMA StartKeepsStillborn == NotebookInit => StillbornInv
BY DEF NotebookInit, StillbornInv, Stillborn

(* Once nothing is open a clean note is the server's, and nobody is left to whom
   a look at a reference could be owed. *)
LEMMA SettledRefs ==
    ASSUME RefsAllInv
    PROVE  NoDanglingRefs
<1> SUFFICES ASSUME Settled, NEW n \in Note
             PROVE  /\ \A b \in filed[n].content : OnShelf(b)
                    /\ \A d \in Device : \A b \in notes[d][n].content : OnShelf(b)
  BY DEF NoDanglingRefs
<1>1. ASSUME NEW d \in Device
      PROVE  /\ Reach(d) = lastRev /\ stage[d] = "idle"
             /\ \A m \in Note : notes[d][m].status = "synced"
             /\ \A b \in Notebook : ~Unsettled(d, b)
  <2>1. /\ stage[d] = "idle" /\ cursor[d] = lastRev /\ conflicts[d] = {}
        /\ PendingBooks(d) = {} /\ PendingNotes(d) = {}
    BY DEF Settled
  <2>2. ASSUME NEW m \in Note PROVE notes[d][m].status = "synced"
    <3>1. notes[d][m].status \in {"pending", "synced", "conflict"}
      BY Here DEF NoteRecord, Local, Status
    <3>2. notes[d][m].status # "pending"
      BY <2>1 DEF PendingNotes
    <3>3. notes[d][m].status # "conflict"
      BY <2>1, Here DEF DeviceInv, ConflictsInv
    <3> QED BY <3>1, <3>2, <3>3
  <2>3. ASSUME NEW b \in Notebook PROVE ~Unsettled(d, b)
    <3>1. books[d][b] = None \/ books[d][b].status \in {"pending", "synced", "conflict"}
      BY Here DEF BookRecord, Local, Status
    <3>2. books[d][b] # None => books[d][b].status # "pending"
      BY <2>1 DEF PendingBooks
    <3>3. books[d][b] # None => books[d][b].status # "conflict"
      BY <2>1, Here DEF DeviceInv, ConflictsInv
    <3> QED BY <3>1, <3>2, <3>3 DEF Unsettled
  <2> QED BY <2>1, <2>2, <2>3 DEF Reach
<1>2. ServerTyped /\ RefsInv
  BY DEF RefsAllInv
<1>3. ASSUME NEW b \in filed[n].content PROVE OnShelf(b)
  <2> SUFFICES ASSUME ~OnShelf(b) PROVE FALSE
    OBVIOUS
  <2> DEFINE w == filed[n].device
  <2>1. w \in Device /\ Owed(w, n, b) /\ b \in Notebook
    BY <1>2 DEF RefsInv, ServerTyped, NoteRow
  <2>2. stamp[b] <= lastRev /\ stamp[b] \in Nat /\ lastRev \in Nat
    BY <1>2, <2>1 DEF ServerTyped
  <2> HIDE DEF w
  <2> QED BY <1>1, <2>1, <2>2 DEF Owed, StillOpen
<1>4. ASSUME NEW d \in Device PROVE notes[d][n].content = filed[n].content
  <2>1. stamp[n] <= lastRev /\ stamp[n] \in Nat /\ lastRev \in Nat
    BY <1>2 DEF ServerTyped
  <2>2. CopyInv(d)
    BY Here DEF DeviceInv
  <2> QED BY <1>1, <2>1, <2>2 DEF CopyInv
<1> QED BY <1>3, <1>4

LEMMA RefsAlways ==
    ASSUME Closed
    PROVE  NotebookSpec => [](RefsAllInv /\ StillbornInv)
<1> DEFINE Inv == RefsAllInv /\ StillbornInv
<1>1. NotebookInit => Inv
  BY StartKeepsRefs, StartKeepsStillborn
<1>2. Inv /\ [NotebookNext]_notebookVars => Inv'
  BY NotebookStepKeepsRefs, NotebookStepKeepsStillborn
<1> QED BY <1>1, <1>2, PTL DEF NotebookSpec

(* However the syncs, edits, deletions, cleanups and choices of the devices are
   interleaved, with syncs of the timer going on while conflicts are open, and
   wherever a sync is cut off: when all is settled no note is in a notebook that
   is gone (pushNotes drops what it does not know,
   removeLocalNoteNotebookReferences repairs what a pull ended).  As long as
   nobody takes a remote side that is no longer the server's (Closed). *)
THEOREM ReferencesRepaired ==
    ASSUME Closed
    PROVE  NotebookSpec => []NoDanglingRefs
<1>1. RefsAllInv => NoDanglingRefs
  BY SettledRefs
<1> QED BY <1>1, RefsAlways, PTL

(* Every row, copy, cursor and stamp is of its type; no stamp and no cursor is
   beyond the revision counter. *)
THEOREM NotebooksTyped ==
    ASSUME Closed
    PROVE  NotebookSpec => []NotebookTypeOK
<1> DEFINE Cursors == cursor = [d \in Device |-> cursor[d]]
<1>1. NotebookInit => Cursors
  BY DEF NotebookInit
<1>2. Cursors /\ [NotebookNext]_notebookVars => Cursors'
  <2> SUFFICES ASSUME Cursors, [NotebookNext]_notebookVars PROVE Cursors'
    OBVIOUS
  <2>1. cursor' = cursor \/ \E d \in Device : cursor' = [cursor EXCEPT ![d] = arrived[d].next]
    <3>1. UNCHANGED notebookVars => cursor' = cursor
      BY DEF notebookVars
    <3>2. \A b \in Notebook : CleanupTrash(b) => cursor' = cursor
      BY DEF CleanupTrash
    <3>3. ASSUME NEW d \in Device PROVE UserStep(d) => cursor' = cursor
      BY DEF UserStep, CreateNotebook, RenameNotebook, DeleteNotebook, AssignNoteToNotebook, UserActs
    <3>4. ASSUME NEW d \in Device PROVE Resolve(d) => cursor' = cursor
      BY DEF Resolve, ResolveNote, KeepLocalNotebook, KeepRemoteNotebook, KeepExisting,
             DuplicateNotebook, KeepAsCopy, Resolved
    <3>5. ASSUME NEW d \in Device, NEW heard \in BOOLEAN PROVE Push(d, heard) => cursor' = cursor
      BY DEF Push
    <3>6. ASSUME NEW d \in Device PROVE Pull(d) \/ Abort(d) => cursor' = cursor
      BY DEF Pull, Abort
    <3>7. ASSUME NEW d \in Device, RepairAndSaveCursor(d)
          PROVE  cursor' = [cursor EXCEPT ![d] = arrived[d].next]
      BY <3>7 DEF RepairAndSaveCursor
    <3> QED BY <3>1, <3>2, <3>3, <3>4, <3>5, <3>6, <3>7 DEF NotebookNext
  <2> QED BY <2>1
<1>3. RefsAllInv /\ Cursors => NotebookTypeOK
  <2> SUFFICES ASSUME RefsAllInv, Cursors PROVE NotebookTypeOK
    OBVIOUS
  <2>1. ServerTyped
    BY DEF RefsAllInv
  <2>2. ASSUME NEW d \in Device
        PROVE  /\ books[d] \in [Notebook -> Local(Named \union Deleted) \union {None}]
               /\ notes[d] \in [Note -> Local(SUBSET Notebook)]
               /\ stage[d] \in {"idle", "pushed", "merged"} /\ cursor[d] \in 0..lastRev
    <3>1. DeviceTyped(d) /\ lastRev \in Nat
      BY Here DEF DeviceInv, ServerTyped
    <3>2. arrived[d].next \in Nat /\ cursor[d] \in Nat /\ cursor[d] <= Reach(d)
          /\ Reach(d) <= lastRev
      BY <3>1 DEF DeviceTyped
    <3>3. Reach(d) \in Nat
      BY <3>2 DEF Reach
    <3>4. cursor[d] \in 0..lastRev
      BY <3>1, <3>2, <3>3
    <3> QED BY <3>1, <3>4 DEF DeviceTyped, BookRecord, NoteRecord
  <2>3. stamp \in [Notebook \union Note -> 0..lastRev]
    BY <2>1 DEF ServerTyped
  <2>4. cursor \in [Device -> 0..lastRev]
    BY <2>2
  <2> QED BY <2>1, <2>2, <2>3, <2>4 DEF NotebookTypeOK, ServerTyped
<1> QED BY <1>1, <1>2, <1>3, RefsAlways, PTL DEF NotebookSpec
=============================================================================
