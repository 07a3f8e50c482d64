-------------------------- MODULE NoteEditorProofs --------------------------
(***************************************************************************)
(* The editor of NoteEditor never puts a text into a note it was not typed *)
(* in, loses no text its recovery row has held, and shows what is stored   *)
(* when nothing is left to do, for any number of notes, keystrokes,        *)
(* switches of notes and crashes.                                          *)
(*                                                                         *)
(* The first invariant, EditorInv, is about whose text is where: a save    *)
(* has a text of the note it goes to, or of the draft that becomes it; at  *)
(* most one draft is being created, and the saves of that draft wait for   *)
(* it; and every operation of a save in the recovery queue is the only one *)
(* of a save that waits for it.  It holds under OwnClosed: the windows     *)
(* "stale", "clear" and "overtake" lose text but never mix notes.          *)
(*                                                                         *)
(* The second, TypedInv, is about the order of what was typed.  Texts are  *)
(* numbered by keystroke, and all of them up to some number b are kept by  *)
(* the notes table; the later ones were typed on the screen as it is, in   *)
(* the order in which the row, the queue, the saves and the screen have    *)
(* them.  So what the row has when a save's check finds the save's text in *)
(* it is no newer than what the save has written, and the row can go.  It  *)
(* holds under Closed: with any of the seven windows open, TLC finds a     *)
(* text that is lost or not shown as it is stored.                         *)
(***************************************************************************)
EXTENDS NoteEditor, FiniteSetTheorems, TLAPS

(***************************************************************************)
(* Whose text is where: the first invariant.                               *)
(***************************************************************************)

Stages == {"write", "create", "remember", "refresh", "check"}
Unwritten == {"write", "create", "remember"}
SaveRecord == [no : Nat \ {0}, note : Nat, text : Text, session : Nat,
               stage : Stages, made : Nat \cup {Off}]
Row == [note : Nat \cup {Off}, text : Text]
Operation == [op : {"put", "delete", "read"}, row : Row, by : Nat \cup {Restorer}]

\* The text was typed in the note, or in the draft that became it.
Own(id, text) == text.home \in {id, born[id]}

DataType ==
  /\ store \in [Notes -> Text] /\ Notes = 1 .. Cardinality(Notes) /\ Cardinality(Notes) \in Nat
  /\ born \in [DOMAIN born -> Int]
  /\ list \in [DOMAIN list -> Text] /\ DOMAIN list \subseteq Notes
ScreenType ==
  /\ sel \in Notes \cup {Draft} /\ session \in Nat \ {0} /\ value \in Text
  /\ timer \in {Off, Draft, sel} /\ creating \in Nat \cup {Off}
  /\ nav = NoNav \/ nav \in [to : Nat, text : Text, awaits : Nat]
  /\ phase \in {"closed", "reading", "writing", "clearing", "open"}
  /\ keys \in Nat /\ acked \in SUBSET Text
SaveType == saves \in Seq(SaveRecord)
QueueType == recq \in Seq(Operation)

\* One creation at a time is under way, of the next note.
BornInv == DOMAIN born = IF creating \in {Off} \cup Notes THEN Notes ELSE Notes \cup {creating}
NextInv == creating \notin {Off} \cup Notes => creating = Cardinality(Notes) + 1

\* While a creation is not settled, a save of the draft on screen waits for it.
CreatingInv ==
  creating # Off =>
    /\ creating \in DOMAIN born /\ born[creating] = -session /\ sel \in {Draft, creating}
    /\ \E i \in DOMAIN saves : saves[i].made = creating /\ saves[i].stage \in Unwritten

StoreInv == \A id \in Notes : Own(id, store[id])
ListInv == \A id \in DOMAIN list : Own(id, list[id])
ValueInv == IF sel = Draft THEN value.home = -session ELSE Own(sel, value)
\* Rows the recovery record may hold.
OwnRows == {row \in Row : /\ row.note \in {Draft} \cup Notes
                          /\ row.note # Draft => Own(row.note, row.text)}
RowInv == rec = None \/ rec \in OwnRows

NavInv == nav # NoNav => /\ timer = Off /\ phase = "open" /\ nav.to \in Notes \cup {Draft}
                         /\ nav.to # Draft => Own(nav.to, nav.text)

\* Saves that will write a text to its own note.
OwnSaves ==
  {s \in SaveRecord :
     /\ s.note \in Notes \cup {Draft}
     /\ s.note # Draft => Own(s.note, s.text)
     /\ s.made # Off => /\ s.made \in DOMAIN born /\ Own(s.made, s.text)
                        /\ s.text.home = -s.session
     /\ s.stage = "write" => s.note # Draft
     /\ s.stage = "remember" => s.made # Off
     /\ s.made # Off /\ s.stage # "create" => s.made \in Notes
     /\ s.stage = "create" => s.made = creating /\ creating \notin Notes \cup {Off}}
SavesInv == \A i \in DOMAIN saves : saves[i] \in OwnSaves
\* All saves are of what is on screen: of the draft until one has adopted it.
DraftInv ==
  \A i \in DOMAIN saves :
    /\ saves[i].session = session
    /\ saves[i].made # Off => /\ sel \in {Draft, saves[i].made}
                              /\ sel = Draft => /\ saves[i].made = creating
                                                /\ saves[i].stage \in {"create", "remember"}
NumbersInv == \A i, j \in DOMAIN saves : saves[i].no = saves[j].no => i = j

\* An operation of a save is the only one, and the save waits for it.
Awaits(s, o) == o.by = s.no /\ s.stage \in IF o.op = "put" THEN {"remember"}
                                           ELSE IF o.op = "delete" THEN {"check"}
                                           ELSE {"remember", "check"}
AwaitInv == \A i \in DOMAIN recq :
  recq[i].by \in Nat \ {0} => \E k \in DOMAIN saves : Awaits(saves[k], recq[i])
PutsInv == \A i \in DOMAIN recq : recq[i].op = "put" => recq[i].row \in OwnRows
ReadsInv == \A i \in DOMAIN recq : recq[i].op = "read" => recq[i].by # 0 /\ recq[i].row = None
UniqueOpsInv ==
  \A i, j \in DOMAIN recq : recq[i].by = recq[j].by /\ recq[i].by \in Nat \ {0} => i = j

\* Before the tab is open, nothing is saved and the queue is the restorer's.
PhaseInv ==
  /\ phase # "open" => saves = <<>> /\ timer = Off
  /\ phase \in {"closed", "writing"} => recq = <<>>
  /\ phase = "writing" => rec # None
  /\ phase = "reading" => recq = <<Read(Restorer)>>
  /\ phase = "clearing" => recq \in {<<Read(Restorer)>>, <<Delete(Restorer)>>}
  /\ phase = "open" => \A i \in DOMAIN recq : recq[i].by # Restorer

EditorInv == /\ DataType /\ ScreenType /\ SaveType /\ QueueType
             /\ BornInv /\ NextInv /\ CreatingInv /\ StoreInv /\ ListInv
             /\ ValueInv /\ RowInv /\ NavInv /\ SavesInv /\ DraftInv /\ NumbersInv
             /\ AwaitInv /\ PutsInv /\ ReadsInv /\ UniqueOpsInv /\ PhaseInv

(***************************************************************************)
(* Sequences and counting.                                                 *)
(***************************************************************************)

LEMMA SeqTail ==
  ASSUME NEW S, NEW q \in Seq(S), q # <<>>
  PROVE  /\ Tail(q) \in Seq(S) /\ Len(Tail(q)) = Len(q) - 1 /\ Head(q) = q[1] /\ Len(q) >= 1
         /\ q[1] \in S /\ DOMAIN q = 1 .. Len(q) /\ DOMAIN Tail(q) = 1 .. Len(q) - 1
         /\ \A i \in 1 .. Len(q) - 1 : Tail(q)[i] = q[i + 1]
  OBVIOUS

LEMMA SeqAppend ==
  ASSUME NEW S, NEW q \in Seq(S), NEW x \in S
  PROVE  /\ Append(q, x) \in Seq(S) /\ Len(Append(q, x)) = Len(q) + 1
         /\ DOMAIN q = 1 .. Len(q) /\ DOMAIN Append(q, x) = 1 .. Len(q) + 1
         /\ \A i \in 1 .. Len(q) : Append(q, x)[i] = q[i]
         /\ Append(q, x)[Len(q) + 1] = x
  OBVIOUS

LEMMA SeqTailAppend ==
  ASSUME NEW S, NEW q \in Seq(S), q # <<>>, NEW x \in S
  PROVE  /\ Append(Tail(q), x) \in Seq(S) /\ Head(q) = q[1] /\ Len(q) >= 1 /\ q[1] \in S
         /\ DOMAIN q = 1 .. Len(q) /\ DOMAIN Append(Tail(q), x) = 1 .. Len(q)
         /\ \A i \in 1 .. Len(q) - 1 : Append(Tail(q), x)[i] = q[i + 1]
         /\ Append(Tail(q), x)[Len(q)] = x
  <1>1. /\ Tail(q) \in Seq(S) /\ Len(Tail(q)) = Len(q) - 1 /\ Head(q) = q[1] /\ Len(q) >= 1
        /\ q[1] \in S /\ DOMAIN q = 1 .. Len(q)
        /\ \A i \in 1 .. Len(q) - 1 : Tail(q)[i] = q[i + 1]
    BY SeqTail
  <1> DEFINE r == Tail(q)
  <1>2. /\ Append(r, x) \in Seq(S) /\ DOMAIN Append(r, x) = 1 .. Len(r) + 1
        /\ \A i \in 1 .. Len(r) : Append(r, x)[i] = r[i]
        /\ Append(r, x)[Len(r) + 1] = x
    <2> HIDE DEF r
    <2>1. r \in Seq(S) BY <1>1 DEF r
    <2>2. QED BY <2>1, SeqAppend
  <1>3. QED BY <1>1, <1>2

LEMMA SeqRemove ==
  ASSUME NEW S, NEW q \in Seq(S), NEW k \in DOMAIN q
  PROVE  /\ RemoveAt(q, k) \in Seq(S) /\ Len(RemoveAt(q, k)) = Len(q) - 1
         /\ DOMAIN RemoveAt(q, k) = 1 .. Len(q) - 1 /\ DOMAIN q = 1 .. Len(q)
         /\ \A i \in 1 .. Len(q) - 1 : RemoveAt(q, k)[i] = IF i < k THEN q[i] ELSE q[i + 1]
  <1>1. /\ k \in 1 .. Len(q) /\ DOMAIN q = 1 .. Len(q) /\ Len(q) \in Nat
    OBVIOUS
  <1> DEFINE a == SubSeq(q, 1, k - 1)
             b == SubSeq(q, k + 1, Len(q))
  <1>2. /\ a \in Seq(S) /\ Len(a) = k - 1 /\ \A i \in 1 .. k - 1 : a[i] = q[i]
    BY <1>1
  <1>3. /\ b \in Seq(S) /\ Len(b) = Len(q) - k /\ \A i \in 1 .. Len(q) - k : b[i] = q[k + i]
    BY <1>1
  <1>4. RemoveAt(q, k) = a \o b
    BY DEF RemoveAt
  <1> HIDE DEF a, b
  <1>5. a \o b \in Seq(S) /\ Len(a \o b) = Len(q) - 1
    <2>1. a \in Seq(S) /\ b \in Seq(S)
      BY <1>2, <1>3
    <2>2. a \o b \in Seq(S) /\ Len(a \o b) = Len(a) + Len(b)
      BY <2>1
    <2>3. QED BY <2>2, <1>1, <1>2, <1>3
  <1>6. ASSUME NEW i \in 1 .. Len(q) - 1
        PROVE  (a \o b)[i] = IF i =< k - 1 THEN a[i] ELSE b[i - (k - 1)]
    BY <1>1, <1>2, <1>3
  <1>7. ASSUME NEW i \in 1 .. Len(q) - 1
        PROVE  (a \o b)[i] = IF i < k THEN q[i] ELSE q[i + 1]
    <2>1. CASE i < k
      BY <2>1, <1>6, <1>2, <1>1
    <2>2. CASE ~(i < k)
      <3>1. i - (k - 1) \in 1 .. Len(q) - k /\ k + (i - (k - 1)) = i + 1 /\ ~(i =< k - 1)
        BY <2>2, <1>1
      <3>2. b[i - (k - 1)] = q[k + (i - (k - 1))]
        BY <3>1, <1>3
      <3>3. QED BY <3>1, <3>2, <2>2, <1>6
    <2>3. QED BY <2>1, <2>2
  <1>8. DOMAIN (a \o b) = 1 .. Len(q) - 1
    BY <1>5, <1>1
  <1>9. QED BY <1>1, <1>4, <1>5, <1>7, <1>8

LEMMA Counted ==
  ASSUME NEW n \in Nat
  PROVE  Cardinality(1 .. n) = n /\ IsFiniteSet(1 .. n)
  BY FS_Interval

\* The first of the saves that waited for the creation is the oldest.
LEMMA OldestFirst ==
  ASSUME NEW n \in Nat, NEW m \in Nat, NEW joined \in SUBSET (1 .. m), Cardinality(joined) = n,
         NEW order \in [1 .. n -> joined], \A i, j \in 1 .. n : i < j => order[i] < order[j],
         NEW k \in joined
  PROVE  1 \in 1 .. n /\ order[1] =< k
  <1>0. \A i \in 1 .. n : order[i] \in Nat
    <2>1. \A i \in 1 .. n : order[i] \in joined
      OBVIOUS
    <2>2. joined \subseteq Nat
      OBVIOUS
    <2>3. QED BY <2>1, <2>2
  <1>1. IsFiniteSet(1 .. m) /\ IsFiniteSet(1 .. n) /\ Cardinality(1 .. n) = n
    BY Counted
  <1>2. IsFiniteSet(joined)
    BY <1>1, FS_Subset
  <1>3. order \in Injection(1 .. n, joined)
    <2>1. ASSUME NEW i \in 1 .. n, NEW j \in 1 .. n, order[i] = order[j] PROVE i = j
      <3>1. order[i] \in Nat /\ order[j] \in Nat
        BY <1>0
      <3>2. ~(i < j) /\ ~(j < i)
        BY <3>1, <2>1
      <3>3. QED BY <3>2
    <2>2. QED BY <2>1 DEF Injection, IsInjective
  <1>4. order \in Surjection(1 .. n, joined)
    BY <1>1, <1>2, <1>3, FS_Injection
  <1>5. PICK i \in 1 .. n : order[i] = k
    BY <1>4 DEF Surjection
  <1>6. 1 \in 1 .. n /\ (i # 1 => 1 < i)
    OBVIOUS
  <1>7. QED BY <1>0, <1>5, <1>6

\* The number a new save gets is no other save's.
LEMMA Fresh ==
  ASSUME SaveType
  PROVE  FreshNo \in Nat \ {0} /\ \A i \in DOMAIN saves : saves[i].no # FreshNo
  <1> DEFINE n == Len(saves)
             T == {m \in 1 .. n + 1 : Unfinished(m)}
  <1>1. n \in Nat /\ DOMAIN saves = 1 .. n
    BY DEF SaveType
  <1>2. SUFFICES \E m \in 1 .. n + 1 : ~Unfinished(m)
    <2>1. FreshNo \in 1 .. n + 1 /\ ~Unfinished(FreshNo)
      BY <1>2 DEF FreshNo
    <2>2. QED BY <2>1, <1>1 DEF Unfinished, Range
  <1>3. SUFFICES ASSUME \A m \in 1 .. n + 1 : \E i \in 1 .. n : saves[i].no = m PROVE FALSE
    BY <1>1 DEF Unfinished, Range
  <1> DEFINE f == [m \in 1 .. n + 1 |-> CHOOSE i \in 1 .. n : saves[i].no = m]
  <1>4. \A m \in 1 .. n + 1 : f[m] \in 1 .. n /\ saves[f[m]].no = m
    BY <1>3
  <1>5. f \in [1 .. n + 1 -> 1 .. n]
    BY <1>4
  <1>6. /\ IsFiniteSet(1 .. n + 1) /\ IsFiniteSet(1 .. n)
        /\ Cardinality(1 .. n) < Cardinality(1 .. n + 1)
    <2>1. n + 1 \in Nat BY <1>1
    <2>2. Cardinality(1 .. n + 1) = n + 1 /\ IsFiniteSet(1 .. n + 1) BY <2>1, Counted
    <2>3. Cardinality(1 .. n) = n /\ IsFiniteSet(1 .. n) BY <1>1, Counted
    <2>4. QED BY <2>2, <2>3, <1>1
  <1> HIDE DEF f
  <1>7. \E x, y \in 1 .. n + 1 : x # y /\ f[x] = f[y]
    BY <1>5, <1>6, FS_PigeonHole
  <1>8. QED BY <1>7, <1>4

\* What the changes of the list of saves do, save by save.
LEMMA SaveStarted ==
  ASSUME SaveType, NEW r \in SaveRecord, saves' = Append(saves, r)
  PROVE  /\ SaveType' /\ DOMAIN saves = 1 .. Len(saves) /\ DOMAIN saves' = 1 .. Len(saves) + 1
         /\ Len(saves) \in Nat
         /\ \A i \in 1 .. Len(saves) : saves'[i] = saves[i]
         /\ saves'[Len(saves) + 1] = r
  BY SeqAppend DEF SaveType

LEMMA SaveUpdated ==
  ASSUME SaveType, NumbersInv, NEW k \in DOMAIN saves, NEW r \in SaveRecord,
         r.no = saves[k].no, Updated(r)
  PROVE  /\ SaveType' /\ DOMAIN saves' = DOMAIN saves /\ saves'[k] = r
         /\ \A i \in DOMAIN saves : i # k => saves'[i] = saves[i]
         /\ \A i \in DOMAIN saves : saves'[i].no = saves[i].no
  <1>1. DOMAIN saves = 1 .. Len(saves) /\ Len(saves) \in Nat
        /\ \A i \in DOMAIN saves : saves[i] \in SaveRecord
    BY DEF SaveType
  <1>2. saves' = [i \in 1 .. Len(saves) |-> IF saves[i].no = r.no THEN r ELSE saves[i]]
    BY <1>1 DEF Updated
  <1>3. \A i \in DOMAIN saves : saves'[i] \in SaveRecord
    BY <1>1, <1>2
  <1>4. saves' \in Seq(SaveRecord)
    BY <1>1, <1>2, <1>3
  <1>5. QED BY <1>1, <1>2, <1>4 DEF SaveType, NumbersInv

LEMMA SaveFinished ==
  ASSUME SaveType, NEW no, Finished(no)
  PROVE  \E k \in DOMAIN saves :
           /\ saves[k].no = no
           /\ SaveType' /\ DOMAIN saves = 1 .. Len(saves) /\ DOMAIN saves' = 1 .. Len(saves) - 1
           /\ Len(saves) \in Nat
           /\ \A i \in 1 .. Len(saves) - 1 : saves'[i] = IF i < k THEN saves[i] ELSE saves[i + 1]
  <1>1. PICK k \in DOMAIN saves : saves[k].no = no /\ saves' = RemoveAt(saves, k)
    BY DEF Finished
  <1> DEFINE r == RemoveAt(saves, k)
  <1>2. /\ r \in Seq(SaveRecord) /\ DOMAIN r = 1 .. Len(saves) - 1 /\ DOMAIN saves = 1 .. Len(saves)
        /\ \A i \in 1 .. Len(saves) - 1 : r[i] = IF i < k THEN saves[i] ELSE saves[i + 1]
    BY SeqRemove DEF SaveType
  <1>3. Len(saves) \in Nat
    BY DEF SaveType
  <1> HIDE DEF r
  <1>4. saves' = r
    BY <1>1 DEF r
  <1>5. QED BY <1>1, <1>2, <1>3, <1>4 DEF SaveType

LEMMA SaveGone ==
  ASSUME SaveType, NumbersInv, NEW k \in DOMAIN saves, Finished(saves[k].no)
  PROVE  /\ SaveType' /\ DOMAIN saves = 1 .. Len(saves) /\ DOMAIN saves' = 1 .. Len(saves) - 1
         /\ Len(saves) \in Nat
         /\ \A i \in 1 .. Len(saves) - 1 : saves'[i] = IF i < k THEN saves[i] ELSE saves[i + 1]
         /\ \A i \in DOMAIN saves' : \E j \in DOMAIN saves : j # k /\ saves'[i] = saves[j]
         /\ \A i \in DOMAIN saves : i # k => \E j \in DOMAIN saves' : saves'[j] = saves[i]
         /\ NumbersInv'
  <1>1. PICK m \in DOMAIN saves :
           /\ saves[m].no = saves[k].no
           /\ SaveType' /\ DOMAIN saves = 1 .. Len(saves) /\ DOMAIN saves' = 1 .. Len(saves) - 1
           /\ Len(saves) \in Nat
           /\ \A i \in 1 .. Len(saves) - 1 : saves'[i] = IF i < m THEN saves[i] ELSE saves[i + 1]
    BY SaveFinished
  <1>2. m = k
    BY <1>1 DEF NumbersInv
  <1>3. ASSUME NEW i \in DOMAIN saves, i # k
        PROVE  \E j \in DOMAIN saves' : saves'[j] = saves[i]
    <2>1. CASE i < k
      BY <2>1, <1>1, <1>2
    <2>2. CASE i > k
      <3>1. i - 1 \in DOMAIN saves' /\ ~(i - 1 < k)
        BY <2>2, <1>1
      <3>2. saves'[i - 1] = saves[i - 1 + 1]
        BY <3>1, <1>1, <1>2
      <3>3. QED BY <3>1, <3>2, <1>1
    <2>3. QED BY <1>3, <2>1, <2>2, <1>1
  <1>4. ASSUME NEW i \in DOMAIN saves'
        PROVE  \E j \in DOMAIN saves : j # k /\ saves'[i] = saves[j]
    <2>1. CASE i < k
      BY <2>1, <1>1, <1>2
    <2>2. CASE ~(i < k)
      <3>1. i + 1 \in DOMAIN saves /\ i + 1 # k /\ saves'[i] = saves[i + 1]
        BY <2>2, <1>1, <1>2
      <3>2. QED BY <3>1
    <2>3. QED BY <2>1, <2>2
  <1>5. ASSUME NEW i \in DOMAIN saves', NEW j \in DOMAIN saves', i < j
        PROVE  saves'[i].no # saves'[j].no
    <2>1. CASE i < k /\ j < k
      BY <2>1, <1>5, <1>1, <1>2 DEF NumbersInv
    <2>2. CASE i < k /\ ~(j < k)
      BY <2>2, <1>5, <1>1, <1>2 DEF NumbersInv
    <2>3. CASE ~(i < k)
      <3>1. saves'[i] = saves[i + 1] /\ saves'[j] = saves[j + 1]
        BY <2>3, <1>5, <1>1, <1>2
      <3>2. i + 1 \in DOMAIN saves /\ j + 1 \in DOMAIN saves /\ i + 1 # j + 1
        BY <1>5, <1>1
      <3>3. QED BY <3>1, <3>2 DEF NumbersInv
    <2>4. QED BY <2>1, <2>2, <2>3
  <1>6. NumbersInv'
    BY <1>5, <1>1 DEF NumbersInv
  <1>7. QED BY <1>1, <1>2, <1>3, <1>4, <1>6

\* What the changes of the recovery queue do, operation by operation.
LEMMA OpAdded ==
  ASSUME QueueType, NEW o \in Operation, recq' = Append(recq, o)
  PROVE  /\ QueueType' /\ DOMAIN recq = 1 .. Len(recq) /\ DOMAIN recq' = 1 .. Len(recq) + 1
         /\ Len(recq) \in Nat
         /\ \A i \in 1 .. Len(recq) : recq'[i] = recq[i]
         /\ recq'[Len(recq) + 1] = o
  BY SeqAppend DEF QueueType

LEMMA OpTaken ==
  ASSUME QueueType, recq # <<>>, recq' = Tail(recq)
  PROVE  /\ QueueType' /\ DOMAIN recq = 1 .. Len(recq) /\ DOMAIN recq' = 1 .. Len(recq) - 1
         /\ Len(recq) \in Nat \ {0} /\ Head(recq) = recq[1] /\ recq[1] \in Operation
         /\ \A i \in 1 .. Len(recq) - 1 : recq'[i] = recq[i + 1]
  <1>1. recq \in Seq(Operation) /\ Len(recq) \in Nat
    BY DEF QueueType
  <1>2. QED BY <1>1, SeqTail DEF QueueType

LEMMA OpReplaced ==
  ASSUME QueueType, recq # <<>>, NEW o \in Operation, recq' = Append(Tail(recq), o)
  PROVE  /\ QueueType' /\ DOMAIN recq = 1 .. Len(recq) /\ DOMAIN recq' = 1 .. Len(recq)
         /\ Len(recq) \in Nat \ {0} /\ Head(recq) = recq[1] /\ recq[1] \in Operation
         /\ \A i \in 1 .. Len(recq) - 1 : recq'[i] = recq[i + 1]
         /\ recq'[Len(recq)] = o
  <1>1. recq \in Seq(Operation) /\ Len(recq) \in Nat
    BY DEF QueueType
  <1> DEFINE r == Append(Tail(recq), o)
  <1>2. /\ r \in Seq(Operation) /\ Head(recq) = recq[1] /\ Len(recq) >= 1 /\ recq[1] \in Operation
        /\ DOMAIN recq = 1 .. Len(recq) /\ DOMAIN r = 1 .. Len(recq)
        /\ \A i \in 1 .. Len(recq) - 1 : r[i] = recq[i + 1]
        /\ r[Len(recq)] = o
    BY <1>1, SeqTailAppend
  <1>3. recq' = r
    OBVIOUS
  <1> HIDE DEF r
  <1>4. QED BY <1>1, <1>2, <1>3 DEF QueueType

\* The windows that have to be closed for a text to stay in its note.
OwnClosed == Loose \cap {"switch", "overlap", "lock", "startup"} = {}

LEMMA OperationTypes ==
  /\ None \in Row
  /\ \A note \in Nat, t \in Text : Put(note, t) \in Operation
  /\ \A by \in Nat \cup {Restorer} : Delete(by) \in Operation /\ Read(by) \in Operation
  BY DEF None, Row, Text, Put, Delete, Read, Operation, Off, Restorer

LEMMA TypeKeeps ==
  ASSUME EditorInv, Type, OwnClosed
  PROVE  EditorInv'
  <1> USE DEF Draft, Off, Restorer
  <1>0. /\ DataType /\ ScreenType /\ SaveType /\ QueueType /\ BornInv /\ NextInv /\ CreatingInv
        /\ StoreInv /\ ListInv /\ ValueInv /\ RowInv /\ NavInv /\ SavesInv /\ DraftInv /\ NumbersInv
        /\ AwaitInv /\ PutsInv /\ ReadsInv /\ UniqueOpsInv /\ PhaseInv
    BY DEF EditorInv
  <1>1. /\ phase = "open" /\ nav = NoNav /\ keys' = keys + 1
        /\ value' = [home |-> Here, n |-> keys'] /\ timer' = sel
        /\ recq' = Append(recq, Put(sel, value'))
        /\ UNCHANGED <<store_, sel, session, saves, creating, nav, rec, acked, phase, moves, crashes>>
    BY DEF Type, OwnClosed, Queue
  <1>2. /\ store' = store /\ born' = born /\ list' = list /\ sel' = sel /\ session' = session
        /\ saves' = saves /\ creating' = creating /\ nav' = nav /\ rec' = rec /\ acked' = acked
        /\ phase' = phase
    BY <1>1 DEF store_
  <1>3. value' \in Text /\ keys' \in Nat /\ sel \in Nat
    BY <1>1, <1>0 DEF ScreenType, DataType, Text, Here
  <1>4. IF sel = Draft THEN value'.home = -session ELSE value'.home = sel
    BY <1>1 DEF Here
  <1>5. Put(sel, value') \in Operation
    BY <1>3, OperationTypes
  <1>6. /\ QueueType' /\ DOMAIN recq = 1 .. Len(recq) /\ DOMAIN recq' = 1 .. Len(recq) + 1
        /\ Len(recq) \in Nat
        /\ \A i \in 1 .. Len(recq) : recq'[i] = recq[i]
        /\ recq'[Len(recq) + 1] = Put(sel, value')
    BY <1>0, <1>1, <1>5, OpAdded
  <1>7. /\ Put(sel, value').op = "put" /\ Put(sel, value').by = 0
        /\ Put(sel, value').row.note = sel /\ Put(sel, value').row.text = value'
    BY DEF Put
  <1>8. DataType' /\ SaveType' /\ BornInv' /\ NextInv' /\ CreatingInv' /\ StoreInv' /\ ListInv'
        /\ NumbersInv' /\ DraftInv'
    BY <1>0, <1>2 DEF DataType, SaveType, BornInv, NextInv, CreatingInv, StoreInv, ListInv,
                      NumbersInv, DraftInv, Notes, Own
  <1>9. ScreenType'
    BY <1>0, <1>1, <1>2, <1>3 DEF ScreenType, Notes
  <1>10. ValueInv'
    BY <1>2, <1>4 DEF ValueInv, Own
  <1>11. RowInv' /\ NavInv' /\ SavesInv'
    BY <1>0, <1>1, <1>2 DEF RowInv, OwnRows, NavInv, SavesInv, OwnSaves, Notes, Own
  <1>12. AwaitInv' /\ PutsInv' /\ ReadsInv'
    <2>1. OwnRows' = OwnRows
      BY <1>2 DEF OwnRows, Own, Notes
    <2>2. Put(sel, value').row \in OwnRows
      BY <1>0, <1>3, <1>4, <1>5, <1>7 DEF OwnRows, Own, ScreenType, Operation
    <2>3. AwaitInv'
      BY <1>0, <1>2, <1>6, <1>7 DEF AwaitInv, Awaits
    <2>4. PutsInv' /\ ReadsInv'
      BY <1>0, <1>6, <1>7, <2>1, <2>2 DEF PutsInv, ReadsInv
    <2>5. QED BY <2>3, <2>4
  <1>13. UniqueOpsInv'
    BY <1>0, <1>6, <1>7 DEF UniqueOpsInv
  <1>14. PhaseInv'
    BY <1>0, <1>1, <1>2, <1>6, <1>7 DEF PhaseInv
  <1>15. QED BY <1>6, <1>8, <1>9, <1>10, <1>11, <1>12, <1>13, <1>14 DEF EditorInv

\* saveEditorNow starts: its save, what it creates, and the read it may queue.
StartFacts(s) ==
  /\ s \in SaveRecord /\ saves' = Append(saves, s)
  /\ s.no = FreshNo /\ s.note = sel /\ s.text = value /\ s.session = session /\ timer' = Off
  /\ \/ /\ sel # Draft /\ s.made = Off /\ s.stage = "write"
        /\ creating' = creating /\ born' = born /\ recq' = recq
     \/ /\ sel = Draft /\ IsBlank(value) /\ s.made = Off /\ s.stage = "refresh"
        /\ creating' = creating /\ born' = born /\ recq' = recq
     \/ /\ sel = Draft /\ creating # Off /\ s.made = creating /\ creating \in Notes
        /\ s.stage = "remember"
        /\ creating' = creating /\ born' = born /\ recq' = Append(recq, Read(s.no))
     \/ /\ sel = Draft /\ creating # Off /\ s.made = creating /\ creating \notin Notes
        /\ s.stage = "create"
        /\ creating' = creating /\ born' = born /\ recq' = recq
     \/ /\ sel = Draft /\ creating = Off /\ s.made = Cardinality(Notes) + 1 /\ s.made \notin Notes
        /\ s.stage = "create" /\ creating' = s.made /\ recq' = recq
        /\ born' = [i \in Notes \cup {s.made} |-> IF i = s.made THEN value.home ELSE born[i]]

LEMMA StartedFacts ==
  ASSUME EditorInv, timer # Off, StartSave(timer)
  PROVE  \E s \in SaveRecord : StartFacts(s)
  <1> USE DEF Draft, Off
  <1>0. DataType /\ ScreenType /\ SaveType /\ BornInv /\ CreatingInv
    BY DEF EditorInv
  <1> DEFINE note  == Captured(timer)
             made  == IF note = Draft /\ ~IsBlank(value) THEN Joined ELSE Off
             stage == IF note # Draft THEN "write" ELSE IF made = Off THEN "refresh"
                      ELSE IF made \in Notes THEN "remember" ELSE "create"
             s     == [no |-> FreshNo, note |-> note, text |-> value,
                       session |-> session, stage |-> stage, made |-> made]
  <1>1. /\ saves' = Append(saves, s)
        /\ creating' = IF made = Off THEN creating ELSE made
        /\ born' = IF made \in DOMAIN born \cup {Off} THEN born
                   ELSE [i \in DOMAIN born \cup {made} |-> IF i = made THEN value.home ELSE born[i]]
        /\ recq' = IF stage = "remember" THEN Append(recq, Read(FreshNo)) ELSE recq
        /\ timer' = Off
    BY DEF StartSave
  <1>2. note = sel
    BY <1>0 DEF ScreenType, Captured
  <1>3. FreshNo \in Nat \ {0}
    BY <1>0, Fresh
  <1>4. creating = Off => DOMAIN born = Notes
    BY <1>0 DEF BornInv
  <1>5. Cardinality(Notes) + 1 \in Nat /\ Cardinality(Notes) + 1 \notin Notes
    BY <1>0 DEF DataType
  <1>6. creating # Off => creating \in Nat /\ creating \in DOMAIN born
    BY <1>0 DEF CreatingInv, ScreenType
  <1>7. Joined = IF creating # Off THEN creating ELSE Cardinality(Notes) + 1
    BY <1>4 DEF Joined
  <1>8. made = IF sel = Draft /\ ~IsBlank(value) THEN Joined ELSE Off
    BY <1>2
  <1>9. made \in Nat \cup {Off} /\ stage \in Stages
    BY <1>5, <1>6, <1>7, <1>8 DEF Stages
  <1>10. /\ s.no = FreshNo /\ s.note = sel /\ s.text = value /\ s.session = session
         /\ s.stage = stage /\ s.made = made
    BY <1>2
  <1>11. sel \in Nat /\ session \in Nat /\ value \in Text
    BY <1>0 DEF ScreenType, DataType
  <1>12. s \in SaveRecord
    BY <1>2, <1>3, <1>9, <1>11 DEF SaveRecord
  <1>13. stage = IF sel # Draft THEN "write" ELSE IF made = Off THEN "refresh"
                 ELSE IF made \in Notes THEN "remember" ELSE "create"
    BY <1>2
  <1> HIDE DEF note, made, stage, s
  <1>14. CASE sel # Draft
    <2>1. made = Off /\ stage = "write" BY <1>14, <1>8, <1>13
    <2>2. StartFacts(s) BY <1>14, <2>1, <1>1, <1>10, <1>12 DEF StartFacts
    <2>3. QED BY <2>2, <1>12
  <1>15. CASE sel = Draft /\ IsBlank(value)
    <2>1. made = Off /\ stage = "refresh" BY <1>15, <1>8, <1>13
    <2>2. StartFacts(s) BY <1>15, <2>1, <1>1, <1>10, <1>12 DEF StartFacts
    <2>3. QED BY <2>2, <1>12
  <1>16. CASE sel = Draft /\ ~IsBlank(value) /\ creating # Off
    <2>1. made = creating /\ made \in DOMAIN born /\ made # Off
      BY <1>16, <1>6, <1>7, <1>8
    <2>2. stage = IF creating \in Notes THEN "remember" ELSE "create"
      BY <1>16, <1>13, <2>1
    <2>3. StartFacts(s) BY <1>16, <2>1, <2>2, <1>1, <1>10, <1>12 DEF StartFacts
    <2>4. QED BY <2>3, <1>12
  <1>17. CASE sel = Draft /\ ~IsBlank(value) /\ creating = Off
    <2>1. made = Cardinality(Notes) + 1 /\ made \notin DOMAIN born /\ made # Off /\ made \notin Notes
      BY <1>17, <1>4, <1>5, <1>7, <1>8
    <2>2. stage = "create"
      BY <1>17, <1>13, <2>1
    <2>3. born' = [i \in Notes \cup {made} |-> IF i = made THEN value.home ELSE born[i]]
      BY <1>17, <1>4, <1>1, <2>1
    <2>4. StartFacts(s) BY <1>17, <2>1, <2>2, <2>3, <1>1, <1>10, <1>12 DEF StartFacts
    <2>5. QED BY <2>4, <1>12
  <1>18. QED BY <1>14, <1>15, <1>16, <1>17

\* All but the switch of notes that may await the save.
LEMMA StartKeeps ==
  ASSUME EditorInv, timer # Off, StartSave(timer),
         UNCHANGED <<store, list, sel, session, value, rec, acked, phase, keys>>,
         nav' = NoNav \/ nav' \in [to : Nat, text : Text, awaits : Nat], NavInv'
  PROVE  EditorInv'
  <1> USE DEF Draft, Off, Restorer
  <1>0. /\ DataType /\ ScreenType /\ SaveType /\ QueueType /\ BornInv /\ NextInv /\ CreatingInv
        /\ StoreInv /\ ListInv /\ ValueInv /\ RowInv /\ NavInv /\ SavesInv /\ DraftInv /\ NumbersInv
        /\ AwaitInv /\ PutsInv /\ ReadsInv /\ UniqueOpsInv /\ PhaseInv
    BY DEF EditorInv
  <1>1. PICK s \in SaveRecord : StartFacts(s)
    BY StartedFacts
  <1>2. /\ s \in SaveRecord /\ saves' = Append(saves, s)
        /\ s.no = FreshNo /\ s.note = sel /\ s.text = value /\ s.session = session /\ timer' = Off
    BY <1>1 DEF StartFacts
  <1>3. /\ SaveType' /\ DOMAIN saves = 1 .. Len(saves) /\ DOMAIN saves' = 1 .. Len(saves) + 1
        /\ Len(saves) \in Nat
        /\ \A i \in 1 .. Len(saves) : saves'[i] = saves[i]
        /\ saves'[Len(saves) + 1] = s
    BY <1>0, <1>2, SaveStarted
  <1>4. s.no \in Nat \ {0} /\ \A i \in DOMAIN saves : saves[i].no # s.no
    BY <1>0, <1>2, Fresh
  <1>5. phase = "open" /\ phase' = "open"
    BY <1>0 DEF PhaseInv
  <1>6. /\ store' = store /\ list' = list /\ sel' = sel /\ session' = session /\ value' = value
        /\ rec' = rec /\ acked' = acked /\ keys' = keys /\ Notes' = Notes
    BY DEF Notes
  <1>7. \A id \in DOMAIN born : id \in DOMAIN born' /\ born'[id] = born[id]
    BY <1>1, <1>0 DEF StartFacts, BornInv
  <1>8. DataType' /\ BornInv' /\ NextInv'
    <2>1. born' \in [DOMAIN born' -> Int]
      BY <1>0, <1>1 DEF StartFacts, DataType, BornInv, ScreenType, Text
    <2>2. DataType'
      BY <1>0, <1>6, <2>1 DEF DataType
    <2>3. BornInv' /\ NextInv'
      <3>1. CASE creating' = creating /\ born' = born
        BY <3>1, <1>0, <1>6 DEF BornInv, NextInv
      <3>2. CASE ~(creating' = creating /\ born' = born)
        <4>1. /\ creating = Off /\ creating' = s.made /\ s.made = Cardinality(Notes) + 1
              /\ s.made \notin Notes /\ DOMAIN born' = Notes \cup {s.made}
          BY <3>2, <1>1 DEF StartFacts
        <4>2. creating' # Off
          BY <4>1, <1>0 DEF DataType
        <4>3. QED BY <4>1, <4>2, <1>6 DEF BornInv, NextInv
      <3>3. QED BY <3>1, <3>2
    <2>4. QED BY <2>2, <2>3
  <1>9. ScreenType'
    BY <1>0, <1>1, <1>2, <1>5, <1>6 DEF StartFacts, ScreenType, DataType
  <1>10. \A t : \A id \in DOMAIN born : Own(id, t) => Own(id, t)'
    BY <1>7 DEF Own
  <1>11. Notes \subseteq DOMAIN born
    BY <1>0 DEF BornInv
  <1>12. StoreInv' /\ ListInv' /\ ValueInv'
    BY <1>0, <1>6, <1>10, <1>11, <1>7 DEF StoreInv, ListInv, ValueInv, DataType, ScreenType, Own
  <1>13. CreatingInv'
    <2>1. CASE creating' = creating
      <3>1. SUFFICES ASSUME creating # Off
                     PROVE /\ creating \in DOMAIN born' /\ born'[creating] = -session
                           /\ sel \in {Draft, creating}
                           /\ \E i \in DOMAIN saves' : saves'[i].made = creating /\ saves'[i].stage \in Unwritten
        BY <2>1, <1>6 DEF CreatingInv
      <3>2. QED BY <3>1, <1>0, <1>3, <1>7 DEF CreatingInv
    <2>2. CASE creating' # creating
      <3>1. /\ sel = Draft /\ creating' = s.made /\ s.stage = "create" /\ s.made \notin Notes
            /\ born' = [i \in Notes \cup {s.made} |-> IF i = s.made THEN value.home ELSE born[i]]
        BY <2>2, <1>1 DEF StartFacts
      <3>2. s.made \in DOMAIN born' /\ born'[s.made] = -session
        BY <3>1, <1>0 DEF ValueInv
      <3>3. QED BY <3>1, <3>2, <1>3, <1>6 DEF CreatingInv, Unwritten
    <2>3. QED BY <2>1, <2>2
  <1>14. OwnRows \subseteq OwnRows'
    BY <1>6, <1>10, <1>11 DEF OwnRows
  <1>15. RowInv'
    BY <1>0, <1>6, <1>14 DEF RowInv
  <1>16. OwnSaves \subseteq OwnSaves'
    <2>1. SUFFICES ASSUME NEW r \in OwnSaves PROVE r \in OwnSaves'
      OBVIOUS
    <2>2. r.stage = "create" => creating' = creating
      BY <2>1, <1>1 DEF OwnSaves, StartFacts
    <2>3. QED BY <2>1, <2>2, <1>6, <1>7, <1>10, <1>11 DEF OwnSaves
  <1>17. s \in OwnSaves'
    <2>1. sel # Draft => Own(sel, s.text)'
      BY <1>0, <1>2, <1>10, <1>11 DEF ValueInv, ScreenType
    <2>2. s.made # Off => sel = Draft /\ s.made \in DOMAIN born' /\ born'[s.made] = -session
      BY <1>0, <1>1 DEF StartFacts, CreatingInv, ValueInv
    <2>3. s.made # Off => Own(s.made, s.text)' /\ s.text.home = -s.session
      BY <2>2, <1>0, <1>2 DEF ValueInv, Own
    <2>4. /\ s.stage = "write" => sel # Draft
          /\ s.stage = "remember" => s.made # Off
          /\ s.made # Off /\ s.stage # "create" => s.made \in Notes
          /\ s.stage = "create" => s.made = creating' /\ creating' \notin Notes \cup {Off}
      BY <1>1, <1>0 DEF StartFacts, DataType
    <2>5. QED BY <2>1, <2>2, <2>3, <2>4, <1>0, <1>2, <1>6 DEF OwnSaves, ScreenType
  <1>18. SavesInv' /\ NumbersInv' /\ DraftInv'
    <2>1. SavesInv' /\ NumbersInv'
      BY <1>0, <1>3, <1>4, <1>16, <1>17 DEF SavesInv, NumbersInv
    <2>2. \A i \in DOMAIN saves : saves[i].made # Off /\ sel = Draft => creating' = creating
      BY <1>0, <1>1 DEF DraftInv, StartFacts
    <2>3. s.made # Off => sel = Draft /\ creating' = s.made /\ s.stage \in {"create", "remember"}
      BY <1>1 DEF StartFacts
    <2>4. DraftInv'
      BY <1>0, <1>2, <1>3, <1>6, <2>2, <2>3 DEF DraftInv
    <2>5. QED BY <2>1, <2>4
  <1>19. CASE s.stage # "remember"
    <2>1. recq' = recq
      BY <1>19, <1>1 DEF StartFacts
    <2>2. QueueType' /\ PutsInv' /\ ReadsInv' /\ UniqueOpsInv'
      BY <1>0, <2>1, <1>14 DEF QueueType, PutsInv, ReadsInv, UniqueOpsInv
    <2>3. AwaitInv'
      BY <1>0, <2>1, <1>3 DEF AwaitInv
    <2>4. PhaseInv'
      BY <1>0, <2>1, <1>5 DEF PhaseInv
    <2>5. QED BY <2>2, <2>3, <2>4, <1>3, <1>8, <1>9, <1>12, <1>13, <1>15, <1>18 DEF EditorInv
  <1>20. CASE s.stage = "remember"
    <2>1. recq' = Append(recq, Read(s.no))
      BY <1>20, <1>1 DEF StartFacts
    <2>2. /\ Read(s.no) \in Operation /\ Read(s.no).op = "read" /\ Read(s.no).by = s.no
          /\ Read(s.no).row = None
      BY <1>4, OperationTypes DEF Read
    <2>3. /\ QueueType' /\ DOMAIN recq = 1 .. Len(recq) /\ DOMAIN recq' = 1 .. Len(recq) + 1
          /\ Len(recq) \in Nat
          /\ \A i \in 1 .. Len(recq) : recq'[i] = recq[i]
          /\ recq'[Len(recq) + 1] = Read(s.no)
      BY <1>0, <2>1, <2>2, OpAdded
    <2>4. PutsInv' /\ ReadsInv'
      BY <1>0, <1>4, <2>2, <2>3, <1>14 DEF PutsInv, ReadsInv
    <2>5. \A i \in DOMAIN recq : recq[i].by # s.no
      BY <1>0, <1>4 DEF AwaitInv, Awaits
    <2>6. UniqueOpsInv'
      BY <1>0, <2>2, <2>3, <2>5 DEF UniqueOpsInv
    <2>7. Awaits(s, Read(s.no))
      BY <1>20, <2>2 DEF Awaits
    <2>8. AwaitInv'
      BY <1>0, <2>3, <2>7, <1>3 DEF AwaitInv
    <2>9. PhaseInv'
      BY <1>0, <2>2, <2>3, <1>4, <1>5 DEF PhaseInv
    <2>10. QED BY <2>3, <2>4, <2>6, <2>8, <2>9, <1>3, <1>8, <1>9, <1>12, <1>13, <1>15, <1>18 DEF EditorInv
  <1>21. QED BY <1>19, <1>20

LEMMA TimerKeeps ==
  ASSUME EditorInv, TimerFires
  PROVE  EditorInv'
  <1>1. /\ timer # Off /\ StartSave(timer) /\ nav' = nav
        /\ UNCHANGED <<store, list, sel, session, value, rec, acked, phase, keys>>
    BY DEF TimerFires
  <1>2. ScreenType /\ NavInv /\ BornInv
    BY DEF EditorInv
  <1>3. nav = NoNav
    BY <1>1, <1>2 DEF NavInv
  <1>4. nav' = NoNav \/ nav' \in [to : Nat, text : Text, awaits : Nat]
    BY <1>1, <1>3
  <1>5. NavInv'
    BY <1>1, <1>3 DEF NavInv
  <1>6. QED BY <1>1, <1>4, <1>5, StartKeeps

LEMMA WriteKeeps ==
  ASSUME EditorInv, NEW s \in Range(saves), Write(s)
  PROVE  EditorInv'
  <1> USE DEF Draft, Off, Restorer
  <1>0. /\ DataType /\ ScreenType /\ SaveType /\ QueueType /\ BornInv /\ NextInv /\ CreatingInv
        /\ StoreInv /\ ListInv /\ ValueInv /\ RowInv /\ NavInv /\ SavesInv /\ DraftInv /\ NumbersInv
        /\ AwaitInv /\ PutsInv /\ ReadsInv /\ UniqueOpsInv /\ PhaseInv
    BY DEF EditorInv
  <1>1. PICK k \in DOMAIN saves : saves[k] = s
    BY DEF Range
  <1> DEFINE r == [s EXCEPT !.stage = "refresh"]
  <1>2. /\ s.stage = "write" /\ store' = [store EXCEPT ![s.note] = s.text]
        /\ creating' = Settled(s) /\ Updated(r)
        /\ UNCHANGED <<born, list, screen, nav, recovery, phase, keys, moves, crashes>>
    BY DEF Write
  <1>3. s \in SaveRecord /\ s \in OwnSaves /\ s.note \in Notes /\ Own(s.note, s.text)
    BY <1>0, <1>1, <1>2 DEF SaveType, SavesInv, OwnSaves
  <1>4. /\ r \in SaveRecord /\ r.no = s.no /\ r.stage = "refresh" /\ r.made = s.made
        /\ r.note = s.note /\ r.text = s.text /\ r.session = s.session
    BY <1>3 DEF SaveRecord, Stages
  <1> HIDE DEF r
  <1>5. /\ SaveType' /\ DOMAIN saves' = DOMAIN saves /\ saves'[k] = r
        /\ \A i \in DOMAIN saves : i # k => saves'[i] = saves[i]
        /\ \A i \in DOMAIN saves : saves'[i].no = saves[i].no
    BY <1>0, <1>1, <1>2, <1>4, SaveUpdated
  <1>6. /\ born' = born /\ list' = list /\ sel' = sel /\ session' = session /\ value' = value
        /\ timer' = timer /\ nav' = nav /\ rec' = rec /\ recq' = recq /\ acked' = acked
        /\ phase' = phase /\ keys' = keys
    BY <1>2 DEF screen, recovery
  <1>7. Notes' = Notes
    BY <1>0, <1>2 DEF Notes, DataType
  <1>8. \A t, id : Own(id, t)' <=> Own(id, t)
    BY <1>6 DEF Own
  <1>9. creating' = IF creating = s.made THEN Off ELSE creating
    BY <1>2 DEF Settled
  <1>10. s.made # Off => s.made \in Notes
    BY <1>2, <1>3 DEF OwnSaves
  <1>11. DataType' /\ StoreInv'
    BY <1>0, <1>2, <1>3, <1>6, <1>7, <1>8 DEF DataType, StoreInv, SaveRecord, Notes
  <1>12. ScreenType'
    BY <1>0, <1>6, <1>7, <1>9 DEF ScreenType
  <1>13. BornInv' /\ NextInv'
    BY <1>0, <1>6, <1>7, <1>9, <1>10 DEF BornInv, NextInv
  <1>14. CreatingInv'
    <2>1. CASE creating = s.made
      BY <2>1, <1>9 DEF CreatingInv
    <2>2. CASE creating # s.made
      <3>1. creating' = creating
        BY <2>2, <1>9
      <3>2. SUFFICES ASSUME creating # Off
                     PROVE \E i \in DOMAIN saves' : saves'[i].made = creating /\ saves'[i].stage \in Unwritten
        BY <3>1, <1>0, <1>6 DEF CreatingInv
      <3>3. PICK i \in DOMAIN saves : saves[i].made = creating /\ saves[i].stage \in Unwritten
        BY <3>2, <1>0 DEF CreatingInv
      <3>4. i # k
        BY <3>3, <2>2, <1>1
      <3>5. QED BY <3>3, <3>4, <1>5
    <2>3. QED BY <2>1, <2>2
  <1>15. ListInv' /\ ValueInv' /\ RowInv' /\ PutsInv' /\ ReadsInv' /\ UniqueOpsInv' /\ QueueType'
    BY <1>0, <1>6, <1>7, <1>8 DEF ListInv, ValueInv, RowInv, OwnRows, PutsInv, ReadsInv,
                                  UniqueOpsInv, QueueType
  <1>16. NavInv'
    BY <1>0, <1>6, <1>7, <1>8 DEF NavInv
  <1>17. SavesInv'
    <2>1. \A q \in OwnSaves : q \in OwnSaves'
      BY <1>6, <1>7, <1>8, <1>9, <1>10 DEF OwnSaves
    <2>2. r \in OwnSaves'
      BY <1>3, <1>4, <1>6, <1>7, <1>8, <1>10 DEF OwnSaves
    <2>3. QED BY <2>1, <2>2, <1>0, <1>5 DEF SavesInv
  <1>18. NumbersInv' /\ DraftInv'
    <2>1. s.made # Off => sel = s.made /\ sel # Draft
      BY <1>0, <1>1, <1>2, <1>10 DEF DraftInv, DataType
    <2>2. \A i \in DOMAIN saves : saves[i].made # Off /\ sel = Draft => creating' = creating
      BY <2>1, <1>0, <1>9, <1>10 DEF DraftInv, DataType
    <2>3. DraftInv'
      BY <2>1, <2>2, <1>0, <1>1, <1>4, <1>5, <1>6 DEF DraftInv
    <2>4. QED BY <2>3, <1>0, <1>5 DEF NumbersInv
  <1>19. AwaitInv'
    <2>1. \A o \in Operation : ~Awaits(s, o)
      BY <1>2 DEF Awaits
    <2>2. SUFFICES ASSUME NEW i \in DOMAIN recq, recq[i].by \in Nat \ {0}
                   PROVE \E j \in DOMAIN saves' : Awaits(saves'[j], recq[i])
      BY <1>6 DEF AwaitInv
    <2>3. PICK j \in DOMAIN saves : Awaits(saves[j], recq[i])
      BY <2>2, <1>0 DEF AwaitInv
    <2>4. j # k
      BY <2>3, <1>1, <1>2 DEF Awaits
    <2>5. QED BY <2>3, <2>4, <1>5
  <1>20. PhaseInv'
    <2>1. saves # <<>>
      BY <1>1, <1>0 DEF SaveType
    <2>2. QED BY <2>1, <1>0, <1>6 DEF PhaseInv
  <1>21. QED BY <1>5, <1>11, <1>12, <1>13, <1>14, <1>15, <1>16, <1>17, <1>18, <1>19, <1>20 DEF EditorInv

LEMMA RefreshKeeps ==
  ASSUME EditorInv, NEW s \in Range(saves), Refresh(s)
  PROVE  EditorInv'
  <1> USE DEF Draft, Off, Restorer
  <1>0. /\ DataType /\ ScreenType /\ SaveType /\ QueueType /\ BornInv /\ NextInv /\ CreatingInv
        /\ StoreInv /\ ListInv /\ ValueInv /\ RowInv /\ NavInv /\ SavesInv /\ DraftInv /\ NumbersInv
        /\ AwaitInv /\ PutsInv /\ ReadsInv /\ UniqueOpsInv /\ PhaseInv
    BY DEF EditorInv
  <1>1. PICK k \in DOMAIN saves : saves[k] = s
    BY DEF Range
  <1>2. /\ s.stage = "refresh" /\ list' = store
        /\ UNCHANGED <<store, born, screen, creating, nav, rec, acked, phase, keys, moves, crashes>>
    BY DEF Refresh
  <1>3. s \in SaveRecord /\ s \in OwnSaves /\ s.no \in Nat \ {0}
    <2>1. s \in OwnSaves
      BY <1>0, <1>1 DEF SavesInv
    <2>2. s \in SaveRecord
      BY <2>1 DEF OwnSaves
    <2>3. QED BY <2>1, <2>2 DEF SaveRecord
  <1>4. /\ store' = store /\ born' = born /\ sel' = sel /\ session' = session /\ value' = value
        /\ timer' = timer /\ nav' = nav /\ rec' = rec /\ acked' = acked /\ creating' = creating
        /\ phase' = phase /\ keys' = keys /\ Notes' = Notes
    BY <1>2 DEF screen, Notes
  <1>5. DataType' /\ ScreenType' /\ BornInv' /\ NextInv' /\ StoreInv' /\ ListInv' /\ ValueInv'
    BY <1>0, <1>2, <1>4 DEF DataType, ScreenType, BornInv, NextInv, StoreInv, ListInv, ValueInv, Own, Notes
  <1>6. RowInv' /\ NavInv'
    BY <1>0, <1>4 DEF RowInv, OwnRows, NavInv, Own
  <1>7. OwnRows' = OwnRows /\ OwnSaves' = OwnSaves
    BY <1>4 DEF OwnRows, OwnSaves, Own
  <1>8. saves # <<>> /\ phase = "open"
    BY <1>0, <1>1 DEF SaveType, PhaseInv
  <1>9. \A i \in DOMAIN recq : recq[i].by # s.no
    <2>1. SUFFICES ASSUME NEW i \in DOMAIN recq, recq[i].by = s.no PROVE FALSE
      OBVIOUS
    <2>2. PICK j \in DOMAIN saves : Awaits(saves[j], recq[i])
      BY <2>1, <1>0, <1>3 DEF AwaitInv
    <2>3. j = k
      BY <2>1, <2>2, <1>0, <1>1 DEF Awaits, NumbersInv
    <2>4. QED BY <2>2, <2>3, <1>1, <1>2 DEF Awaits
  <1>10. CASE s.note = Draft
    <2>1. Finished(s.no) /\ recq' = recq
      BY <1>10 DEF Refresh
    <2>2. /\ SaveType' /\ NumbersInv'
          /\ \A i \in DOMAIN saves' : \E j \in DOMAIN saves : j # k /\ saves'[i] = saves[j]
      BY <2>1, <1>0, <1>1, SaveGone
    <2>4. \A i \in DOMAIN saves : i # k => \E j \in DOMAIN saves' : saves'[j] = saves[i]
      BY <2>1, <1>0, <1>1, SaveGone
    <2>5. SavesInv' /\ DraftInv'
      BY <2>2, <1>0, <1>4, <1>7 DEF SavesInv, DraftInv
    <2>6. CreatingInv'
      BY <2>4, <1>0, <1>1, <1>2, <1>4 DEF CreatingInv, Unwritten
    <2>7. QueueType' /\ PutsInv' /\ ReadsInv' /\ UniqueOpsInv'
      BY <2>1, <1>0, <1>7 DEF QueueType, PutsInv, ReadsInv, UniqueOpsInv
    <2>8. AwaitInv'
      BY <2>1, <2>4, <1>0, <1>1, <1>2 DEF AwaitInv, Awaits
    <2>9. PhaseInv'
      BY <2>1, <1>0, <1>4, <1>8 DEF PhaseInv
    <2>10. QED BY <1>5, <1>6, <2>2, <2>5, <2>6, <2>7, <2>8, <2>9 DEF EditorInv
  <1>11. CASE s.note # Draft
    <2> DEFINE r == [s EXCEPT !.stage = "check"]
    <2>1. Updated(r) /\ recq' = Append(recq, Read(s.no))
      BY <1>11 DEF Refresh, Queue
    <2>2. /\ r \in SaveRecord /\ r.no = s.no /\ r.stage = "check" /\ r.made = s.made
          /\ r.note = s.note /\ r.text = s.text /\ r.session = s.session
      BY <1>3 DEF SaveRecord, Stages
    <2> HIDE DEF r
    <2>3. /\ SaveType' /\ DOMAIN saves' = DOMAIN saves /\ saves'[k] = r
          /\ \A i \in DOMAIN saves : i # k => saves'[i] = saves[i]
          /\ \A i \in DOMAIN saves : saves'[i].no = saves[i].no
      BY <1>0, <1>1, <2>1, <2>2, SaveUpdated
    <2>4. r \in OwnSaves
      BY <1>2, <1>3, <2>2 DEF OwnSaves
    <2>5. SavesInv' /\ NumbersInv' /\ DraftInv'
      <3>1. SavesInv' /\ NumbersInv'
        BY <1>0, <1>7, <2>3, <2>4 DEF SavesInv, NumbersInv
      <3>2. DraftInv'
        BY <1>0, <1>1, <1>2, <1>4, <2>2, <2>3 DEF DraftInv
      <3>3. QED BY <3>1, <3>2
    <2>6. CreatingInv'
      BY <2>3, <1>0, <1>1, <1>2, <1>4 DEF CreatingInv, Unwritten
    <2>7. /\ Read(s.no) \in Operation /\ Read(s.no).op = "read" /\ Read(s.no).by = s.no
          /\ Read(s.no).row = None
      BY <1>3, OperationTypes DEF Read
    <2>8. /\ QueueType' /\ DOMAIN recq = 1 .. Len(recq) /\ DOMAIN recq' = 1 .. Len(recq) + 1
          /\ Len(recq) \in Nat
          /\ \A i \in 1 .. Len(recq) : recq'[i] = recq[i]
          /\ recq'[Len(recq) + 1] = Read(s.no)
      BY <1>0, <2>1, <2>7, OpAdded
    <2>9. PutsInv' /\ ReadsInv' /\ UniqueOpsInv'
      BY <1>0, <1>3, <1>7, <1>9, <2>7, <2>8 DEF PutsInv, ReadsInv, UniqueOpsInv
    <2>10. Awaits(r, Read(s.no))
      BY <2>2, <2>7 DEF Awaits
    <2>11. AwaitInv'
      BY <1>0, <1>1, <1>2, <2>3, <2>8, <2>10 DEF AwaitInv, Awaits
    <2>12. PhaseInv'
      BY <1>0, <1>3, <1>4, <1>8, <2>7, <2>8 DEF PhaseInv
    <2>13. QED BY <1>5, <1>6, <2>3, <2>5, <2>6, <2>8, <2>9, <2>11, <2>12 DEF EditorInv
  <1>12. QED BY <1>10, <1>11

\* createBlankNote ends: the new note, its saves in order, and their reads.
CreateFacts(joined, order, n) ==
  /\ n \in Nat \ {0} /\ order \in [1 .. n -> joined]
  /\ \A i, j \in 1 .. n : i < j => order[i] < order[j]
  /\ \A i \in joined : 1 \in 1 .. n /\ order[1] =< i
  /\ joined = {i \in DOMAIN saves : saves[i].made = creating}
  /\ creating \notin Notes \cup {Off}
  /\ \A i \in DOMAIN saves : saves[i].stage = "create" <=> i \in joined
  /\ store' = [i \in Notes \cup {creating} |->
                 IF i = creating THEN saves[order[1]].text ELSE store[i]]
  /\ saves' = [i \in DOMAIN saves |-> IF i \in joined
                                      THEN [saves[i] EXCEPT !.stage = "remember"] ELSE saves[i]]
  /\ recq' = recq \o [i \in 1 .. n |-> Read(saves[order[i]].no)]

LEMMA CreatedFacts ==
  ASSUME EditorInv, Create
  PROVE  \E joined, order, n : CreateFacts(joined, order, n)
  <1>0. DataType /\ ScreenType /\ SaveType /\ SavesInv
    BY DEF EditorInv
  <1>1. PICK id \in {s.made : s \in {t \in Range(saves) : t.stage = "create"}} :
          LET joined == {i \in DOMAIN saves : saves[i].made = id} IN
          \E order \in [1 .. Cardinality(joined) -> joined] :
            /\ \A i, j \in DOMAIN order : i < j => order[i] < order[j]
            /\ store' = [i \in Notes \cup {id} |-> IF i = id THEN saves[order[1]].text ELSE store[i]]
            /\ saves' = [i \in DOMAIN saves |-> IF i \in joined
                                                THEN [saves[i] EXCEPT !.stage = "remember"] ELSE saves[i]]
            /\ recq' = recq \o [i \in DOMAIN order |-> Read(saves[order[i]].no)]
    BY DEF Create
  <1>2. PICK k \in DOMAIN saves : saves[k].stage = "create" /\ saves[k].made = id
    BY DEF Range
  <1>3. id = creating /\ creating \notin Notes \cup {Off}
    BY <1>0, <1>2 DEF SavesInv, OwnSaves
  <1> DEFINE joined == {i \in DOMAIN saves : saves[i].made = id}
             n == Cardinality(joined)
  <1>4. PICK order \in [1 .. n -> joined] :
            /\ \A i, j \in DOMAIN order : i < j => order[i] < order[j]
            /\ store' = [i \in Notes \cup {id} |-> IF i = id THEN saves[order[1]].text ELSE store[i]]
            /\ saves' = [i \in DOMAIN saves |-> IF i \in joined
                                                THEN [saves[i] EXCEPT !.stage = "remember"] ELSE saves[i]]
            /\ recq' = recq \o [i \in DOMAIN order |-> Read(saves[order[i]].no)]
    BY <1>1
  <1>5. n \in Nat \ {0}
    <2>1. DOMAIN saves = 1 .. Len(saves) /\ Len(saves) \in Nat
      BY <1>0 DEF SaveType
    <2>2. IsFiniteSet(DOMAIN saves)
      BY <2>1, Counted
    <2>3. joined \in SUBSET DOMAIN saves /\ joined # {}
      BY <1>2
    <2> HIDE DEF joined
    <2>4. IsFiniteSet(joined)
      BY <2>2, <2>3, FS_Subset
    <2>5. QED BY <2>3, <2>4, FS_EmptySet, FS_CardinalityType
  <1>6. DOMAIN order = 1 .. n
    BY <1>4
  <1>7. \A i \in DOMAIN saves : saves[i].stage = "create" <=> i \in joined
    BY <1>0, <1>3 DEF SavesInv, OwnSaves
  <1>8. joined = {i \in DOMAIN saves : saves[i].made = creating}
    BY <1>3
  <1>9. joined \in SUBSET (1 .. Len(saves)) /\ Len(saves) \in Nat /\ Cardinality(joined) = n
    BY <1>0 DEF SaveType
  <1> HIDE DEF joined, n
  <1>10. \A i, j \in 1 .. n : i < j => order[i] < order[j]
    BY <1>4, <1>6
  <1>11. \A i \in joined : 1 \in 1 .. n /\ order[1] =< i
    BY <1>4, <1>5, <1>9, <1>10, OldestFirst
  <1>12. CreateFacts(joined, order, n)
    BY <1>3, <1>4, <1>5, <1>6, <1>7, <1>8, <1>10, <1>11 DEF CreateFacts
  <1>13. QED BY <1>12

LEMMA CreateKeeps ==
  ASSUME EditorInv, Create
  PROVE  EditorInv'
  <1> USE DEF Draft, Off, Restorer
  <1>0. /\ DataType /\ ScreenType /\ SaveType /\ QueueType /\ BornInv /\ NextInv /\ CreatingInv
        /\ StoreInv /\ ListInv /\ ValueInv /\ RowInv /\ NavInv /\ SavesInv /\ DraftInv /\ NumbersInv
        /\ AwaitInv /\ PutsInv /\ ReadsInv /\ UniqueOpsInv /\ PhaseInv
    BY DEF EditorInv
  <1>1. PICK joined, order, n : CreateFacts(joined, order, n)
    BY CreatedFacts
  <1>2. /\ n \in Nat \ {0} /\ order \in [1 .. n -> joined]
        /\ \A i, j \in 1 .. n : i < j => order[i] < order[j]
        /\ joined = {i \in DOMAIN saves : saves[i].made = creating}
        /\ creating \notin Notes \cup {Off}
        /\ \A i \in DOMAIN saves : saves[i].stage = "create" <=> i \in joined
        /\ store' = [i \in Notes \cup {creating} |->
                       IF i = creating THEN saves[order[1]].text ELSE store[i]]
        /\ saves' = [i \in DOMAIN saves |-> IF i \in joined
                                            THEN [saves[i] EXCEPT !.stage = "remember"] ELSE saves[i]]
        /\ recq' = recq \o [i \in 1 .. n |-> Read(saves[order[i]].no)]
    BY <1>1 DEF CreateFacts
  <1>3. /\ born' = born /\ list' = list /\ sel' = sel /\ session' = session /\ value' = value
        /\ timer' = timer /\ creating' = creating /\ nav' = nav /\ rec' = rec /\ acked' = acked
        /\ phase' = phase /\ keys' = keys
    BY DEF Create, screen
  <1>4. /\ DOMAIN saves = 1 .. Len(saves) /\ Len(saves) \in Nat
        /\ \A i \in DOMAIN saves : saves[i] \in SaveRecord
    BY <1>0 DEF SaveType
  <1>5. \A i \in 1 .. n : order[i] \in DOMAIN saves /\ order[i] \in joined
    BY <1>2
  <1>6. \A i \in DOMAIN saves :
           /\ saves'[i] \in SaveRecord /\ saves'[i].no = saves[i].no /\ saves'[i].note = saves[i].note
           /\ saves'[i].text = saves[i].text /\ saves'[i].session = saves[i].session
           /\ saves'[i].made = saves[i].made
           /\ saves'[i].stage = IF i \in joined THEN "remember" ELSE saves[i].stage
    BY <1>2, <1>4 DEF SaveRecord, Stages
  <1>7. SaveType' /\ DOMAIN saves' = DOMAIN saves
    <2>1. DOMAIN saves' = DOMAIN saves
      BY <1>2
    <2>2. saves' \in Seq(SaveRecord)
      BY <2>1, <1>2, <1>4, <1>6
    <2>3. QED BY <2>1, <2>2 DEF SaveType
  <1>8. Notes' = Notes \cup {creating}
    BY <1>2 DEF Notes
  <1>9. \A t, id : Own(id, t)' <=> Own(id, t)
    BY <1>3 DEF Own
  <1>10. /\ saves[order[1]].text \in Text /\ Own(creating, saves[order[1]].text)
    <2>1. 1 \in 1 .. n
      BY <1>2
    <2>2. saves[order[1]] \in OwnSaves /\ saves[order[1]].made = creating
      BY <2>1, <1>0, <1>2, <1>5 DEF SavesInv
    <2>3. QED BY <2>2, <1>2 DEF OwnSaves, SaveRecord
  <1>11. DataType'
    <2>1. store' \in [Notes' -> Text]
      BY <1>0, <1>2, <1>8, <1>10 DEF DataType
    <2>2. creating = Cardinality(Notes) + 1 /\ Notes = 1 .. Cardinality(Notes) /\ Cardinality(Notes) \in Nat
      BY <1>0, <1>2 DEF NextInv, DataType
    <2>3. Notes' = 1 .. Cardinality(Notes) + 1
      BY <2>2, <1>8
    <2>4. Cardinality(Notes) + 1 \in Nat
      BY <2>2
    <2>5. Cardinality(1 .. Cardinality(Notes) + 1) = Cardinality(Notes) + 1
      BY <2>4, Counted
    <2>6. Cardinality(Notes') = Cardinality(Notes) + 1
      BY <2>3, <2>5
    <2>7. QED BY <2>1, <2>3, <2>4, <2>6, <1>0, <1>3, <1>8 DEF DataType
  <1>12. ScreenType'
    BY <1>0, <1>3, <1>8 DEF ScreenType
  <1>13. BornInv' /\ NextInv'
    BY <1>0, <1>2, <1>3, <1>8 DEF BornInv, NextInv
  <1>14. CreatingInv'
    BY <1>0, <1>3, <1>6, <1>7 DEF CreatingInv, Unwritten
  <1>15. StoreInv'
    BY <1>0, <1>2, <1>8, <1>9, <1>10 DEF StoreInv
  <1>16. ListInv' /\ ValueInv' /\ RowInv' /\ NavInv'
    BY <1>0, <1>3, <1>8, <1>9 DEF ListInv, ValueInv, RowInv, OwnRows, NavInv
  <1>17. SavesInv'
    <2>1. SUFFICES ASSUME NEW i \in DOMAIN saves PROVE saves'[i] \in OwnSaves'
      BY <1>7 DEF SavesInv
    <2>2. saves[i] \in OwnSaves
      BY <1>0 DEF SavesInv
    <2>3. CASE i \in joined
      <3>1. saves[i].made = creating /\ saves'[i].stage = "remember"
        BY <2>3, <1>2, <1>6
      <3>2. /\ saves[i].note \in Notes \cup {Draft}
            /\ saves[i].note # Draft => Own(saves[i].note, saves[i].text)
            /\ creating \in DOMAIN born /\ Own(creating, saves[i].text)
            /\ saves[i].text.home = -saves[i].session /\ creating # Off
        BY <3>1, <2>2, <1>2 DEF OwnSaves
      <3>3. QED BY <3>1, <3>2, <1>3, <1>6, <1>8, <1>9 DEF OwnSaves
    <2>4. CASE i \notin joined
      <3>1. saves'[i].stage # "create" /\ saves'[i].stage = saves[i].stage
        BY <2>4, <1>2, <1>6
      <3>2. QED BY <3>1, <2>2, <1>3, <1>6, <1>8, <1>9 DEF OwnSaves
    <2>5. QED BY <2>3, <2>4
  <1>18. DraftInv' /\ NumbersInv'
    <2>1. DraftInv'
      BY <1>0, <1>3, <1>6, <1>7 DEF DraftInv
    <2>2. NumbersInv'
      BY <1>0, <1>6, <1>7 DEF NumbersInv
    <2>3. QED BY <2>1, <2>2
  <1> DEFINE reads == [i \in 1 .. n |-> Read(saves[order[i]].no)]
  <1>19. /\ reads \in [1 .. n -> Operation]
         /\ \A i \in 1 .. n : /\ reads[i].op = "read" /\ reads[i].by = saves[order[i]].no
                              /\ reads[i].row = None
    <2>1. \A i \in 1 .. n : saves[order[i]].no \in Nat \ {0}
      BY <1>4, <1>5 DEF SaveRecord
    <2>2. QED BY <2>1, OperationTypes DEF Read
  <1>20. recq' = recq \o reads
    BY <1>2
  <1> HIDE DEF reads
  <1>21. /\ QueueType' /\ DOMAIN recq = 1 .. Len(recq) /\ DOMAIN recq' = 1 .. Len(recq) + n
         /\ \A i \in 1 .. Len(recq) : recq'[i] = recq[i]
         /\ \A i \in 1 .. n : recq'[Len(recq) + i] = reads[i]
         /\ Len(recq) \in Nat
    <2>1. recq \in Seq(Operation) /\ Len(recq) \in Nat /\ n \in Nat
      BY <1>0, <1>2 DEF QueueType
    <2> DEFINE q == recq \o reads
    <2>2. /\ q \in Seq(Operation) /\ DOMAIN recq = 1 .. Len(recq) /\ DOMAIN q = 1 .. Len(recq) + n
          /\ \A i \in 1 .. Len(recq) : q[i] = recq[i]
          /\ \A i \in 1 .. n : q[Len(recq) + i] = reads[i]
      <3>1. reads \in [1 .. n -> Operation]
        BY <1>19
      <3>2. QED BY <2>1, <3>1
    <2>3. recq' = q
      BY <1>20
    <2> HIDE DEF q
    <2>4. QED BY <2>1, <2>2, <2>3 DEF QueueType
  <1>22. \A i \in DOMAIN recq' :
           \/ i \in DOMAIN recq /\ recq'[i] = recq[i]
           \/ i > Len(recq) /\ i - Len(recq) \in 1 .. n /\ recq'[i] = reads[i - Len(recq)]
    <2>1. SUFFICES ASSUME NEW i \in DOMAIN recq', ~(i \in DOMAIN recq)
                   PROVE i > Len(recq) /\ i - Len(recq) \in 1 .. n /\ recq'[i] = reads[i - Len(recq)]
      BY <1>21
    <2>2. i > Len(recq) /\ i - Len(recq) \in 1 .. n /\ Len(recq) + (i - Len(recq)) = i
      BY <2>1, <1>21, <1>2
    <2>3. QED BY <2>2, <1>21
  <1>23. PutsInv' /\ ReadsInv'
    <2>1. OwnRows \subseteq OwnRows'
      BY <1>8, <1>9 DEF OwnRows
    <2>2. PutsInv'
      BY <2>1, <1>0, <1>19, <1>22 DEF PutsInv
    <2>3. \A i \in 1 .. n : reads[i].by # 0
      BY <1>4, <1>5, <1>19 DEF SaveRecord
    <2>4. ReadsInv'
      BY <2>3, <1>0, <1>19, <1>22 DEF ReadsInv
    <2>5. QED BY <2>2, <2>4
  <1>24. AwaitInv'
    <2>1. SUFFICES ASSUME NEW i \in DOMAIN recq', recq'[i].by \in Nat \ {0}
                   PROVE \E k \in DOMAIN saves' : Awaits(saves'[k], recq'[i])
      BY DEF AwaitInv
    <2>2. CASE i \in DOMAIN recq /\ recq'[i] = recq[i]
      <3>1. PICK k \in DOMAIN saves : Awaits(saves[k], recq[i])
        BY <2>1, <2>2, <1>0 DEF AwaitInv
      <3>2. saves[k].stage # "create"
        BY <3>1 DEF Awaits
      <3>3. k \notin joined
        BY <3>2, <1>2
      <3>4. QED BY <3>1, <3>3, <2>2, <1>6, <1>7 DEF Awaits
    <2>3. CASE i - Len(recq) \in 1 .. n /\ recq'[i] = reads[i - Len(recq)]
      <3> DEFINE k == order[i - Len(recq)]
      <3>1. k \in DOMAIN saves /\ k \in joined
        BY <2>3, <1>5
      <3>2. recq'[i].op = "read" /\ recq'[i].by = saves[k].no
        BY <2>3, <1>19
      <3>3. Awaits(saves'[k], recq'[i])
        BY <3>1, <3>2, <1>6 DEF Awaits
      <3>4. QED BY <3>1, <3>3, <1>7
    <2>4. QED BY <2>2, <2>3, <1>22
  <1>25. UniqueOpsInv'
    <2>1. SUFFICES ASSUME NEW i \in DOMAIN recq', NEW j \in DOMAIN recq', i < j,
                          recq'[i].by = recq'[j].by, recq'[i].by \in Nat \ {0}
                   PROVE FALSE
      BY <1>21 DEF UniqueOpsInv
    <2>2. CASE i \in DOMAIN recq /\ recq'[i] = recq[i] /\ j \in DOMAIN recq /\ recq'[j] = recq[j]
      BY <2>1, <2>2, <1>0, <1>21 DEF UniqueOpsInv
    <2>3. CASE /\ i \in DOMAIN recq /\ recq'[i] = recq[i]
               /\ j - Len(recq) \in 1 .. n /\ recq'[j] = reads[j - Len(recq)]
      <3>1. PICK k \in DOMAIN saves : Awaits(saves[k], recq[i])
        BY <2>1, <2>3, <1>0 DEF AwaitInv
      <3>2. order[j - Len(recq)] \in joined /\ order[j - Len(recq)] \in DOMAIN saves
            /\ recq'[j].by = saves[order[j - Len(recq)]].no
        BY <2>3, <1>5, <1>19
      <3>3. k = order[j - Len(recq)]
        BY <2>1, <2>3, <3>1, <3>2, <1>0 DEF Awaits, NumbersInv
      <3>4. QED BY <3>1, <3>2, <3>3, <1>2 DEF Awaits
    <2>4. CASE /\ i - Len(recq) \in 1 .. n /\ recq'[i] = reads[i - Len(recq)]
               /\ j - Len(recq) \in 1 .. n /\ recq'[j] = reads[j - Len(recq)]
      <3>1. order[i - Len(recq)] \in DOMAIN saves /\ order[j - Len(recq)] \in DOMAIN saves
        BY <2>4, <1>5
      <3>2. saves[order[i - Len(recq)]].no = saves[order[j - Len(recq)]].no
        BY <2>1, <2>4, <1>19
      <3>3. order[i - Len(recq)] = order[j - Len(recq)]
        BY <3>1, <3>2, <1>0 DEF NumbersInv
      <3>4. i - Len(recq) < j - Len(recq)
        BY <2>1, <1>21
      <3>5. order[i - Len(recq)] < order[j - Len(recq)]
        BY <3>4, <2>4, <1>2
      <3>6. QED BY <3>1, <3>3, <3>5, <1>4
    <2>5. CASE i > Len(recq) /\ j \in DOMAIN recq
      BY <2>1, <2>5, <1>21
    <2>6. QED BY <2>2, <2>3, <2>4, <2>5, <1>22
  <1>26. PhaseInv'
    <2>1. joined # {}
      BY <1>2, <1>5
    <2>2. phase = "open"
      BY <2>1, <1>0, <1>2, <1>4 DEF PhaseInv
    <2>3. \A i \in 1 .. n : reads[i].by # Restorer
      BY <1>4, <1>5, <1>19 DEF SaveRecord
    <2>4. QED BY <2>2, <2>3, <1>0, <1>3, <1>22 DEF PhaseInv
  <1>27. QED BY <1>7, <1>11, <1>12, <1>13, <1>14, <1>15, <1>16, <1>17, <1>18, <1>21, <1>23, <1>24,
               <1>25, <1>26 DEF EditorInv

\* The queue's first operation goes, or is followed by one more of its save.
LEMMA QueueMoves ==
  ASSUME QueueType, PutsInv, ReadsInv, UniqueOpsInv, recq # <<>>, recq' = Tail(recq),
         OwnRows \subseteq OwnRows'
  PROVE  /\ QueueType' /\ PutsInv' /\ ReadsInv' /\ UniqueOpsInv'
         /\ \A i \in DOMAIN recq' : \E j \in DOMAIN recq : j # 1 /\ recq'[i] = recq[j]
         /\ Head(recq) = recq[1] /\ 1 \in DOMAIN recq /\ recq[1] \in Operation
  <1>1. /\ QueueType' /\ DOMAIN recq = 1 .. Len(recq) /\ DOMAIN recq' = 1 .. Len(recq) - 1
        /\ Len(recq) \in Nat \ {0} /\ Head(recq) = recq[1] /\ recq[1] \in Operation
        /\ \A i \in 1 .. Len(recq) - 1 : recq'[i] = recq[i + 1]
    BY OpTaken
  <1>2. \A i \in DOMAIN recq' : i + 1 \in DOMAIN recq /\ i + 1 # 1 /\ recq'[i] = recq[i + 1]
    BY <1>1
  <1>3. PutsInv' /\ ReadsInv'
    BY <1>2 DEF PutsInv, ReadsInv
  <1>4. UniqueOpsInv'
    <2>1. SUFFICES ASSUME NEW i \in DOMAIN recq', NEW j \in DOMAIN recq',
                          recq'[i].by = recq'[j].by, recq'[i].by \in Nat \ {0}
                   PROVE i = j
      BY DEF UniqueOpsInv
    <2>2. i + 1 = j + 1
      BY <2>1, <1>2 DEF UniqueOpsInv
    <2>3. QED BY <2>2, <1>1
  <1>5. QED BY <1>1, <1>2, <1>3, <1>4

LEMMA QueueTurns ==
  ASSUME QueueType, PutsInv, ReadsInv, UniqueOpsInv, recq # <<>>, NEW o \in Operation,
         recq' = Append(Tail(recq), o), OwnRows \subseteq OwnRows', o.by = Head(recq).by,
         o.op \in {"put", "delete"}, o.op = "put" => o.row \in OwnRows
  PROVE  /\ QueueType' /\ PutsInv' /\ ReadsInv' /\ UniqueOpsInv'
         /\ \A i \in DOMAIN recq' : \/ recq'[i] = o
                                    \/ \E j \in DOMAIN recq : j # 1 /\ recq'[i] = recq[j]
         /\ Head(recq) = recq[1] /\ 1 \in DOMAIN recq /\ recq[1] \in Operation
  <1>1. /\ QueueType' /\ DOMAIN recq = 1 .. Len(recq) /\ DOMAIN recq' = 1 .. Len(recq)
        /\ Len(recq) \in Nat \ {0} /\ Head(recq) = recq[1] /\ recq[1] \in Operation
        /\ \A i \in 1 .. Len(recq) - 1 : recq'[i] = recq[i + 1]
        /\ recq'[Len(recq)] = o
    BY OpReplaced
  <1>2. \A i \in DOMAIN recq' : \/ i = Len(recq) /\ recq'[i] = o
                                \/ i + 1 \in DOMAIN recq /\ i + 1 # 1 /\ recq'[i] = recq[i + 1]
    BY <1>1
  <1>3. PutsInv' /\ ReadsInv'
    BY <1>2 DEF PutsInv, ReadsInv
  <1>4. UniqueOpsInv'
    <2>1. SUFFICES ASSUME NEW i \in DOMAIN recq', NEW j \in DOMAIN recq', i < j,
                          recq'[i].by = recq'[j].by, recq'[i].by \in Nat \ {0}
                   PROVE FALSE
      BY <1>1 DEF UniqueOpsInv
    <2>2. i + 1 \in DOMAIN recq /\ i + 1 # 1 /\ recq'[i] = recq[i + 1] /\ 1 \in DOMAIN recq
      BY <2>1, <1>1
    <2>3. CASE j = Len(recq) /\ recq'[j] = o
      BY <2>1, <2>2, <2>3, <1>1 DEF UniqueOpsInv
    <2>4. CASE j + 1 \in DOMAIN recq /\ recq'[j] = recq[j + 1]
      <3>1. i + 1 = j + 1
        BY <2>1, <2>2, <2>4 DEF UniqueOpsInv
      <3>2. QED BY <3>1, <2>1, <1>1
    <2>5. QED BY <2>3, <2>4, <1>2
  <1>5. QED BY <1>1, <1>2, <1>3, <1>4

LEMMA AdoptKeeps ==
  ASSUME EditorInv, NEW k \in DOMAIN saves, saves[k].stage = "remember",
         recq # <<>>, Head(recq).by = saves[k].no, recq' = Tail(recq), Adopt(saves[k]),
         UNCHANGED <<store, born, list, session, value, timer, nav, phase, keys>>,
         RowInv', acked' \in SUBSET Text
  PROVE  EditorInv'
  <1> USE DEF Draft, Off, Restorer
  <1>0. /\ DataType /\ ScreenType /\ SaveType /\ QueueType /\ BornInv /\ NextInv /\ CreatingInv
        /\ StoreInv /\ ListInv /\ ValueInv /\ RowInv /\ NavInv /\ SavesInv /\ DraftInv /\ NumbersInv
        /\ AwaitInv /\ PutsInv /\ ReadsInv /\ UniqueOpsInv /\ PhaseInv
    BY DEF EditorInv
  <1> DEFINE s == saves[k]
             writes == StillEditing(s) /\ store[s.made] # s.text
             r == [s EXCEPT !.note = s.made, !.stage = IF writes THEN "write" ELSE "refresh"]
  <1>1. /\ sel' = IF StillEditing(s) THEN s.made ELSE sel
        /\ Updated(r)
        /\ creating' = IF writes THEN creating ELSE Settled(s)
    BY DEF Adopt
  <1>2. s \in OwnSaves /\ s \in SaveRecord
    BY <1>0 DEF SavesInv, OwnSaves
  <1>3. /\ s.stage = "remember" /\ s.made \in Notes /\ s.made # Off /\ s.made # Draft
        /\ s.made \in DOMAIN born /\ Own(s.made, s.text) /\ s.text.home = -s.session
    BY <1>0, <1>2 DEF OwnSaves, DataType
  <1>4. s.session = session /\ sel \in {Draft, s.made} /\ (sel = Draft => s.made = creating)
    BY <1>0, <1>3 DEF DraftInv
  <1>5. StillEditing(s) /\ sel' = s.made
    BY <1>1, <1>4 DEF StillEditing
  <1>6. /\ r \in SaveRecord /\ r.no = s.no /\ r.note = s.made /\ r.text = s.text /\ r.made = s.made
        /\ r.session = s.session /\ r.stage \in {"write", "refresh"}
        /\ writes => r.stage = "write"
    BY <1>2, <1>3, <1>0 DEF SaveRecord, Stages, DataType
  <1>7. creating' \in {creating, Off} /\ (creating' # creating => creating = s.made)
        /\ (creating' = s.made /\ creating' # Off => r.stage = "write")
    BY <1>1, <1>3, <1>6 DEF Settled
  <1> HIDE DEF r, writes
  <1>8. /\ SaveType' /\ DOMAIN saves' = DOMAIN saves /\ saves'[k] = r
        /\ \A i \in DOMAIN saves : i # k => saves'[i] = saves[i]
        /\ \A i \in DOMAIN saves : saves'[i].no = saves[i].no
    BY <1>0, <1>1, <1>6, SaveUpdated
  <1> HIDE DEF s
  <1>9. Notes' = Notes /\ \A t, id : Own(id, t)' <=> Own(id, t)
    BY DEF Notes, Own
  <1>10. DataType' /\ StoreInv' /\ ListInv'
    BY <1>0, <1>9 DEF DataType, StoreInv, ListInv
  <1>11. ValueInv'
    BY <1>0, <1>3, <1>4, <1>5 DEF ValueInv, Own
  <1>12. ScreenType'
    BY <1>0, <1>3, <1>4, <1>5, <1>7, <1>9 DEF ScreenType
  <1>13. BornInv' /\ NextInv'
    BY <1>0, <1>3, <1>7, <1>9 DEF BornInv, NextInv
  <1>14. CreatingInv'
    <2>1. CASE creating' = Off
      BY <2>1 DEF CreatingInv
    <2>2. CASE creating' # Off
      <3>1. creating' = creating /\ creating # Off
        BY <2>2, <1>7
      <3>2. sel' = creating \/ (sel # Draft /\ sel' = sel)
        BY <1>4, <1>5
      <3>3. sel' \in {Draft, creating}
        BY <3>1, <3>2, <1>0 DEF CreatingInv
      <3>4. PICK i \in DOMAIN saves : saves[i].made = creating /\ saves[i].stage \in Unwritten
        BY <3>1, <1>0 DEF CreatingInv
      <3>5. saves'[i].made = creating /\ saves'[i].stage \in Unwritten
        <4>1. CASE i = k
          BY <4>1, <3>1, <3>4, <1>6, <1>7, <1>8 DEF Unwritten, s
        <4>2. CASE i # k
          BY <4>2, <3>4, <1>8
        <4>3. QED BY <4>1, <4>2
      <3>6. QED BY <3>1, <3>3, <3>4, <3>5, <1>0, <1>8 DEF CreatingInv
    <2>3. QED BY <2>1, <2>2
  <1>15. NavInv'
    BY <1>0, <1>9 DEF NavInv
  <1>16. SavesInv'
    <2>1. \A q \in OwnSaves : q \in OwnSaves'
      BY <1>3, <1>7, <1>9 DEF OwnSaves
    <2>2. r \in OwnSaves'
      BY <1>3, <1>6, <1>9 DEF OwnSaves
    <2>3. QED BY <2>1, <2>2, <1>0, <1>8 DEF SavesInv
  <1>17. DraftInv' /\ NumbersInv'
    <2>1. ASSUME NEW i \in DOMAIN saves, saves[i].made # Off
          PROVE  sel' \in {Draft, saves[i].made}
      BY <2>1, <1>0, <1>4, <1>5 DEF DraftInv
    <2>2. DraftInv'
      BY <2>1, <1>0, <1>3, <1>4, <1>5, <1>6, <1>8 DEF DraftInv
    <2>3. NumbersInv'
      BY <1>0, <1>8 DEF NumbersInv
    <2>4. QED BY <2>2, <2>3
  <1>18. OwnRows \subseteq OwnRows'
    BY <1>9 DEF OwnRows
  <1>19. /\ QueueType' /\ PutsInv' /\ ReadsInv' /\ UniqueOpsInv'
         /\ \A i \in DOMAIN recq' : \E j \in DOMAIN recq : j # 1 /\ recq'[i] = recq[j]
         /\ Head(recq) = recq[1] /\ 1 \in DOMAIN recq /\ recq[1] \in Operation
    BY <1>0, <1>18, QueueMoves
  <1>20. AwaitInv'
    <2>1. SUFFICES ASSUME NEW i \in DOMAIN recq', recq'[i].by \in Nat \ {0}
                   PROVE \E m \in DOMAIN saves' : Awaits(saves'[m], recq'[i])
      BY DEF AwaitInv
    <2>2. PICK j \in DOMAIN recq : j # 1 /\ recq'[i] = recq[j]
      BY <1>19
    <2>3. PICK m \in DOMAIN saves : Awaits(saves[m], recq[j])
      BY <2>1, <2>2, <1>0 DEF AwaitInv
    <2>4. recq[j].by # recq[1].by
      BY <2>1, <2>2, <1>0, <1>19 DEF UniqueOpsInv
    <2>5. m # k
      BY <2>3, <2>4, <1>19 DEF Awaits
    <2>6. QED BY <2>2, <2>3, <2>5, <1>8
  <1>21. PhaseInv'
    <2>1. phase = "open"
      BY <1>0 DEF PhaseInv, SaveType
    <2>2. QED BY <2>1, <1>0, <1>19 DEF PhaseInv
  <1>22. QED BY <1>8, <1>10, <1>11, <1>12, <1>13, <1>14, <1>15, <1>16, <1>17, <1>19, <1>20, <1>21
             DEF EditorInv

\* Only the queue and the row change: the rest of the invariant is untouched.
LEMMA QueueOnly ==
  ASSUME EditorInv, acked' \in SUBSET Text,
         UNCHANGED <<store, born, list, sel, session, value, timer, saves, creating, nav, phase, keys>>
  PROVE  /\ DataType' /\ ScreenType' /\ SaveType' /\ BornInv' /\ NextInv' /\ CreatingInv'
         /\ StoreInv' /\ ListInv' /\ ValueInv' /\ NavInv' /\ SavesInv' /\ DraftInv' /\ NumbersInv'
         /\ OwnRows' = OwnRows
  <1> USE DEF Draft, Off
  <1>0. /\ DataType /\ ScreenType /\ SaveType /\ QueueType /\ BornInv /\ NextInv /\ CreatingInv
        /\ StoreInv /\ ListInv /\ ValueInv /\ RowInv /\ NavInv /\ SavesInv /\ DraftInv /\ NumbersInv
        /\ AwaitInv /\ PutsInv /\ ReadsInv /\ UniqueOpsInv /\ PhaseInv
    BY DEF EditorInv
  <1>1. Notes' = Notes /\ \A t, id : Own(id, t)' <=> Own(id, t)
    BY DEF Notes, Own
  <1>2. DataType' /\ ScreenType' /\ SaveType'
    BY <1>0, <1>1 DEF DataType, ScreenType, SaveType
  <1>3. BornInv' /\ NextInv' /\ CreatingInv' /\ StoreInv' /\ ListInv' /\ ValueInv' /\ NavInv'
    BY <1>0, <1>1 DEF BornInv, NextInv, CreatingInv, StoreInv, ListInv, ValueInv, NavInv
  <1>4. OwnRows' = OwnRows /\ OwnSaves' = OwnSaves
    BY <1>1 DEF OwnRows, OwnSaves
  <1>5. SavesInv' /\ DraftInv' /\ NumbersInv'
    BY <1>0, <1>4 DEF SavesInv, DraftInv, NumbersInv
  <1>6. QED BY <1>2, <1>3, <1>4, <1>5

LEMMA PutKeeps ==
  ASSUME EditorInv, RecPut
  PROVE  EditorInv'
  <1> USE DEF Draft, Off, Restorer
  <1>0. /\ DataType /\ ScreenType /\ SaveType /\ QueueType /\ BornInv /\ NextInv /\ CreatingInv
        /\ StoreInv /\ ListInv /\ ValueInv /\ RowInv /\ NavInv /\ SavesInv /\ DraftInv /\ NumbersInv
        /\ AwaitInv /\ PutsInv /\ ReadsInv /\ UniqueOpsInv /\ PhaseInv
    BY DEF EditorInv
  <1>1. /\ recq # <<>> /\ Head(recq).op = "put" /\ rec' = Head(recq).row
        /\ acked' = IF rec'.text.n = 0 THEN acked ELSE acked \cup {rec'.text}
        /\ recq' = Tail(recq)
        /\ UNCHANGED <<store, born, list, session, value, timer, nav, phase, keys>>
    BY DEF RecPut, store_
  <1>2. Head(recq) = recq[1] /\ 1 \in DOMAIN recq /\ recq[1] \in Operation
    BY <1>0, <1>1, OpTaken
  <1>3. rec' \in OwnRows /\ rec' \in Row
    BY <1>0, <1>1, <1>2 DEF PutsInv, OwnRows
  <1>4. acked' \in SUBSET Text
    BY <1>0, <1>1, <1>3 DEF ScreenType, Row
  <1>5. OwnRows' = OwnRows
    BY <1>1 DEF OwnRows, Own, Notes
  <1>6. RowInv'
    BY <1>3, <1>5 DEF RowInv
  <1>7. CASE Unfinished(Head(recq).by)
    <2>1. PICK s \in Range(saves) : s.no = Head(recq).by /\ Adopt(s)
      BY <1>7 DEF RecPut
    <2>2. PICK k \in DOMAIN saves : saves[k] = s
      BY DEF Range
    <2>3. saves[k].no \in Nat \ {0}
      <3>1. saves[k] \in SaveRecord
        BY <1>0 DEF SaveType
      <3>2. QED BY <3>1 DEF SaveRecord
    <2>4. PICK m \in DOMAIN saves : Awaits(saves[m], recq[1])
      BY <2>1, <2>2, <2>3, <1>0, <1>2 DEF AwaitInv
    <2>5. m = k
      BY <2>1, <2>2, <2>4, <1>0, <1>2 DEF Awaits, NumbersInv
    <2>6. saves[k].stage = "remember"
      BY <2>4, <2>5, <1>1, <1>2 DEF Awaits
    <2>7. Adopt(saves[k]) /\ Head(recq).by = saves[k].no
      BY <2>1, <2>2
    <2>8. QED BY <2>6, <2>7, <1>1, <1>4, <1>6, AdoptKeeps
  <1>8. CASE ~Unfinished(Head(recq).by)
    <2>1. UNCHANGED <<saves, sel, creating>>
      BY <1>8 DEF RecPut
    <2>2. /\ DataType' /\ ScreenType' /\ SaveType' /\ BornInv' /\ NextInv' /\ CreatingInv'
          /\ StoreInv' /\ ListInv' /\ ValueInv' /\ NavInv' /\ SavesInv' /\ DraftInv' /\ NumbersInv'
      BY <2>1, <1>1, <1>4, QueueOnly
    <2>3. /\ QueueType' /\ PutsInv' /\ ReadsInv' /\ UniqueOpsInv'
          /\ \A i \in DOMAIN recq' : \E j \in DOMAIN recq : j # 1 /\ recq'[i] = recq[j]
      BY <1>0, <1>1, <1>5, QueueMoves
    <2>4. AwaitInv'
      BY <2>1, <2>3, <1>0 DEF AwaitInv
    <2>5. phase = "open"
      <3>1. Read(Restorer).op = "read" /\ Delete(Restorer).op = "delete"
        BY DEF Read, Delete
      <3>2. phase \notin {"closed", "writing", "reading", "clearing"}
        BY <3>1, <1>0, <1>1 DEF PhaseInv
      <3>3. QED BY <3>2, <1>0 DEF ScreenType
    <2>6. PhaseInv'
      BY <2>3, <2>5, <1>0, <1>1 DEF PhaseInv
    <2>7. QED BY <1>6, <2>2, <2>3, <2>4, <2>6 DEF EditorInv
  <1>9. QED BY <1>7, <1>8

\* A save's read is the first operation: the tab is open and the read is its own.
LEMMA ReadFacts ==
  ASSUME EditorInv, NEW s \in Range(saves), recq # <<>>, Head(recq) = Read(s.no)
  PROVE  /\ \E k \in DOMAIN saves : saves[k] = s
         /\ s \in SaveRecord /\ s \in OwnSaves /\ s.no \in Nat \ {0} /\ phase = "open"
         /\ Head(recq).by = s.no /\ Head(recq) = recq[1] /\ 1 \in DOMAIN recq
         /\ recq[1] \in Operation
  <1>0. /\ DataType /\ ScreenType /\ SaveType /\ QueueType /\ BornInv /\ NextInv /\ CreatingInv
        /\ StoreInv /\ ListInv /\ ValueInv /\ RowInv /\ NavInv /\ SavesInv /\ DraftInv /\ NumbersInv
        /\ AwaitInv /\ PutsInv /\ ReadsInv /\ UniqueOpsInv /\ PhaseInv
    BY DEF EditorInv
  <1>1. PICK k \in DOMAIN saves : saves[k] = s
    BY DEF Range
  <1>2. s \in OwnSaves /\ s \in SaveRecord
    BY <1>0, <1>1 DEF SavesInv, OwnSaves
  <1>3. s.no \in Nat \ {0}
    BY <1>2 DEF SaveRecord
  <1>4. phase = "open"
    BY <1>0, <1>1 DEF PhaseInv, SaveType
  <1>5. Head(recq) = recq[1] /\ 1 \in DOMAIN recq /\ recq[1] \in Operation
    BY <1>0, SeqTail DEF QueueType
  <1>6. QED BY <1>1, <1>2, <1>3, <1>4, <1>5 DEF Read

LEMMA RememberKeeps ==
  ASSUME EditorInv, NEW s \in Range(saves), RecRemember(s)
  PROVE  EditorInv'
  <1> USE DEF Draft, Off, Restorer
  <1>0. /\ DataType /\ ScreenType /\ SaveType /\ QueueType /\ BornInv /\ NextInv /\ CreatingInv
        /\ StoreInv /\ ListInv /\ ValueInv /\ RowInv /\ NavInv /\ SavesInv /\ DraftInv /\ NumbersInv
        /\ AwaitInv /\ PutsInv /\ ReadsInv /\ UniqueOpsInv /\ PhaseInv
    BY DEF EditorInv
  <1>1. /\ recq # <<>> /\ Head(recq) = Read(s.no) /\ s.stage = "remember"
        /\ UNCHANGED <<store, born, list, session, value, timer, nav, rec, acked, phase, keys>>
    BY DEF RecRemember, store_
  <1>2. PICK k \in DOMAIN saves : saves[k] = s
    BY <1>1, ReadFacts
  <1>3. /\ s \in SaveRecord /\ s \in OwnSaves /\ s.no \in Nat \ {0} /\ phase = "open"
        /\ Head(recq).by = s.no /\ Head(recq) = recq[1] /\ 1 \in DOMAIN recq
    BY <1>1, ReadFacts
  <1>4. acked' \in SUBSET Text
    BY <1>0, <1>1 DEF ScreenType
  <1>5. OwnRows' = OwnRows
    BY <1>1 DEF OwnRows, Own, Notes
  <1>6. RowInv'
    BY <1>0, <1>1, <1>5 DEF RowInv
  <1>7. CASE ~RowIs(Draft, s.text)
    <2>1. recq' = Tail(recq) /\ Adopt(s)
      BY <1>7 DEF RecRemember
    <2>2. QED BY <2>1, <1>1, <1>2, <1>3, <1>4, <1>6, AdoptKeeps
  <1>8. CASE RowIs(Draft, s.text)
    <2> DEFINE o == [Put(s.made, s.text) EXCEPT !.by = s.no]
    <2>1. recq' = Append(Tail(recq), o) /\ UNCHANGED <<saves, sel, creating>>
      BY <1>8 DEF RecRemember
    <2>2. o.op = "put" /\ o.by = s.no /\ o.row = [note |-> s.made, text |-> s.text]
      BY DEF Put
    <2>3. o.row \in OwnRows
      BY <1>1, <1>3, <2>2 DEF OwnRows, OwnSaves, Row, SaveRecord
    <2>4. o \in Operation
      BY <1>3, <2>2, <2>3 DEF Operation, OwnRows, Put
    <2> HIDE DEF o
    <2>5. /\ QueueType' /\ PutsInv' /\ ReadsInv' /\ UniqueOpsInv'
          /\ \A i \in DOMAIN recq' : \/ recq'[i] = o
                                     \/ \E j \in DOMAIN recq : j # 1 /\ recq'[i] = recq[j]
      BY <1>0, <1>1, <1>3, <1>5, <2>1, <2>2, <2>3, <2>4, QueueTurns
    <2>6. /\ DataType' /\ ScreenType' /\ SaveType' /\ BornInv' /\ NextInv' /\ CreatingInv'
          /\ StoreInv' /\ ListInv' /\ ValueInv' /\ NavInv' /\ SavesInv' /\ DraftInv' /\ NumbersInv'
      BY <2>1, <1>1, <1>4, QueueOnly
    <2>7. Awaits(s, o)
      BY <1>1, <2>2 DEF Awaits
    <2>8. AwaitInv'
      BY <2>1, <2>5, <2>7, <1>0, <1>2 DEF AwaitInv
    <2>9. PhaseInv'
      BY <2>2, <2>5, <1>0, <1>1, <1>3 DEF PhaseInv
    <2>10. QED BY <1>6, <2>5, <2>6, <2>8, <2>9 DEF EditorInv
  <1>9. QED BY <1>7, <1>8

\* A save that is at its check ends; its last operation was the first.
LEMMA EndKeeps ==
  ASSUME EditorInv, NEW k \in DOMAIN saves, saves[k].stage = "check",
         recq # <<>>, Head(recq).by = saves[k].no, recq' = Tail(recq), Finished(saves[k].no),
         UNCHANGED <<store, born, list, sel, session, value, timer, creating, nav, phase, keys>>,
         RowInv', acked' \in SUBSET Text
  PROVE  EditorInv'
  <1> USE DEF Draft, Off, Restorer
  <1>0. /\ DataType /\ ScreenType /\ SaveType /\ QueueType /\ BornInv /\ NextInv /\ CreatingInv
        /\ StoreInv /\ ListInv /\ ValueInv /\ RowInv /\ NavInv /\ SavesInv /\ DraftInv /\ NumbersInv
        /\ AwaitInv /\ PutsInv /\ ReadsInv /\ UniqueOpsInv /\ PhaseInv
    BY DEF EditorInv
  <1>1. Notes' = Notes /\ \A t, id : Own(id, t)' <=> Own(id, t)
    BY DEF Notes, Own
  <1>2. DataType' /\ ScreenType'
    BY <1>0, <1>1 DEF DataType, ScreenType
  <1>3. BornInv' /\ NextInv' /\ StoreInv' /\ ListInv' /\ ValueInv' /\ NavInv'
    BY <1>0, <1>1 DEF BornInv, NextInv, StoreInv, ListInv, ValueInv, NavInv
  <1>4. OwnRows' = OwnRows /\ OwnSaves' = OwnSaves
    BY <1>1 DEF OwnRows, OwnSaves
  <1>5. /\ SaveType' /\ NumbersInv'
        /\ \A i \in DOMAIN saves' : \E j \in DOMAIN saves : j # k /\ saves'[i] = saves[j]
    BY <1>0, SaveGone
  <1>6. \A i \in DOMAIN saves : i # k => \E j \in DOMAIN saves' : saves'[j] = saves[i]
    BY <1>0, SaveGone
  <1>7. SavesInv' /\ DraftInv'
    BY <1>0, <1>4, <1>5 DEF SavesInv, DraftInv
  <1>8. CreatingInv'
    BY <1>0, <1>6 DEF CreatingInv, Unwritten
  <1>9. /\ QueueType' /\ PutsInv' /\ ReadsInv' /\ UniqueOpsInv'
        /\ \A i \in DOMAIN recq' : \E j \in DOMAIN recq : j # 1 /\ recq'[i] = recq[j]
        /\ Head(recq) = recq[1] /\ 1 \in DOMAIN recq /\ recq[1] \in Operation
    BY <1>0, <1>4, QueueMoves
  <1>10. AwaitInv'
    <2>1. SUFFICES ASSUME NEW i \in DOMAIN recq', recq'[i].by \in Nat \ {0}
                   PROVE \E m \in DOMAIN saves' : Awaits(saves'[m], recq'[i])
      BY DEF AwaitInv
    <2>2. PICK j \in DOMAIN recq : j # 1 /\ recq'[i] = recq[j]
      BY <1>9
    <2>3. PICK m \in DOMAIN saves : Awaits(saves[m], recq[j])
      BY <2>1, <2>2, <1>0 DEF AwaitInv
    <2>4. recq[j].by # recq[1].by
      BY <2>1, <2>2, <1>0, <1>9 DEF UniqueOpsInv
    <2>5. m # k
      BY <2>3, <2>4, <1>9 DEF Awaits
    <2>6. QED BY <2>2, <2>3, <2>5, <1>6
  <1>11. PhaseInv'
    <2>1. phase = "open"
      BY <1>0 DEF PhaseInv, SaveType
    <2>2. QED BY <2>1, <1>0, <1>9 DEF PhaseInv
  <1>12. QED BY <1>2, <1>3, <1>5, <1>7, <1>8, <1>9, <1>10, <1>11 DEF EditorInv

LEMMA CheckKeeps ==
  ASSUME EditorInv, NEW s \in Range(saves), RecCheck(s)
  PROVE  EditorInv'
  <1> USE DEF Draft, Off, Restorer
  <1>0. /\ DataType /\ ScreenType /\ SaveType /\ QueueType /\ BornInv /\ NextInv /\ CreatingInv
        /\ StoreInv /\ ListInv /\ ValueInv /\ RowInv /\ NavInv /\ SavesInv /\ DraftInv /\ NumbersInv
        /\ AwaitInv /\ PutsInv /\ ReadsInv /\ UniqueOpsInv /\ PhaseInv
    BY DEF EditorInv
  <1>1. /\ recq # <<>> /\ Head(recq) = Read(s.no) /\ s.stage = "check"
        /\ UNCHANGED <<store, born, list, sel, session, value, timer, creating, nav, rec, acked,
                       phase, keys>>
    BY DEF RecCheck, store_, screen
  <1>2. PICK k \in DOMAIN saves : saves[k] = s
    BY <1>1, ReadFacts
  <1>3. /\ s \in SaveRecord /\ s.no \in Nat \ {0} /\ phase = "open"
        /\ Head(recq).by = s.no /\ Head(recq) = recq[1] /\ 1 \in DOMAIN recq
    BY <1>1, ReadFacts
  <1>4. acked' \in SUBSET Text
    BY <1>0, <1>1 DEF ScreenType
  <1>5. OwnRows' = OwnRows
    BY <1>1 DEF OwnRows, Own, Notes
  <1>6. RowInv'
    BY <1>0, <1>1, <1>5 DEF RowInv
  <1>7. CASE ~RowIs(s.note, s.text)
    <2>1. recq' = Tail(recq) /\ Finished(s.no)
      BY <1>7 DEF RecCheck
    <2>2. QED BY <2>1, <1>1, <1>2, <1>3, <1>4, <1>6, EndKeeps
  <1>8. CASE RowIs(s.note, s.text)
    <2> DEFINE o == Delete(s.no)
    <2>1. recq' = Append(Tail(recq), o) /\ UNCHANGED saves
      BY <1>8 DEF RecCheck
    <2>2. o.op = "delete" /\ o.by = s.no
      BY DEF Delete
    <2>3. o \in Operation
      BY <1>3, OperationTypes
    <2> HIDE DEF o
    <2>4. /\ QueueType' /\ PutsInv' /\ ReadsInv' /\ UniqueOpsInv'
          /\ \A i \in DOMAIN recq' : \/ recq'[i] = o
                                     \/ \E j \in DOMAIN recq : j # 1 /\ recq'[i] = recq[j]
      BY <1>0, <1>1, <1>3, <1>5, <2>1, <2>2, <2>3, QueueTurns
    <2>5. /\ DataType' /\ ScreenType' /\ SaveType' /\ BornInv' /\ NextInv' /\ CreatingInv'
          /\ StoreInv' /\ ListInv' /\ ValueInv' /\ NavInv' /\ SavesInv' /\ DraftInv' /\ NumbersInv'
      BY <2>1, <1>1, <1>4, QueueOnly
    <2>6. Awaits(s, o)
      BY <1>1, <2>2 DEF Awaits
    <2>7. AwaitInv'
      BY <2>1, <2>4, <2>6, <1>0, <1>2 DEF AwaitInv
    <2>8. PhaseInv'
      BY <2>2, <2>4, <1>0, <1>1, <1>3 DEF PhaseInv
    <2>9. QED BY <1>6, <2>4, <2>5, <2>7, <2>8 DEF EditorInv
  <1>9. QED BY <1>7, <1>8

LEMMA DeleteKeeps ==
  ASSUME EditorInv, RecDelete
  PROVE  EditorInv'
  <1> USE DEF Draft, Off, Restorer
  <1>0. /\ DataType /\ ScreenType /\ SaveType /\ QueueType /\ BornInv /\ NextInv /\ CreatingInv
        /\ StoreInv /\ ListInv /\ ValueInv /\ RowInv /\ NavInv /\ SavesInv /\ DraftInv /\ NumbersInv
        /\ AwaitInv /\ PutsInv /\ ReadsInv /\ UniqueOpsInv /\ PhaseInv
    BY DEF EditorInv
  <1>1. /\ recq # <<>> /\ Head(recq).op = "delete" /\ rec' = None /\ recq' = Tail(recq)
        /\ IF Unfinished(Head(recq).by) THEN Finished(Head(recq).by) ELSE UNCHANGED saves
        /\ phase' = IF Head(recq).by = Restorer THEN "open" ELSE phase
        /\ UNCHANGED <<store, born, list, sel, session, value, timer, creating, nav, acked, keys>>
    BY DEF RecDelete, store_, screen
  <1>2. Head(recq) = recq[1] /\ 1 \in DOMAIN recq /\ recq[1] \in Operation
    BY <1>0, <1>1, OpTaken
  <1>3. acked' \in SUBSET Text /\ RowInv'
    BY <1>0, <1>1 DEF ScreenType, RowInv
  <1>4. OwnRows' = OwnRows
    BY <1>1 DEF OwnRows, Own, Notes
  <1>5. CASE Unfinished(Head(recq).by)
    <2>1. PICK k \in DOMAIN saves : saves[k].no = Head(recq).by
      BY <1>5 DEF Unfinished, Range
    <2>2. saves[k].no \in Nat \ {0}
      <3>1. saves[k] \in SaveRecord
        BY <1>0 DEF SaveType
      <3>2. QED BY <3>1 DEF SaveRecord
    <2>3. PICK m \in DOMAIN saves : Awaits(saves[m], recq[1])
      BY <2>1, <2>2, <1>0, <1>2 DEF AwaitInv
    <2>4. m = k
      BY <2>1, <2>3, <1>0, <1>2 DEF Awaits, NumbersInv
    <2>5. saves[k].stage = "check" /\ phase' = phase
      BY <2>1, <2>2, <2>3, <2>4, <1>1, <1>2 DEF Awaits
    <2>6. QED BY <2>1, <2>5, <1>1, <1>3, <1>5, EndKeeps
  <1>6. CASE ~Unfinished(Head(recq).by)
    <2>1. UNCHANGED saves
      BY <1>1, <1>6
    <2>2. /\ QueueType' /\ PutsInv' /\ ReadsInv' /\ UniqueOpsInv'
          /\ \A i \in DOMAIN recq' : \E j \in DOMAIN recq : j # 1 /\ recq'[i] = recq[j]
      BY <1>0, <1>1, <1>4, QueueMoves
    <2>3. AwaitInv'
      BY <2>1, <2>2, <1>0 DEF AwaitInv
    <2>4. CASE phase = "open"
      <3>1. phase' = phase
        BY <2>4, <1>1
      <3>2. /\ DataType' /\ ScreenType' /\ SaveType' /\ BornInv' /\ NextInv' /\ CreatingInv'
          /\ StoreInv' /\ ListInv' /\ ValueInv' /\ NavInv' /\ SavesInv' /\ DraftInv' /\ NumbersInv'
        BY <2>1, <3>1, <1>1, <1>3, QueueOnly
      <3>3. PhaseInv'
        BY <2>2, <2>4, <3>1, <1>0 DEF PhaseInv
      <3>4. QED BY <1>3, <2>2, <2>3, <3>2, <3>3 DEF EditorInv
    <2>5. CASE phase # "open"
      <3>1. Read(Restorer).op = "read"
        BY DEF Read
      <3>2. recq = <<Delete(Restorer)>> /\ phase = "clearing"
        BY <2>5, <3>1, <1>0, <1>1 DEF PhaseInv, ScreenType
      <3>3. recq' = <<>> /\ phase' = "open"
        BY <3>2, <1>1 DEF Delete
      <3>4. Notes' = Notes /\ \A t, id : Own(id, t)' <=> Own(id, t)
        BY <1>1 DEF Notes, Own
      <3>5. DataType' /\ ScreenType' /\ SaveType'
        BY <1>0, <1>1, <2>1, <3>3, <3>4 DEF DataType, ScreenType, SaveType
      <3>6. BornInv' /\ NextInv' /\ CreatingInv' /\ StoreInv' /\ ListInv' /\ ValueInv' /\ NavInv'
        BY <1>0, <1>1, <2>1, <3>3, <3>4 DEF BornInv, NextInv, CreatingInv, StoreInv, ListInv, ValueInv, NavInv
      <3>7. saves' = <<>>
        BY <2>1, <2>5, <1>0 DEF PhaseInv
      <3>8. SavesInv' /\ DraftInv' /\ NumbersInv'
        BY <3>7 DEF SavesInv, DraftInv, NumbersInv
      <3>9. PhaseInv'
        BY <3>3 DEF PhaseInv
      <3>10. QED BY <1>3, <2>2, <2>3, <3>5, <3>6, <3>8, <3>9 DEF EditorInv
    <2>6. QED BY <2>4, <2>5
  <1>7. QED BY <1>5, <1>6

\* With no save left nothing is being created, and no operation is a save's.
LEMMA NoSaves ==
  ASSUME EditorInv, saves = <<>>
  PROVE  /\ creating = Off /\ DOMAIN born = Notes
         /\ \A i \in DOMAIN recq : recq[i].by \notin Nat \ {0}
  <1>0. CreatingInv /\ BornInv /\ AwaitInv
    BY DEF EditorInv
  <1>1. DOMAIN saves = {}
    OBVIOUS
  <1>2. QED BY <1>0, <1>1 DEF CreatingInv, BornInv, AwaitInv

\* What has to be shown where no save is under way, before and after.
LEMMA Quiet ==
  ASSUME saves' = <<>>, creating' = Off, recq' \in Seq(Operation),
         \A i \in DOMAIN recq' : recq'[i].by \notin Nat \ {0}
  PROVE  /\ SaveType' /\ NextInv' /\ CreatingInv' /\ SavesInv' /\ DraftInv' /\ NumbersInv'
         /\ QueueType' /\ AwaitInv' /\ UniqueOpsInv'
  <1>1. DOMAIN saves' = {} /\ saves' \in Seq(SaveRecord)
    OBVIOUS
  <1>2. QED BY <1>1 DEF SaveType, NextInv, CreatingInv, SavesInv, DraftInv, NumbersInv, QueueType,
                        AwaitInv, UniqueOpsInv

LEMMA ShowKeeps ==
  ASSUME EditorInv, phase = "open", timer = Off, saves = <<>>,
         NEW to \in Notes \cup {Draft}, NEW text \in Text, to # Draft => Own(to, text),
         Show(to, text), UNCHANGED <<store, born, list, saves, creating, rec, acked, phase, keys>>
  PROVE  EditorInv'
  <1> USE DEF Draft, Off, Restorer
  <1>0. /\ DataType /\ ScreenType /\ SaveType /\ QueueType /\ BornInv /\ NextInv /\ CreatingInv
        /\ StoreInv /\ ListInv /\ ValueInv /\ RowInv /\ NavInv /\ SavesInv /\ DraftInv /\ NumbersInv
        /\ AwaitInv /\ PutsInv /\ ReadsInv /\ UniqueOpsInv /\ PhaseInv
    BY DEF EditorInv
  <1>1. /\ session' = session + 1 /\ sel' = to /\ nav' = NoNav
        /\ value' = IF to = Draft THEN Blank(session') ELSE text
        /\ timer' = Off
        /\ IF to = Draft THEN recq' = Append(recq, Delete(0)) ELSE recq' = recq
    BY DEF Show, Queue
  <1>2. creating = Off /\ DOMAIN born = Notes /\ \A i \in DOMAIN recq : recq[i].by \notin Nat \ {0}
    BY NoSaves
  <1>3. Notes' = Notes /\ \A t, id : Own(id, t)' <=> Own(id, t)
    BY DEF Notes, Own
  <1>4. DataType' /\ BornInv' /\ StoreInv' /\ ListInv'
    BY <1>0, <1>3 DEF DataType, BornInv, StoreInv, ListInv
  <1>5. session' \in Nat \ {0} /\ Blank(session') = [home |-> -session', n |-> 0]
        /\ Blank(session') \in Text
    BY <1>0, <1>1 DEF ScreenType, Blank, Text
  <1>6. ScreenType'
    BY <1>0, <1>1, <1>3, <1>5 DEF ScreenType
  <1>7. ValueInv'
    BY <1>0, <1>1, <1>3, <1>5 DEF ValueInv
  <1>8. OwnRows' = OwnRows
    BY <1>3 DEF OwnRows
  <1>9. RowInv' /\ NavInv'
    BY <1>0, <1>1, <1>8 DEF RowInv, NavInv
  <1>10. /\ Delete(0) \in Operation /\ Delete(0).op = "delete" /\ Delete(0).by = 0
    BY OperationTypes DEF Delete
  <1>11. /\ QueueType' /\ PutsInv' /\ ReadsInv'
         /\ \A i \in DOMAIN recq' : recq'[i].by \notin Nat \ {0} /\ recq'[i].by # Restorer
    <2>1. \A i \in DOMAIN recq : recq[i].by # Restorer
      BY <1>0 DEF PhaseInv
    <2>2. CASE to # Draft
      BY <2>1, <2>2, <1>0, <1>1, <1>2, <1>8 DEF QueueType, PutsInv, ReadsInv
    <2>3. CASE to = Draft
      <3>1. /\ QueueType' /\ DOMAIN recq = 1 .. Len(recq) /\ DOMAIN recq' = 1 .. Len(recq) + 1
            /\ Len(recq) \in Nat
            /\ \A i \in 1 .. Len(recq) : recq'[i] = recq[i]
            /\ recq'[Len(recq) + 1] = Delete(0)
        BY <2>3, <1>0, <1>1, <1>10, OpAdded
      <3>2. QED BY <3>1, <2>1, <1>0, <1>2, <1>8, <1>10 DEF PutsInv, ReadsInv
    <2>4. QED BY <2>2, <2>3
  <1>12. /\ SaveType' /\ NextInv' /\ CreatingInv' /\ SavesInv' /\ DraftInv' /\ NumbersInv'
         /\ AwaitInv' /\ UniqueOpsInv'
    BY <1>2, <1>11, Quiet DEF QueueType
  <1>13. PhaseInv'
    BY <1>11 DEF PhaseInv
  <1>14. QED BY <1>4, <1>6, <1>7, <1>9, <1>11, <1>12, <1>13 DEF EditorInv

LEMMA NavigateKeeps ==
  ASSUME EditorInv, OwnClosed, NEW to \in DOMAIN list \cup {Draft}, Navigate(to)
  PROVE  EditorInv'
  <1> USE DEF Draft, Off, Restorer
  <1>0. /\ DataType /\ ScreenType /\ SaveType /\ QueueType /\ BornInv /\ NextInv /\ CreatingInv
        /\ StoreInv /\ ListInv /\ ValueInv /\ RowInv /\ NavInv /\ SavesInv /\ DraftInv /\ NumbersInv
        /\ AwaitInv /\ PutsInv /\ ReadsInv /\ UniqueOpsInv /\ PhaseInv
    BY DEF EditorInv
  <1>1. /\ phase = "open" /\ nav = NoNav
        /\ UNCHANGED <<store, list, rec, acked, phase, keys>>
    BY DEF Navigate
  <1>2. to \in Notes \cup {Draft} /\ ListText(to) \in Text /\ (to # Draft => Own(to, ListText(to)))
    BY <1>0 DEF DataType, ListText, ListInv, None, Text
  <1>3. CASE timer = Off
    <2>1. Show(to, ListText(to)) /\ UNCHANGED <<saves, creating, born>>
      BY <1>3 DEF Navigate
    <2>2. saves = <<>>
      BY <2>1 DEF Show, OwnClosed
    <2> DEFINE text == ListText(to)
    <2>3. text \in Text /\ (to # Draft => Own(to, text)) /\ Show(to, text)
      BY <1>2, <2>1
    <2> HIDE DEF text
    <2>4. QED BY <2>1, <2>2, <2>3, <1>1, <1>2, <1>3, ShowKeeps
  <1>4. CASE timer # Off
    <2>1. /\ nav' = [to |-> to, text |-> ListText(to), awaits |-> FreshNo]
          /\ StartSave(timer) /\ UNCHANGED <<sel, session, value>>
      BY <1>4 DEF Navigate
    <2>2. FreshNo \in Nat
      BY <1>0, Fresh
    <2>3. nav' \in [to : Nat, text : Text, awaits : Nat]
      BY <2>1, <2>2, <1>2, <1>0 DEF DataType
    <2>4. timer' = Off /\ phase' = "open"
      BY <2>1, <1>1 DEF StartSave
    <2>5. PICK s \in SaveRecord : StartFacts(s)
      BY <1>4, <2>1, StartedFacts
    <2>6. Notes' = Notes /\ \A id \in Notes : id \in DOMAIN born' /\ born'[id] = born[id]
      BY <2>5, <1>0, <1>1 DEF StartFacts, BornInv, Notes
    <2>7. NavInv'
      BY <2>1, <2>4, <2>6, <1>2 DEF NavInv, Own
    <2>8. QED BY <2>1, <2>3, <2>7, <1>1, <1>4, StartKeeps
  <1>5. QED BY <1>3, <1>4

LEMMA ArriveKeeps ==
  ASSUME EditorInv, OwnClosed, Arrive
  PROVE  EditorInv'
  <1>1. /\ nav # NoNav /\ Show(nav.to, nav.text)
        /\ UNCHANGED <<store, born, list, saves, creating, rec, acked, phase, keys>>
    BY DEF Arrive, store_
  <1>2. saves = <<>>
    BY <1>1 DEF Show, OwnClosed
  <1>3. NavInv /\ ScreenType
    BY DEF EditorInv
  <1>4. /\ timer = Off /\ phase = "open" /\ nav.to \in Notes \cup {Draft} /\ nav.text \in Text
        /\ nav.to # Draft => Own(nav.to, nav.text)
    BY <1>1, <1>3 DEF NavInv, ScreenType
  <1> DEFINE to == nav.to
             text == nav.text
  <1>5. /\ to \in Notes \cup {Draft} /\ text \in Text /\ (to # Draft => Own(to, text)) /\ Show(to, text)
    BY <1>1, <1>4
  <1> HIDE DEF to, text
  <1>6. QED BY <1>1, <1>2, <1>4, <1>5, ShowKeeps

LEMMA CrashKeeps ==
  ASSUME EditorInv, Crash
  PROVE  EditorInv'
  <1> USE DEF Draft, Off, Restorer
  <1>0. /\ DataType /\ ScreenType /\ SaveType /\ QueueType /\ BornInv /\ NextInv /\ CreatingInv
        /\ StoreInv /\ ListInv /\ ValueInv /\ RowInv /\ NavInv /\ SavesInv /\ DraftInv /\ NumbersInv
        /\ AwaitInv /\ PutsInv /\ ReadsInv /\ UniqueOpsInv /\ PhaseInv
    BY DEF EditorInv
  <1>1. /\ phase' = "closed" /\ timer' = Off /\ saves' = <<>> /\ creating' = Off /\ nav' = NoNav
        /\ recq' = <<>> /\ sel' = Draft /\ session' = session + 1 /\ value' = Blank(session')
        /\ born' = [i \in Notes |-> born[i]]
        /\ store' = store /\ list' = list /\ rec' = rec /\ acked' = acked /\ keys' = keys
    BY DEF Crash
  <1>2. Notes' = Notes /\ Notes \subseteq DOMAIN born
    BY <1>0, <1>1 DEF Notes, BornInv
  <1>3. \A t : \A id \in Notes : Own(id, t)' <=> Own(id, t)
    BY <1>1 DEF Own
  <1>4. DataType'
    <2>1. born' \in [DOMAIN born' -> Int]
      BY <1>0, <1>1, <1>2 DEF DataType
    <2>2. QED BY <2>1, <1>0, <1>1, <1>2 DEF DataType
  <1>5. session' \in Nat \ {0} /\ Blank(session') = [home |-> -session', n |-> 0]
        /\ Blank(session') \in Text
    BY <1>0, <1>1 DEF ScreenType, Blank, Text
  <1>6. ScreenType' /\ ValueInv'
    BY <1>0, <1>1, <1>5 DEF ScreenType, ValueInv
  <1>7. BornInv' /\ StoreInv' /\ ListInv'
    BY <1>0, <1>1, <1>2, <1>3 DEF BornInv, StoreInv, ListInv, DataType
  <1>8. RowInv' /\ NavInv'
    BY <1>0, <1>1, <1>2, <1>3 DEF RowInv, NavInv, OwnRows
  <1>9. recq' \in Seq(Operation) /\ DOMAIN recq' = {}
    BY <1>1
  <1>10. /\ SaveType' /\ NextInv' /\ CreatingInv' /\ SavesInv' /\ DraftInv' /\ NumbersInv'
         /\ QueueType' /\ AwaitInv' /\ UniqueOpsInv'
    BY <1>1, <1>9, Quiet
  <1>11. PutsInv' /\ ReadsInv'
    BY <1>9 DEF PutsInv, ReadsInv
  <1>12. PhaseInv'
    BY <1>1 DEF PhaseInv
  <1>13. QED BY <1>4, <1>6, <1>7, <1>8, <1>10, <1>11, <1>12 DEF EditorInv

LEMMA SignOutKeeps ==
  ASSUME EditorInv, OwnClosed, SignOut
  PROVE  EditorInv'
  <1> USE DEF Draft, Off, Restorer
  <1>0. /\ DataType /\ ScreenType /\ SaveType /\ QueueType /\ BornInv /\ NextInv /\ CreatingInv
        /\ StoreInv /\ ListInv /\ ValueInv /\ RowInv /\ NavInv /\ SavesInv /\ DraftInv /\ NumbersInv
        /\ AwaitInv /\ PutsInv /\ ReadsInv /\ UniqueOpsInv /\ PhaseInv
    BY DEF EditorInv
  <1>1. /\ phase = "open" /\ saves = <<>> /\ nav = NoNav /\ rec = None /\ recq = <<>>
        /\ timer' = Off /\ sel' = Draft /\ session' = session + 1 /\ value' = Blank(session')
        /\ UNCHANGED <<store, born, list, saves, creating, nav, rec, recq, acked, phase, keys>>
    BY DEF SignOut, OwnClosed, store_, recovery
  <1>2. creating = Off /\ DOMAIN born = Notes
    BY <1>1, NoSaves
  <1>3. Notes' = Notes /\ \A t, id : Own(id, t)' <=> Own(id, t)
    BY <1>1 DEF Notes, Own
  <1>4. DataType' /\ BornInv' /\ StoreInv' /\ ListInv'
    BY <1>0, <1>1, <1>3 DEF DataType, BornInv, StoreInv, ListInv
  <1>5. session' \in Nat \ {0} /\ Blank(session') = [home |-> -session', n |-> 0]
        /\ Blank(session') \in Text
    BY <1>0, <1>1 DEF ScreenType, Blank, Text
  <1>6. ScreenType' /\ ValueInv' /\ RowInv' /\ NavInv'
    BY <1>0, <1>1, <1>2, <1>5 DEF ScreenType, ValueInv, RowInv, NavInv
  <1>7. recq' \in Seq(Operation) /\ DOMAIN recq' = {}
    BY <1>1
  <1>8. /\ SaveType' /\ NextInv' /\ CreatingInv' /\ SavesInv' /\ DraftInv' /\ NumbersInv'
        /\ QueueType' /\ AwaitInv' /\ UniqueOpsInv'
    BY <1>1, <1>2, <1>7, Quiet
  <1>9. PutsInv' /\ ReadsInv'
    BY <1>7 DEF PutsInv, ReadsInv
  <1>10. PhaseInv'
    BY <1>1, <1>7 DEF PhaseInv
  <1>11. QED BY <1>4, <1>6, <1>8, <1>9, <1>10 DEF EditorInv

LEMMA RestorerOps ==
  /\ Read(Restorer) \in Operation /\ Read(Restorer).op = "read" /\ Read(Restorer).by = Restorer
  /\ Read(Restorer).row = None
  /\ Delete(Restorer) \in Operation /\ Delete(Restorer).op = "delete" /\ Delete(Restorer).by = Restorer
  /\ Delete(0) \in Operation /\ Delete(0).op = "delete" /\ Delete(0).by = 0
  /\ Restorer \notin Nat
  <1>1. /\ Read(Restorer) \in Operation /\ Delete(Restorer) \in Operation /\ Delete(0) \in Operation
    BY OperationTypes
  <1>2. Restorer \notin Nat
    BY DEF Restorer
  <1>3. QED BY <1>1, <1>2 DEF Read, Delete

\* A queue of at most one operation of the restorer, or one that deletes.
LEMMA OneOp ==
  ASSUME recq' \in {<<>>, <<Read(Restorer)>>, <<Delete(Restorer)>>, <<Delete(0)>>},
         saves' = <<>>, creating' = Off
  PROVE  /\ SaveType' /\ NextInv' /\ CreatingInv' /\ SavesInv' /\ DraftInv' /\ NumbersInv'
         /\ QueueType' /\ AwaitInv' /\ UniqueOpsInv' /\ PutsInv' /\ ReadsInv'
  <1>1. /\ recq' \in Seq(Operation)
        /\ \A i \in DOMAIN recq' : recq'[i] \in {Read(Restorer), Delete(Restorer), Delete(0)}
    <2>1. CASE recq' = <<>>
      BY <2>1
    <2>2. ASSUME NEW o \in {Read(Restorer), Delete(Restorer), Delete(0)}, recq' = <<o>>
          PROVE  /\ recq' \in Seq(Operation)
                 /\ \A i \in DOMAIN recq' : recq'[i] \in {Read(Restorer), Delete(Restorer), Delete(0)}
      <3>1. o \in Operation
        BY <2>2, RestorerOps
      <3>2. DOMAIN recq' = {1} /\ recq'[1] = o /\ recq' \in Seq(Operation)
        BY <2>2, <3>1
      <3>3. QED BY <3>2
    <2>3. QED BY <2>1, <2>2
  <1>2. \A i \in DOMAIN recq' : recq'[i].by \notin Nat \ {0}
    BY <1>1, RestorerOps
  <1>3. /\ SaveType' /\ NextInv' /\ CreatingInv' /\ SavesInv' /\ DraftInv' /\ NumbersInv'
        /\ QueueType' /\ AwaitInv' /\ UniqueOpsInv'
    BY <1>1, <1>2, Quiet
  <1>4. Restorer # 0
    BY DEF Restorer
  <1>5. PutsInv' /\ ReadsInv'
    BY <1>1, <1>4, RestorerOps DEF PutsInv, ReadsInv
  <1>6. QED BY <1>3, <1>5

LEMMA ReopenKeeps ==
  ASSUME EditorInv, Reopen
  PROVE  EditorInv'
  <1> USE DEF Draft, Off
  <1>0. /\ DataType /\ ScreenType /\ SaveType /\ QueueType /\ BornInv /\ NextInv /\ CreatingInv
        /\ StoreInv /\ ListInv /\ ValueInv /\ RowInv /\ NavInv /\ SavesInv /\ DraftInv /\ NumbersInv
        /\ AwaitInv /\ PutsInv /\ ReadsInv /\ UniqueOpsInv /\ PhaseInv
    BY DEF EditorInv
  <1>1. /\ phase = "closed" /\ phase' = "reading" /\ list' = store
        /\ recq' = Append(recq, Read(Restorer))
        /\ UNCHANGED <<store, born, sel, session, value, timer, saves, creating, nav, rec, acked, keys>>
    BY DEF Reopen, Queue, screen
  <1>2. recq = <<>> /\ saves = <<>> /\ timer = Off
    BY <1>0, <1>1 DEF PhaseInv
  <1>3. creating = Off /\ DOMAIN born = Notes /\ nav = NoNav
    BY <1>0, <1>1, <1>2, NoSaves DEF NavInv
  <1>4. recq' = <<Read(Restorer)>>
    BY <1>1, <1>2
  <1>5. Notes' = Notes /\ \A t, id : Own(id, t)' <=> Own(id, t)
    BY <1>1 DEF Notes, Own
  <1>6. DataType' /\ ScreenType' /\ BornInv' /\ StoreInv' /\ ListInv' /\ ValueInv'
    BY <1>0, <1>1, <1>5 DEF DataType, ScreenType, BornInv, StoreInv, ListInv, ValueInv, Notes
  <1>7. RowInv' /\ NavInv'
    BY <1>0, <1>1, <1>3, <1>5 DEF RowInv, NavInv, OwnRows
  <1>8. PhaseInv'
    BY <1>1, <1>2, <1>4 DEF PhaseInv
  <1>9. QED BY <1>1, <1>2, <1>3, <1>4, <1>6, <1>7, <1>8, OneOp DEF EditorInv

LEMMA RestoreReadKeeps ==
  ASSUME EditorInv, RestoreRead
  PROVE  EditorInv'
  <1> USE DEF Draft, Off
  <1>0. /\ DataType /\ ScreenType /\ SaveType /\ QueueType /\ BornInv /\ NextInv /\ CreatingInv
        /\ StoreInv /\ ListInv /\ ValueInv /\ RowInv /\ NavInv /\ SavesInv /\ DraftInv /\ NumbersInv
        /\ AwaitInv /\ PutsInv /\ ReadsInv /\ UniqueOpsInv /\ PhaseInv
    BY DEF EditorInv
  <1>1. /\ recq # <<>> /\ phase = "reading"
        /\ UNCHANGED <<store, born, list, saves, creating, nav, rec, acked, keys>>
    BY DEF RestoreRead, store_
  <1>2. recq = <<Read(Restorer)>> /\ saves = <<>> /\ timer = Off
    BY <1>0, <1>1 DEF PhaseInv
  <1>3. creating = Off /\ DOMAIN born = Notes /\ nav = NoNav
    BY <1>0, <1>1, <1>2, NoSaves DEF NavInv
  <1>4. Notes' = Notes /\ \A t, id : Own(id, t)' <=> Own(id, t)
    BY <1>1 DEF Notes, Own
  <1>5. DataType' /\ BornInv' /\ StoreInv' /\ ListInv' /\ RowInv' /\ NavInv'
    BY <1>0, <1>1, <1>3, <1>4 DEF DataType, BornInv, StoreInv, ListInv, RowInv, NavInv, OwnRows
  <1>6. CASE rec = None
    <2>1. /\ phase' = "open" /\ recq' = Append(Tail(recq), Delete(0))
          /\ session' = session + 1 /\ sel' = Draft /\ value' = Blank(session') /\ timer' = Off
      BY <1>6 DEF RestoreRead, NothingToRestore
    <2>2. recq' = <<Delete(0)>>
      BY <2>1, <1>2
    <2>3. session' \in Nat \ {0} /\ Blank(session') = [home |-> -session', n |-> 0]
          /\ Blank(session') \in Text
      BY <1>0, <2>1 DEF ScreenType, Blank, Text
    <2>4. ScreenType' /\ ValueInv'
      BY <1>0, <1>1, <2>1, <2>3 DEF ScreenType, ValueInv
    <2>5. PhaseInv'
      BY <2>1, <2>2, RestorerOps DEF PhaseInv, Restorer
    <2>6. QED BY <1>1, <1>2, <1>3, <1>5, <2>2, <2>4, <2>5, OneOp DEF EditorInv
  <1>7. CASE rec # None
    <2>1. phase' = "writing" /\ recq' = Tail(recq)
          /\ UNCHANGED <<sel, session, value, timer>>
      BY <1>7 DEF RestoreRead, NothingToRestore, screen
    <2>2. recq' = <<>>
      BY <2>1, <1>2
    <2>3. ScreenType' /\ ValueInv'
      BY <1>0, <1>1, <1>4, <2>1 DEF ScreenType, ValueInv
    <2>4. PhaseInv'
      BY <1>1, <1>2, <1>7, <2>1, <2>2 DEF PhaseInv
    <2>5. QED BY <1>1, <1>2, <1>3, <1>5, <2>2, <2>3, <2>4, OneOp DEF EditorInv
  <1>8. QED BY <1>6, <1>7

LEMMA RestoreCheckKeeps ==
  ASSUME EditorInv, RestoreCheck
  PROVE  EditorInv'
  <1> USE DEF Draft, Off
  <1>0. /\ DataType /\ ScreenType /\ SaveType /\ QueueType /\ BornInv /\ NextInv /\ CreatingInv
        /\ StoreInv /\ ListInv /\ ValueInv /\ RowInv /\ NavInv /\ SavesInv /\ DraftInv /\ NumbersInv
        /\ AwaitInv /\ PutsInv /\ ReadsInv /\ UniqueOpsInv /\ PhaseInv
    BY DEF EditorInv
  <1>1. /\ recq # <<>> /\ Head(recq) = Read(Restorer) /\ phase = "clearing"
        /\ UNCHANGED <<store, born, list, sel, session, value, timer, saves, creating, nav, rec, acked, keys>>
    BY DEF RestoreCheck, store_, screen
  <1>2. recq \in {<<Read(Restorer)>>, <<Delete(Restorer)>>} /\ saves = <<>> /\ timer = Off
    BY <1>0, <1>1 DEF PhaseInv
  <1>3. creating = Off /\ DOMAIN born = Notes /\ nav = NoNav
    BY <1>0, <1>1, <1>2, NoSaves DEF NavInv
  <1>4. Tail(recq) = <<>>
    <2>1. ASSUME NEW o, recq = <<o>> PROVE Tail(recq) = <<>>
      BY <2>1
    <2>2. QED BY <2>1, <1>2
  <1>5. Notes' = Notes /\ \A t, id : Own(id, t)' <=> Own(id, t)
    BY <1>1 DEF Notes, Own
  <1>6. /\ DataType' /\ BornInv' /\ StoreInv' /\ ListInv' /\ RowInv' /\ NavInv' /\ ValueInv'
    BY <1>0, <1>1, <1>3, <1>5 DEF DataType, BornInv, StoreInv, ListInv, RowInv, NavInv, OwnRows, ValueInv
  <1>7. CASE RowIs(sel, value)
    <2>1. phase' = phase /\ recq' = Append(Tail(recq), Delete(Restorer))
      BY <1>7 DEF RestoreCheck
    <2>2. recq' = <<Delete(Restorer)>>
      <3>1. ASSUME NEW o PROVE Append(<<>>, o) = <<o>>
        OBVIOUS
      <3>2. QED BY <2>1, <3>1, <1>4
    <2>3. ScreenType' /\ PhaseInv'
      BY <1>0, <1>1, <1>2, <1>5, <2>1, <2>2 DEF ScreenType, PhaseInv
    <2>4. QED BY <1>1, <1>2, <1>3, <1>6, <2>2, <2>3, OneOp DEF EditorInv
  <1>8. CASE ~RowIs(sel, value)
    <2>1. phase' = "open" /\ recq' = Tail(recq)
      BY <1>8 DEF RestoreCheck
    <2>2. recq' = <<>>
      BY <2>1, <1>4
    <2>3. ScreenType' /\ PhaseInv'
      BY <1>0, <1>1, <1>2, <1>5, <2>1, <2>2 DEF ScreenType, PhaseInv
    <2>4. QED BY <1>1, <1>2, <1>3, <1>6, <2>2, <2>3, OneOp DEF EditorInv
  <1>9. QED BY <1>7, <1>8

LEMMA RestoreWriteKeeps ==
  ASSUME EditorInv, RestoreWrite
  PROVE  EditorInv'
  <1> USE DEF Draft, Off
  <1>0. /\ DataType /\ ScreenType /\ SaveType /\ QueueType /\ BornInv /\ NextInv /\ CreatingInv
        /\ StoreInv /\ ListInv /\ ValueInv /\ RowInv /\ NavInv /\ SavesInv /\ DraftInv /\ NumbersInv
        /\ AwaitInv /\ PutsInv /\ ReadsInv /\ UniqueOpsInv /\ PhaseInv
    BY DEF EditorInv
  <1>a. PICK id : id = RestoreTarget
    OBVIOUS
  <1>1. /\ phase = "writing"
        /\ store' = [i \in Notes \cup {id} |-> IF i = id THEN rec.text ELSE store[i]]
        /\ born' = [i \in DOMAIN born \cup {id} |-> IF i \in DOMAIN born THEN born[i] ELSE rec.text.home]
        /\ list' = store' /\ session' = session + 1 /\ sel' = id /\ value' = rec.text
        /\ phase' = "clearing"
        /\ recq' = Append(recq, IF rec.note = Draft THEN Delete(Restorer) ELSE Read(Restorer))
        /\ UNCHANGED <<timer, saves, creating, nav, rec, acked, keys>>
    BY <1>a DEF RestoreWrite, Queue
  <1>2. recq = <<>> /\ saves = <<>> /\ timer = Off /\ rec # None
    BY <1>0, <1>1 DEF PhaseInv
  <1>3. creating = Off /\ DOMAIN born = Notes /\ nav = NoNav
    BY <1>0, <1>1, <1>2, NoSaves DEF NavInv
  <1>4. recq' \in {<<Read(Restorer)>>, <<Delete(Restorer)>>}
    BY <1>1, <1>2
  <1>5. rec \in OwnRows /\ rec.text \in Text /\ rec.text.home \in Int
    BY <1>0, <1>2 DEF RowInv, OwnRows, Row, Text
  <1>6. Notes = 1 .. Cardinality(Notes) /\ Cardinality(Notes) \in Nat
    BY <1>0 DEF DataType
  <1>7. \/ id \in Notes /\ id = rec.note /\ Own(id, rec.text)
        \/ id = Cardinality(Notes) + 1 /\ id \notin Notes
    BY <1>a, <1>5, <1>6 DEF RestoreTarget, OwnRows
  <1>8. id \in Nat \ {0}
    BY <1>6, <1>7
  <1>9. Notes' = Notes \cup {id} /\ DOMAIN born' = Notes'
    BY <1>1, <1>3 DEF Notes
  <1>10. born'[id] = (IF id \in Notes THEN born[id] ELSE rec.text.home)
         /\ \A i \in Notes : born'[i] = born[i]
    BY <1>1, <1>3
  <1>11. DataType'
    <2>1. store' \in [Notes' -> Text]
      BY <1>0, <1>1, <1>5, <1>9 DEF DataType
    <2>2. born' \in [DOMAIN born' -> Int]
      BY <1>0, <1>1, <1>3, <1>5, <1>9 DEF DataType
    <2>3. Notes' = 1 .. Cardinality(Notes') /\ Cardinality(Notes') \in Nat
      <3>1. CASE id \in Notes
        <4>1. Notes' = Notes BY <3>1, <1>9
        <4>2. QED BY <4>1, <1>6
      <3>2. CASE id = Cardinality(Notes) + 1
        <4>1. Notes' = 1 .. id
          BY <3>2, <1>6, <1>9
        <4>2. Cardinality(1 .. id) = id
          BY <1>8, Counted
        <4>3. QED BY <4>1, <4>2, <1>8
      <3>3. QED BY <3>1, <3>2, <1>7
    <2>4. QED BY <2>1, <2>2, <2>3, <1>1 DEF DataType, Notes
  <1>12. ScreenType'
    BY <1>0, <1>1, <1>2, <1>3, <1>5, <1>9 DEF ScreenType
  <1>13. Own(id, rec.text)'
    BY <1>1, <1>7, <1>10 DEF Own
  <1>14. StoreInv' /\ ListInv' /\ ValueInv'
    <2>1. StoreInv'
      BY <1>0, <1>1, <1>9, <1>10, <1>13 DEF StoreInv, Own
    <2>2. ListInv'
      BY <2>1, <1>1 DEF ListInv, StoreInv, Notes
    <2>3. ValueInv'
      BY <1>1, <1>8, <1>13 DEF ValueInv, Own
    <2>4. QED BY <2>1, <2>2, <2>3
  <1>15. BornInv'
    BY <1>1, <1>3, <1>9 DEF BornInv
  <1>16. RowInv'
    BY <1>0, <1>1, <1>9, <1>10 DEF RowInv, OwnRows, Own
  <1>17. NavInv'
    BY <1>1, <1>3 DEF NavInv
  <1>18. PhaseInv'
    BY <1>1, <1>2, <1>4 DEF PhaseInv
  <1>19. QED BY <1>1, <1>2, <1>3, <1>4, <1>11, <1>12, <1>14, <1>15, <1>16, <1>17, <1>18, OneOp DEF EditorInv

LEMMA InitKeeps ==
  ASSUME EditorInit
  PROVE  EditorInv
  <1> USE DEF Draft, Off
  <1>1. /\ store = [id \in 1 .. Initial |-> [home |-> id, n |-> 0]]
        /\ born = [id \in 1 .. Initial |-> id] /\ list = store
        /\ sel = Draft /\ session = 1 /\ value = Blank(1) /\ timer = Off
        /\ saves = <<>> /\ creating = Off /\ nav = NoNav
        /\ rec = None /\ recq = <<>> /\ acked = {}
        /\ phase = "open" /\ keys = 0
    BY DEF EditorInit
  <1>2. Initial \in Nat /\ Notes = 1 .. Initial
    BY <1>1, EditorBounds DEF Notes
  <1>3. DataType
    <2>1. Cardinality(Notes) = Initial
      BY <1>2, Counted
    <2>2. store \in [Notes -> Text]
      BY <1>1, <1>2 DEF Text
    <2>3. QED BY <2>1, <2>2, <1>1, <1>2 DEF DataType
  <1>4. ScreenType /\ ValueInv
    <2>1. Blank(1) = [home |-> -1, n |-> 0] /\ Blank(1) \in Text
      BY DEF Blank, Text
    <2>2. QED BY <2>1, <1>1 DEF ScreenType, ValueInv
  <1>5. BornInv /\ NextInv /\ CreatingInv /\ RowInv /\ NavInv
    BY <1>1, <1>2 DEF BornInv, NextInv, CreatingInv, RowInv, NavInv
  <1>6. StoreInv /\ ListInv
    BY <1>1, <1>2 DEF StoreInv, ListInv, Own
  <1>7. /\ saves \in Seq(SaveRecord) /\ recq \in Seq(Operation)
        /\ DOMAIN saves = {} /\ DOMAIN recq = {}
    BY <1>1
  <1>8. /\ SaveType /\ QueueType /\ SavesInv /\ DraftInv /\ NumbersInv /\ AwaitInv /\ PutsInv
        /\ ReadsInv /\ UniqueOpsInv
    BY <1>7 DEF SaveType, QueueType, SavesInv, DraftInv, NumbersInv, AwaitInv, PutsInv, ReadsInv,
                UniqueOpsInv
  <1>9. PhaseInv
    BY <1>1, <1>7 DEF PhaseInv
  <1>10. QED BY <1>3, <1>4, <1>5, <1>6, <1>8, <1>9 DEF EditorInv

LEMMA StutterKeeps ==
  ASSUME EditorInv, UNCHANGED editorVars
  PROVE  EditorInv'
  <1>1. UNCHANGED <<store, born, list, sel, session, value, timer, saves, creating, nav, rec, recq,
                    acked, phase, keys>>
    BY DEF editorVars, store_, screen, recovery
  <1>2. acked' \in SUBSET Text
    BY <1>1 DEF EditorInv, ScreenType
  <1>3. /\ DataType' /\ ScreenType' /\ SaveType' /\ BornInv' /\ NextInv' /\ CreatingInv'
        /\ StoreInv' /\ ListInv' /\ ValueInv' /\ NavInv' /\ SavesInv' /\ DraftInv' /\ NumbersInv'
        /\ OwnRows' = OwnRows
    BY <1>1, <1>2, QueueOnly
  <1>4. QueueType' /\ AwaitInv' /\ PutsInv' /\ ReadsInv' /\ UniqueOpsInv' /\ PhaseInv' /\ RowInv'
    BY <1>1, <1>3 DEF EditorInv, QueueType, AwaitInv, PutsInv, ReadsInv, UniqueOpsInv, PhaseInv, RowInv
  <1>5. QED BY <1>3, <1>4 DEF EditorInv

LEMMA StepKeeps ==
  ASSUME EditorInv, OwnClosed, [EditorNext]_editorVars
  PROVE  EditorInv'
  <1>1. CASE TimerFires
    BY <1>1, TimerKeeps
  <1>2. CASE SaveStep
    BY <1>2, CreateKeeps, WriteKeeps, RefreshKeeps DEF SaveStep
  <1>3. CASE QueueStep
    BY <1>3, PutKeeps, DeleteKeeps, RestoreReadKeeps, RestoreCheckKeeps, RememberKeeps, CheckKeeps
       DEF QueueStep
  <1>4. CASE Arrive \/ Reopen \/ RestoreWrite
    BY <1>4, ArriveKeeps, ReopenKeeps, RestoreWriteKeeps
  <1>5. CASE Type \/ SignOut \/ Crash
    BY <1>5, TypeKeeps, SignOutKeeps, CrashKeeps
  <1>6. CASE \E to \in DOMAIN list \cup {Draft} : Navigate(to)
    BY <1>6, NavigateKeeps
  <1>7. CASE UNCHANGED editorVars
    BY <1>7, StutterKeeps
  <1>8. QED BY <1>1, <1>2, <1>3, <1>4, <1>5, <1>6, <1>7 DEF EditorNext, TabStep, UserStep

\* The invariant holds, with the windows open that lose text but mix no notes
\* ("stale", "clear", "overtake"), and the other four closed.
THEOREM EditorInvariant ==
  ASSUME OwnClosed
  PROVE  EditorSpec => []EditorInv
  <1>1. EditorInit => EditorInv
    BY InitKeeps
  <1>2. EditorInv /\ [EditorNext]_editorVars => EditorInv'
    BY StepKeeps
  <1>3. QED BY <1>1, <1>2, PTL DEF EditorSpec

\* No note ever holds text typed in another note or in another draft, for any
\* notes, keystrokes, switches and crashes (saveEditorNow), as long as nobody
\* types while a switch awaits its flush ("switch") or before the page has
\* restored the row ("startup"), leaves a note while a save of it is under way
\* ("overlap"), or signs out with text that is not saved ("lock").
THEOREM NotesHoldOwnText ==
  ASSUME OwnClosed
  PROVE  EditorSpec => []OwnText
  <1>1. EditorInv => OwnText
    BY DEF EditorInv, StoreInv, Own, OwnText
  <1>2. QED BY <1>1, EditorInvariant, PTL

\* Every variable of the editor has its type: what is on screen and what is
\* saved is a note that exists or a draft.
THEOREM EditorTyped ==
  ASSUME OwnClosed
  PROVE  EditorSpec => []EditorTypeOK
  <1>1. ASSUME EditorInv PROVE EditorTypeOK
    <2> USE DEF Draft, Off
    <2>0. DataType /\ ScreenType /\ SaveType /\ BornInv /\ NextInv /\ CreatingInv /\ SavesInv /\ NumbersInv
      BY <1>1 DEF EditorInv
    <2>1. Notes \subseteq DOMAIN born
      BY <2>0 DEF BornInv
    <2>2. DOMAIN born = 1 .. Cardinality(DOMAIN born)
      <3>1. CASE creating \in {Off} \cup Notes
        <4>1. DOMAIN born = Notes
          BY <3>1, <2>0 DEF BornInv
        <4>2. QED BY <4>1, <2>0 DEF DataType
      <3>2. CASE creating \notin {Off} \cup Notes
        <4>1. /\ DOMAIN born = Notes \cup {creating} /\ creating = Cardinality(Notes) + 1
              /\ Notes = 1 .. Cardinality(Notes) /\ Cardinality(Notes) \in Nat
          BY <3>2, <2>0 DEF BornInv, NextInv, DataType
        <4>2. DOMAIN born = 1 .. creating /\ creating \in Nat
          BY <4>1
        <4>3. Cardinality(1 .. creating) = creating
          BY <4>2, Counted
        <4>4. QED BY <4>2, <4>3
      <3>3. QED BY <3>1, <3>2
    <2>3. \A id \in Notes : store[id] \in Text
      BY <2>0 DEF DataType
    <2>4. /\ DOMAIN list \subseteq Notes /\ sel \in Notes \cup {Draft} /\ session \in Nat
          /\ value \in Text /\ timer \in Notes \cup {Draft, Off}
          /\ phase \in {"closed", "reading", "writing", "clearing", "open"}
      BY <2>0 DEF DataType, ScreenType
    <2>5. creating \in DOMAIN born \cup {Off}
      BY <2>0 DEF CreatingInv
    <2>6. ASSUME NEW s \in Range(saves)
          PROVE  /\ s.note \in Notes \cup {Draft} /\ s.text \in Text
                 /\ s.stage \in {"write", "create", "remember", "refresh", "check"}
      <3>1. s \in OwnSaves
        BY <2>0 DEF SavesInv, Range
      <3>2. QED BY <3>1 DEF OwnSaves, SaveRecord, Stages
    <2>7. \A s, t \in Range(saves) : s.no = t.no => s = t
      BY <2>0 DEF NumbersInv, Range
    <2>8. QED BY <2>1, <2>2, <2>3, <2>4, <2>5, <2>6, <2>7 DEF EditorTypeOK
  <1>2. QED BY <1>1, EditorInvariant, PTL

(***************************************************************************)
(* What is typed is not lost: the second invariant.                        *)
(***************************************************************************)

\* All windows are closed.
Closed == Loose = {}

\* Texts the recovery row has held, or will hold.
Texts == acked \cup {recq[i].row.text : i \in {k \in DOMAIN recq : recq[k].op = "put"}}
\* Texts a note has, or has a later one of.
KeptTexts == {t \in Text : \E id \in Notes : Own(id, t) /\ store[id].n >= t.n}
\* Texts typed in what is on screen, or in the draft it was.
ShownTexts == {t \in Text : IF sel = Draft THEN t.home = -session ELSE Own(sel, t)}
\* Texts the recovery row has, or has a later one of.
HeldTexts == {t \in Text : /\ rec # None /\ rec.text.n >= t.n
                           /\ IF rec.note = Draft THEN t.home = rec.text.home ELSE Own(rec.note, t)}

\* Keystrokes are numbered: the row and the queue have their texts in order,
\* and while a save's read is queued, only rows that were held before.
AckedInv ==
  /\ \A t \in acked : t.n > 0 /\ t.n =< keys /\ (rec # None => t.n =< rec.text.n)
  /\ rec # None => rec.text \in acked
PutInv == \A i \in DOMAIN recq : recq[i].op = "put" =>
  /\ recq[i].row.text.n > 0 /\ recq[i].row.text.n =< keys
  /\ \A t \in acked : t.n =< recq[i].row.text.n
  /\ recq[i].by # 0 => recq[i].row.text \in acked
QueueOrderInv == \A i, j \in DOMAIN recq : i < j /\ recq[j].op = "put" =>
  /\ recq[i].op = "put" => recq[i].row.text.n =< recq[j].row.text.n
  /\ recq[i].op = "read" => recq[j].by # 0

\* Texts up to b, from before the last switch of notes, are kept; later ones
\* were typed on screen, in the draft first and then in the note it became.
Since(b) ==
  /\ \A t \in Texts : t.n > b => t \in ShownTexts /\ t.n =< value.n
  /\ \A t \in Texts : t.n =< b => t \in KeptTexts
  /\ \A t, u \in Texts : b < t.n /\ t.n =< u.n /\ u.home < 0 => t.home < 0
  /\ \A i \in DOMAIN recq : recq[i].op = "put" /\ recq[i].row.text.n > b =>
       IF recq[i].row.note = Draft THEN recq[i].row.text.home = -session
       ELSE recq[i].row.note = IF sel = Draft THEN creating ELSE sel
SinceInv == /\ phase = "open" => \E b \in Nat : b =< keys /\ Since(b)
            /\ phase = "clearing" => acked \subseteq KeptTexts

\* What the recovery row has held is kept or is still held.
HeldInv == acked \subseteq KeptTexts \cup HeldTexts

\* When the row is deleted, all that it and the puts before held is kept.
DeleteInv ==
  \A i \in DOMAIN recq : recq[i].op = "delete" =>
    /\ acked \subseteq KeptTexts
    /\ \A j \in DOMAIN recq : j < i /\ recq[j].op = "put" => recq[j].row.text \in KeptTexts

\* The saves have their texts in the order they were typed, and the text on
\* screen is the last; a save that has no note yet creates it or remembers it.
ScreenInv ==
  /\ value.n =< keys /\ \A id \in Notes : store[id].n =< keys
  /\ sel # Draft => store[sel].n =< value.n /\ (timer # Off => store[sel].n < value.n)
  /\ timer # Off => value.n > 0 /\ \A i \in DOMAIN saves : saves[i].text.n < value.n
  /\ \A i, j \in DOMAIN saves : i < j => saves[i].text.n < saves[j].text.n
  /\ \A i \in DOMAIN saves :
       /\ 0 < saves[i].text.n /\ saves[i].text.n =< value.n
       /\ IF saves[i].note = Draft
          THEN saves[i].made # Off /\ saves[i].stage \in {"create", "remember"}
          ELSE saves[i].note = sel /\ saves[i].stage \notin {"create", "remember"}

\* A save's note has at most its text until it writes, and then at least.
Target(s) == IF s.note = Draft THEN s.made ELSE s.note
WrittenInv ==
  \A i \in DOMAIN saves :
    /\ saves[i].stage \in {"remember", "write"} =>
         /\ store[Target(saves[i])].n =< saves[i].text.n
         /\ store[Target(saves[i])].n = saves[i].text.n => store[Target(saves[i])] = saves[i].text
    /\ saves[i].stage \in {"refresh", "check"} => store[Target(saves[i])].n >= saves[i].text.n

\* What is on screen is stored, or the timer or a save will store it.
Storing == \E i \in DOMAIN saves : saves[i].stage \in Unwritten /\ saves[i].text = value
QuietInv == phase \in {"clearing", "open"} /\ timer = Off /\ ~Storing =>
              IF sel = Draft THEN value.n = 0 ELSE store[sel] = value

\* The list is what is stored, but for the note on screen after a write.
FreshInv ==
  /\ phase # "closed" => \A id \in DOMAIN list :
       /\ list[id].n =< store[id].n
       /\ list[id] # store[id] => id = sel /\ \E i \in DOMAIN saves : saves[i].stage = "refresh"
  /\ sel = Draft => creating \notin DOMAIN list
  /\ nav # NoNav /\ nav.to # Draft => /\ nav.to \in DOMAIN list /\ nav.text = store[nav.to]
                                      /\ nav.to \notin {sel, creating}

\* The texts of the row and the queue, and those of the screen and the notes.
RecoveryInv == AckedInv /\ PutInv /\ QueueOrderInv /\ SinceInv /\ HeldInv /\ DeleteInv
SavingInv == ScreenInv /\ WrittenInv /\ QuietInv /\ FreshInv
TypedInv == RecoveryInv /\ SavingInv

\* What is on screen, in the saves and in the notes stays.
LEMMA SavingSame ==
  ASSUME EditorInv, SavingInv,
         UNCHANGED <<store, list, sel, value, timer, saves, creating, nav, keys>>,
         phase' = phase \/ (phase = "clearing" /\ phase' = "open")
  PROVE  SavingInv'
  <1>1. Notes' = Notes
    BY DEF Notes
  <1>2. ScreenInv' /\ WrittenInv'
    BY <1>1 DEF SavingInv, ScreenInv, WrittenInv, Target
  <1>3. QuietInv' /\ FreshInv'
    BY DEF SavingInv, QuietInv, Storing, FreshInv
  <1>4. QED BY <1>2, <1>3 DEF SavingInv

LEMMA TypeSaves ==
  ASSUME EditorInv, SavingInv, Type, Closed
  PROVE  SavingInv'
  <1> USE DEF Draft, Off
  <1>0. ScreenType /\ DataType /\ PhaseInv /\ ScreenInv /\ WrittenInv /\ QuietInv /\ FreshInv
    BY DEF EditorInv, SavingInv
  <1>1. /\ phase = "open" /\ nav = NoNav /\ keys' = keys + 1 /\ timer' = sel /\ timer' # Off
        /\ value' = [home |-> Here, n |-> keys']
        /\ UNCHANGED <<store, born, list, sel, session, saves, creating, nav, phase>>
    BY <1>0 DEF Type, Closed, store_, ScreenType, DataType
  <1>2. value'.n = keys + 1 /\ keys \in Nat /\ value.n \in Nat
    BY <1>0, <1>1 DEF ScreenType, Text
  <1>3. Notes' = Notes /\ \A id \in Notes : store[id].n \in Nat
    BY <1>0, <1>1 DEF Notes, DataType, Text
  <1>4. \A i \in DOMAIN saves : saves[i].text.n \in Nat
    <2>1. \A i \in DOMAIN saves : saves[i] \in SaveRecord
      BY DEF EditorInv, SaveType
    <2>2. QED BY <2>1 DEF SaveRecord, Text
  <1>5. /\ \A id \in Notes : store[id].n =< keys /\ store[id].n < keys + 1
        /\ \A i \in DOMAIN saves : saves[i].text.n < keys + 1
    BY <1>0, <1>2, <1>3, <1>4 DEF ScreenInv
  <1>6. sel # Draft => sel \in Notes
    BY <1>0 DEF ScreenType
  <1>7. ScreenInv'
    <2>1. value'.n =< keys' /\ \A id \in Notes' : store'[id].n =< keys'
      BY <1>1, <1>2, <1>3, <1>5
    <2>2. sel' # Draft => store'[sel'].n =< value'.n /\ (timer' # Off => store'[sel'].n < value'.n)
      BY <1>1, <1>2, <1>3, <1>5, <1>6
    <2>3. timer' # Off => value'.n > 0 /\ \A i \in DOMAIN saves' : saves'[i].text.n < value'.n
      BY <1>1, <1>2, <1>5
    <2>4. \A i, j \in DOMAIN saves' : i < j => saves'[i].text.n < saves'[j].text.n
      BY <1>0, <1>1 DEF ScreenInv
    <2>5. \A i \in DOMAIN saves' :
            /\ 0 < saves'[i].text.n /\ saves'[i].text.n =< value'.n
            /\ IF saves'[i].note = Draft
               THEN saves'[i].made # Off /\ saves'[i].stage \in {"create", "remember"}
               ELSE saves'[i].note = sel' /\ saves'[i].stage \notin {"create", "remember"}
      BY <1>0, <1>1, <1>2, <1>4, <1>5 DEF ScreenInv
    <2>6. QED BY <2>1, <2>2, <2>3, <2>4, <2>5 DEF ScreenInv
  <1>8. WrittenInv'
    BY <1>0, <1>1 DEF WrittenInv, Target
  <1>9. QuietInv' /\ FreshInv'
    BY <1>0, <1>1 DEF QuietInv, FreshInv
  <1>10. QED BY <1>7, <1>8, <1>9 DEF SavingInv

\* The numbers of the texts, for comparing them.
LEMMA Numbers ==
  ASSUME EditorInv
  PROVE  /\ \A i \in DOMAIN saves : saves[i] \in SaveRecord /\ saves[i].text \in Text /\ saves[i].text.n \in Nat
         /\ \A id \in Notes : store[id] \in Text /\ store[id].n \in Nat
         /\ \A id \in DOMAIN list : list[id] \in Text /\ list[id].n \in Nat /\ id \in Notes /\ id \in Nat \ {0}
         /\ value \in Text /\ value.n \in Nat /\ keys \in Nat
         /\ sel \in Notes \cup {Draft} /\ Draft \notin Notes /\ Off \notin Notes
  <1>1. DataType /\ ScreenType /\ SaveType
    BY DEF EditorInv
  <1>2. \A i \in DOMAIN saves : saves[i] \in SaveRecord
    BY <1>1 DEF SaveType
  <1>3. \A i \in DOMAIN saves : saves[i].text \in Text /\ saves[i].text.n \in Nat
    BY <1>2 DEF SaveRecord, Text
  <1>4. /\ \A id \in Notes : store[id] \in Text /\ store[id].n \in Nat
        /\ \A id \in DOMAIN list : list[id] \in Text /\ list[id].n \in Nat /\ id \in Notes /\ id \in Nat \ {0}
        /\ Draft \notin Notes /\ Off \notin Notes
    BY <1>1 DEF DataType, Text, Draft, Off
  <1>5. value \in Text /\ value.n \in Nat /\ keys \in Nat /\ sel \in Notes \cup {Draft}
    BY <1>1 DEF ScreenType, Text
  <1>6. QED BY <1>2, <1>3, <1>4, <1>5

\* Where a save writes: all saves under way write to the note on screen, or to
\* the note the draft on screen becomes.
LEMMA Targets ==
  ASSUME EditorInv, ScreenInv
  PROVE  /\ \A i \in DOMAIN saves :
              /\ saves[i].note = Draft \/ saves[i].note = sel
              /\ saves[i].note = Draft => saves[i].made # Off /\ saves[i].made # Draft
              /\ sel # Draft => Target(saves[i]) = sel
              /\ sel = Draft => /\ saves[i].note = Draft /\ saves[i].made = creating
                                /\ saves[i].stage \in {"create", "remember"}
                                /\ Target(saves[i]) = creating
              /\ Target(saves[i]) \in {saves[i].note, saves[i].made}
  <1> USE DEF Draft, Off
  <1>1. DraftInv /\ SavesInv /\ BornInv /\ DataType /\ ScreenType
    BY DEF EditorInv
  <1>2. SUFFICES ASSUME NEW i \in DOMAIN saves
                 PROVE  /\ saves[i].note = Draft \/ saves[i].note = sel
                        /\ saves[i].note = Draft => saves[i].made # Off /\ saves[i].made # Draft
                        /\ sel # Draft => Target(saves[i]) = sel
                        /\ sel = Draft => /\ saves[i].note = Draft /\ saves[i].made = creating
                                          /\ saves[i].stage \in {"create", "remember"}
                                          /\ Target(saves[i]) = creating
                        /\ Target(saves[i]) \in {saves[i].note, saves[i].made}
    OBVIOUS
  <1>3. saves[i].note = Draft \/ saves[i].note = sel
    BY DEF ScreenInv
  <1>4. saves[i].note = Draft => saves[i].made # Off /\ saves[i].stage \in {"create", "remember"}
    BY DEF ScreenInv
  <1>5. saves[i].made # Off => saves[i].made \in DOMAIN born
    BY <1>1 DEF SavesInv, OwnSaves
  <1>6. DOMAIN born \subseteq Nat \ {0}
    <2>1. DOMAIN born = Notes \/ DOMAIN born = Notes \cup {Cardinality(Notes) + 1}
      BY <1>1 DEF BornInv, EditorInv, NextInv
    <2>2. QED BY <2>1, <1>1 DEF DataType
  <1>7. saves[i].made # Off => sel \in {Draft, saves[i].made} /\ (sel = Draft => saves[i].made = creating)
    BY <1>1 DEF DraftInv
  <1>8. QED BY <1>3, <1>4, <1>5, <1>6, <1>7 DEF Target

\* saveEditorNow starts; nav may be the switch that awaits it.
LEMMA StartSaves ==
  ASSUME EditorInv, SavingInv, timer # Off, StartSave(timer),
         UNCHANGED <<store, list, sel, session, value, phase, keys>>,
         nav' = nav \/ nav' = NoNav \/ (nav'.to # Draft => /\ nav'.to \in DOMAIN list
                                                          /\ nav'.text = list[nav'.to]
                                                          /\ nav'.to # sel)
  PROVE  SavingInv'
  <1> USE DEF Draft, Off
  <1>0. /\ ScreenType /\ DataType /\ SaveType /\ CreatingInv /\ NavInv /\ BornInv /\ SavesInv
        /\ ScreenInv /\ WrittenInv /\ QuietInv /\ FreshInv
    BY DEF EditorInv, SavingInv
  <1>1. PICK s \in SaveRecord : StartFacts(s)
    BY StartedFacts
  <1>2. /\ saves' = Append(saves, s) /\ s.note = sel /\ s.text = value /\ timer' = Off
    BY <1>1 DEF StartFacts
  <1>3. /\ DOMAIN saves = 1 .. Len(saves) /\ DOMAIN saves' = 1 .. Len(saves) + 1
        /\ Len(saves) \in Nat
        /\ \A i \in 1 .. Len(saves) : saves'[i] = saves[i]
        /\ saves'[Len(saves) + 1] = s
    BY <1>0, <1>2, SaveStarted
  <1>4. /\ \A i \in DOMAIN saves : saves[i].text.n \in Nat
        /\ \A id \in Notes : store[id].n \in Nat
        /\ value.n \in Nat /\ sel \in Notes \cup {Draft} /\ Draft \notin Notes /\ Off \notin Notes
    BY Numbers
  <1>5. /\ value.n > 0 /\ \A i \in DOMAIN saves : saves[i].text.n < value.n
        /\ sel # Draft => store[sel].n < value.n
    BY <1>0 DEF ScreenInv
  <1>6. ~IsBlank(value)
    BY <1>4, <1>5 DEF IsBlank
  <1>7. /\ sel # Draft => s.made = Off /\ s.stage = "write"
        /\ sel = Draft => s.made # Off /\ s.stage \in {"create", "remember"}
        /\ s.stage = "remember" => s.made = creating /\ creating \in Notes
        /\ creating' = creating \/ (sel = Draft /\ creating' \notin Notes)
    <2>1. sel # Draft => s.made = Off /\ s.stage = "write" /\ creating' = creating
      BY <1>1 DEF StartFacts
    <2>2. sel = Draft => \/ /\ s.made = creating /\ creating # Off /\ s.stage \in {"create", "remember"}
                            /\ s.stage = "remember" => creating \in Notes
                            /\ creating' = creating
                         \/ /\ s.made \notin Notes /\ s.made = Cardinality(Notes) + 1
                            /\ s.stage = "create" /\ creating' = s.made
      BY <1>1, <1>6 DEF StartFacts
    <2>3. Cardinality(Notes) + 1 # Off
      BY <1>0 DEF DataType
    <2>4. QED BY <2>1, <2>2, <2>3
  <1>8. Notes' = Notes
    BY DEF Notes
  <1>9. ScreenInv'
    <2>1. value'.n =< keys' /\ \A id \in Notes' : store'[id].n =< keys'
      BY <1>0, <1>8 DEF ScreenInv
    <2>2. sel' # Draft => store'[sel'].n =< value'.n
      BY <1>0 DEF ScreenInv
    <2>3. ASSUME NEW i \in DOMAIN saves', NEW j \in DOMAIN saves', i < j
          PROVE  saves'[i].text.n < saves'[j].text.n
      <3>1. CASE j = Len(saves) + 1
        BY <2>3, <3>1, <1>2, <1>3, <1>5
      <3>2. CASE j # Len(saves) + 1
        BY <2>3, <3>2, <1>0, <1>3 DEF ScreenInv
      <3>3. QED BY <3>1, <3>2
    <2>4. ASSUME NEW i \in DOMAIN saves'
          PROVE  /\ 0 < saves'[i].text.n /\ saves'[i].text.n =< value'.n
                 /\ IF saves'[i].note = Draft
                    THEN saves'[i].made # Off /\ saves'[i].stage \in {"create", "remember"}
                    ELSE saves'[i].note = sel' /\ saves'[i].stage \notin {"create", "remember"}
      <3>1. CASE i = Len(saves) + 1
        BY <3>1, <1>2, <1>3, <1>4, <1>5, <1>7
      <3>2. CASE i # Len(saves) + 1
        <4>1. i \in DOMAIN saves /\ saves'[i] = saves[i]
          BY <3>2, <1>3
        <4>2. QED BY <4>1, <1>0 DEF ScreenInv
      <3>3. QED BY <3>1, <3>2
    <2>5. QED BY <2>1, <2>2, <2>3, <2>4, <1>2 DEF ScreenInv
  <1>10. WrittenInv'
    <2>1. s.stage = "remember" \/ s.stage = "write" => store[Target(s)].n < s.text.n
      <3>1. CASE s.stage = "write"
        BY <3>1, <1>2, <1>5, <1>7 DEF Target
      <3>2. CASE s.stage = "remember"
        <4>1. sel = Draft /\ Target(s) = creating /\ creating \in Notes
          BY <3>2, <1>2, <1>7 DEF Target
        <4>2. PICK i \in DOMAIN saves : saves[i].made = creating /\ saves[i].stage \in Unwritten
          BY <4>1, <1>0, <1>4 DEF CreatingInv
        <4>3. saves[i].stage # "create"
          BY <4>1, <1>0 DEF SavesInv, OwnSaves
        <4>4. Target(saves[i]) = creating /\ saves[i].stage = "remember"
          BY <4>1, <4>3, <1>0, Targets
        <4>5. store[creating].n =< saves[i].text.n /\ saves[i].text.n < value.n
          BY <4>4, <1>0, <1>5 DEF WrittenInv
        <4>6. QED BY <4>1, <4>5, <1>2, <1>4
      <3>3. QED BY <3>1, <3>2
    <2>2. s.stage \notin {"refresh", "check"}
      BY <1>7
    <2>3. s.stage \in {"remember", "write"} => Target(s) \in Notes
      BY <1>2, <1>4, <1>7 DEF Target
    <2>4. s.stage \in {"remember", "write"} =>
            store[Target(s)].n =< s.text.n /\ store[Target(s)].n # s.text.n
      BY <2>1, <2>3, <1>2, <1>4
    <2>5. ASSUME NEW i \in DOMAIN saves'
          PROVE  /\ saves'[i].stage \in {"remember", "write"} =>
                      /\ store[Target(saves'[i])].n =< saves'[i].text.n
                      /\ store[Target(saves'[i])].n = saves'[i].text.n =>
                           store[Target(saves'[i])] = saves'[i].text
                 /\ saves'[i].stage \in {"refresh", "check"} =>
                      store[Target(saves'[i])].n >= saves'[i].text.n
      <3>1. CASE i = Len(saves) + 1
        BY <3>1, <2>2, <2>4, <1>3
      <3>2. CASE i # Len(saves) + 1
        <4>1. i \in DOMAIN saves /\ saves'[i] = saves[i]
          BY <3>2, <1>3
        <4>2. QED BY <4>1, <1>0 DEF WrittenInv
      <3>3. QED BY <3>1, <3>2
    <2>6. QED BY <2>5 DEF WrittenInv, Target
  <1>11. QuietInv'
    <2>1. saves'[Len(saves) + 1].stage \in Unwritten /\ saves'[Len(saves) + 1].text = value'
      BY <1>2, <1>3, <1>4, <1>7 DEF Unwritten
    <2>2. Storing'
      BY <2>1, <1>3 DEF Storing
    <2>3. QED BY <2>2 DEF QuietInv
  <1>12. FreshInv'
    <2>1. ASSUME phase # "closed", NEW id \in DOMAIN list
          PROVE  /\ list[id].n =< store[id].n
                 /\ list[id] # store[id] => id = sel /\ \E i \in DOMAIN saves' : saves'[i].stage = "refresh"
      BY <2>1, <1>0, <1>3 DEF FreshInv
    <2>2. DOMAIN list \subseteq Notes
      BY <1>0 DEF DataType
    <2>3. sel = Draft => creating' \notin DOMAIN list
      BY <2>2, <1>0, <1>7 DEF FreshInv
    <2>4. phase # "closed"
      BY <1>0 DEF EditorInv, PhaseInv
    <2>5. ASSUME nav' # NoNav, nav'.to # Draft
          PROVE  /\ nav'.to \in DOMAIN list /\ nav'.text = store[nav'.to]
                 /\ nav'.to \notin {sel, creating'}
      <3>1. nav' = nav => nav = NoNav
        BY <1>0 DEF NavInv
      <3>2. nav'.to \in DOMAIN list /\ nav'.text = list[nav'.to] /\ nav'.to # sel
        BY <2>5, <3>1
      <3>3. list[nav'.to] = store[nav'.to]
        BY <3>2, <2>4, <1>0 DEF FreshInv
      <3>4. nav'.to # creating'
        BY <3>2, <2>2, <2>3, <1>0, <1>4, <1>7 DEF CreatingInv
      <3>5. QED BY <3>2, <3>3, <3>4
    <2>6. QED BY <2>1, <2>3, <2>5 DEF FreshInv
  <1>13. QED BY <1>9, <1>10, <1>11, <1>12 DEF SavingInv

LEMMA WriteSaves ==
  ASSUME EditorInv, SavingInv, NEW s \in Range(saves), Write(s), Closed
  PROVE  SavingInv'
  <1> USE DEF Draft, Off
  <1>0. /\ ScreenType /\ DataType /\ SaveType /\ CreatingInv /\ NavInv /\ PhaseInv /\ SavesInv /\ NumbersInv
        /\ ScreenInv /\ WrittenInv /\ QuietInv /\ FreshInv
    BY DEF EditorInv, SavingInv
  <1>1. PICK k \in DOMAIN saves : saves[k] = s
    BY DEF Range
  <1> DEFINE r == [s EXCEPT !.stage = "refresh"]
  <1>2. /\ s.stage = "write" /\ store' = [store EXCEPT ![s.note] = s.text]
        /\ creating' = Settled(s) /\ Updated(r) /\ Older(s) = {}
        /\ UNCHANGED <<list, sel, value, timer, nav, phase, keys>>
    BY DEF Write, Closed, screen
  <1>3. s \in SaveRecord /\ s.note \in Notes
    BY <1>0, <1>1, <1>2 DEF SaveType, SavesInv, OwnSaves
  <1>4. r \in SaveRecord /\ r.no = s.no /\ r.stage = "refresh" /\ r.made = s.made
        /\ r.note = s.note /\ r.text = s.text
    BY <1>3 DEF SaveRecord, Stages
  <1> HIDE DEF r
  <1>5. /\ DOMAIN saves' = DOMAIN saves /\ saves'[k] = r
        /\ \A i \in DOMAIN saves : i # k => saves'[i] = saves[i]
    BY <1>0, <1>1, <1>2, <1>4, SaveUpdated
  <1>6. /\ \A i \in DOMAIN saves : saves[i].text.n \in Nat
        /\ \A id \in Notes : store[id].n \in Nat
        /\ value.n \in Nat /\ keys \in Nat /\ Draft \notin Notes /\ Off \notin Notes
    BY Numbers
  <1>7. s.note = sel /\ sel # Draft /\ sel \in Notes
    BY <1>1, <1>3, <1>6, <1>0, Targets
  <1>8. Notes' = Notes /\ store'[sel] = s.text /\ \A id \in Notes : id # sel => store'[id] = store[id]
    BY <1>0, <1>2, <1>7 DEF DataType, Notes
  <1>9. /\ \A i \in DOMAIN saves : Target(saves[i]) = sel /\ Target(saves'[i]) = sel
        /\ \A i \in DOMAIN saves : saves'[i].text = saves[i].text /\ saves'[i].note = saves[i].note
                                   /\ saves'[i].made = saves[i].made
        /\ \A i \in DOMAIN saves : i # k => saves'[i].stage = saves[i].stage
        /\ saves'[k].stage = "refresh"
    BY <1>0, <1>1, <1>4, <1>5, <1>7, Targets DEF Target
  <1>10. /\ s.text.n \in Nat /\ s.text.n =< value.n /\ value.n =< keys /\ store[sel].n =< s.text.n
         /\ store[sel].n = s.text.n => store[sel] = s.text
         /\ timer # Off => s.text.n < value.n
    <2>1. s.text.n \in Nat /\ s.text.n =< value.n /\ value.n =< keys /\ (timer # Off => s.text.n < value.n)
      BY <1>0, <1>1, <1>6 DEF ScreenInv
    <2>2. store[sel].n =< s.text.n /\ (store[sel].n = s.text.n => store[sel] = s.text)
      BY <1>0, <1>1, <1>2, <1>9 DEF WrittenInv
    <2>3. QED BY <2>1, <2>2
  <1>11. ScreenInv'
    <2>1. value'.n =< keys' /\ \A id \in Notes' : store'[id].n =< keys'
      <3>1. \A id \in Notes : store[id].n =< keys
        BY <1>0 DEF ScreenInv
      <3>2. s.text.n =< keys
        BY <1>6, <1>10
      <3>3. QED BY <3>1, <3>2, <1>2, <1>8, <1>10
    <2>2. sel' # Draft => store'[sel'].n =< value'.n /\ (timer' # Off => store'[sel'].n < value'.n)
      BY <1>2, <1>8, <1>10
    <2>3. timer' # Off => value'.n > 0 /\ \A i \in DOMAIN saves' : saves'[i].text.n < value'.n
      BY <1>0, <1>2, <1>5, <1>9 DEF ScreenInv
    <2>4. \A i, j \in DOMAIN saves' : i < j => saves'[i].text.n < saves'[j].text.n
      BY <1>0, <1>5, <1>9 DEF ScreenInv
    <2>5. ASSUME NEW i \in DOMAIN saves'
          PROVE  /\ 0 < saves'[i].text.n /\ saves'[i].text.n =< value'.n
                 /\ IF saves'[i].note = Draft
                    THEN saves'[i].made # Off /\ saves'[i].stage \in {"create", "remember"}
                    ELSE saves'[i].note = sel' /\ saves'[i].stage \notin {"create", "remember"}
      <3>1. CASE i = k
        BY <3>1, <1>0, <1>1, <1>2, <1>5, <1>7, <1>9 DEF ScreenInv
      <3>2. CASE i # k
        <4>1. i \in DOMAIN saves /\ saves'[i] = saves[i]
          BY <3>2, <1>5
        <4>2. QED BY <4>1, <1>0, <1>2 DEF ScreenInv
      <3>3. QED BY <3>1, <3>2
    <2>6. QED BY <2>1, <2>2, <2>3, <2>4, <2>5 DEF ScreenInv
  <1>12. WrittenInv'
    <2>1. ASSUME NEW i \in DOMAIN saves, i # k, saves[i].stage \in {"remember", "write"}
          PROVE  s.text.n < saves[i].text.n
      <3>1. k \in Nat /\ i \in Nat
        BY <1>0 DEF SaveType
      <3>2. ~(i < k)
        <4>1. Target(saves[i]) = sel /\ Target(saves[i]) \in {saves[i].note, saves[i].made}
          BY <1>0, <1>7, Targets
        <4>2. s.note \in {saves[i].note, saves[i].made}
          BY <4>1, <1>7
        <4>3. i < k => i \in Older(s)
          BY <4>2, <2>1, <1>1 DEF Older
        <4>4. QED BY <4>3, <1>2
      <3>3. k < i
        BY <3>1, <3>2, <2>1
      <3>4. QED BY <3>3, <1>0, <1>1 DEF ScreenInv
    <2>2. ASSUME NEW i \in DOMAIN saves, i # k, saves[i].stage \in {"refresh", "check"}
          PROVE  s.text.n >= saves[i].text.n
      <3>1. store[sel].n >= saves[i].text.n
        BY <2>2, <1>0, <1>9 DEF WrittenInv
      <3>2. QED BY <3>1, <1>6, <1>7, <1>10
    <2>3. ASSUME NEW i \in DOMAIN saves'
          PROVE  /\ saves'[i].stage \in {"remember", "write"} =>
                      /\ store'[sel].n =< saves'[i].text.n
                      /\ store'[sel].n = saves'[i].text.n => store'[sel] = saves'[i].text
                 /\ saves'[i].stage \in {"refresh", "check"} => store'[sel].n >= saves'[i].text.n
      <3>1. CASE i = k
        BY <3>1, <1>1, <1>5, <1>8, <1>9, <1>10
      <3>2. CASE i # k
        BY <3>2, <2>1, <2>2, <1>5, <1>6, <1>8, <1>9, <1>10
      <3>3. QED BY <3>1, <3>2
    <2>4. \A i \in DOMAIN saves' : (IF saves'[i].note = Draft THEN saves'[i].made ELSE saves'[i].note) = sel
      BY <1>5, <1>9 DEF Target
    <2>5. QED BY <2>3, <2>4 DEF WrittenInv, Target
  <1>13. QuietInv'
    <2>1. SUFFICES ASSUME phase \in {"clearing", "open"}, timer = Off, ~Storing', s.text # value
                   PROVE  FALSE
      BY <1>2, <1>7, <1>8 DEF QuietInv
    <2>2. ~Storing
      <3>1. SUFFICES ASSUME NEW i \in DOMAIN saves, saves[i].stage \in Unwritten, saves[i].text = value
                     PROVE  FALSE
        BY DEF Storing
      <3>2. i # k
        BY <3>1, <2>1, <1>1
      <3>3. QED BY <3>1, <3>2, <2>1, <1>2, <1>5 DEF Storing
    <2>3. store[sel] = value
      BY <2>1, <2>2, <1>0, <1>7 DEF QuietInv
    <2>4. store[sel].n = s.text.n
      BY <2>3, <1>6, <1>10
    <2>5. QED BY <2>1, <2>3, <2>4, <1>10
  <1>14. FreshInv'
    <2>1. ASSUME phase # "closed", NEW id \in DOMAIN list
          PROVE  /\ list[id].n =< store'[id].n
                 /\ list[id] # store'[id] => id = sel /\ \E i \in DOMAIN saves' : saves'[i].stage = "refresh"
      <3>1. id \in Notes /\ list[id].n \in Nat
        BY Numbers
      <3>2. CASE id = sel
        BY <2>1, <3>1, <3>2, <1>0, <1>5, <1>6, <1>7, <1>8, <1>9, <1>10 DEF FreshInv
      <3>3. CASE id # sel
        BY <2>1, <3>1, <3>3, <1>0, <1>8 DEF FreshInv
      <3>4. QED BY <3>2, <3>3
    <2>2. ASSUME nav # NoNav, nav.to # Draft
          PROVE  /\ nav.to \in DOMAIN list /\ nav.text = store'[nav.to] /\ nav.to \notin {sel, creating'}
      <3>1. /\ nav.to \in DOMAIN list /\ nav.text = store[nav.to] /\ nav.to \notin {sel, creating}
        BY <2>2, <1>0 DEF FreshInv
      <3>2. nav.to \in Notes
        BY <3>1, Numbers
      <3>3. creating' \in {creating, Off}
        BY <1>2 DEF Settled
      <3>4. QED BY <3>1, <3>2, <3>3, <1>6, <1>8
    <2>3. QED BY <2>1, <2>2, <1>2, <1>7 DEF FreshInv
  <1>15. QED BY <1>11, <1>12, <1>13, <1>14 DEF SavingInv

LEMMA CreateSaves ==
  ASSUME EditorInv, SavingInv, Create
  PROVE  SavingInv'
  <1> USE DEF Draft, Off
  <1>0. /\ ScreenType /\ DataType /\ SaveType /\ CreatingInv /\ SavesInv
        /\ ScreenInv /\ WrittenInv /\ QuietInv /\ FreshInv
    BY DEF EditorInv, SavingInv
  <1>1. PICK joined, order, n : CreateFacts(joined, order, n)
    BY CreatedFacts
  <1>2. /\ order \in [1 .. n -> joined]
        /\ \A i \in joined : 1 \in 1 .. n /\ order[1] =< i
        /\ joined = {i \in DOMAIN saves : saves[i].made = creating}
        /\ creating \notin Notes \cup {Off}
        /\ store' = [i \in Notes \cup {creating} |->
                       IF i = creating THEN saves[order[1]].text ELSE store[i]]
        /\ saves' = [i \in DOMAIN saves |-> IF i \in joined
                                            THEN [saves[i] EXCEPT !.stage = "remember"] ELSE saves[i]]
    <2>1. order \in [1 .. n -> joined]
      BY <1>1 DEF CreateFacts
    <2>0. \A i \in joined : 1 \in 1 .. n /\ order[1] =< i
      BY <1>1 DEF CreateFacts
    <2>4. joined = {i \in DOMAIN saves : saves[i].made = creating}
      BY <1>1 DEF CreateFacts
    <2>2. /\ creating \notin Notes \cup {Off}
          /\ store' = [i \in Notes \cup {creating} |->
                         IF i = creating THEN saves[order[1]].text ELSE store[i]]
          /\ saves' = [i \in DOMAIN saves |-> IF i \in joined
                                              THEN [saves[i] EXCEPT !.stage = "remember"] ELSE saves[i]]
      BY <1>1 DEF CreateFacts
    <2>3. QED BY <2>0, <2>1, <2>2, <2>4
  <1>3. UNCHANGED <<list, sel, value, timer, creating, nav, phase, keys>>
    BY DEF Create, screen
  <1>4. /\ \A i \in DOMAIN saves : saves[i] \in SaveRecord /\ saves[i].text.n \in Nat
        /\ \A id \in DOMAIN list : id \in Notes
        /\ sel \in Notes \cup {Draft} /\ Draft \notin Notes
    BY Numbers
  <1>5. sel = Draft
    BY <1>0, <1>2, <1>4 DEF CreatingInv
  <1>6. \A i \in DOMAIN saves :
          /\ saves[i].note = Draft /\ saves[i].made = creating /\ i \in joined
          /\ saves[i].stage \in {"create", "remember"}
    BY <1>0, <1>2, <1>5, Targets
  <1>7. /\ DOMAIN saves' = DOMAIN saves
        /\ \A i \in DOMAIN saves :
             /\ saves'[i].note = Draft /\ saves'[i].made = creating /\ saves'[i].text = saves[i].text
             /\ saves'[i].stage = "remember"
    <2>1. \A i \in DOMAIN saves : saves'[i] = [saves[i] EXCEPT !.stage = "remember"]
      BY <1>2, <1>6
    <2>2. QED BY <2>1, <1>2, <1>4, <1>6 DEF SaveRecord
  <1>8. order[1] \in DOMAIN saves /\ \A i \in DOMAIN saves : order[1] =< i
    <2>1. n \in Nat \ {0}
      BY <1>1 DEF CreateFacts
    <2>2. 1 \in 1 .. n
      BY <2>1
    <2>3. QED BY <2>2, <1>2, <1>6
  <1>9. /\ Notes' = Notes \cup {creating} /\ store'[creating] = saves[order[1]].text
        /\ \A id \in Notes : store'[id] = store[id]
    BY <1>2 DEF Notes
  <1>10. \A i \in DOMAIN saves : /\ saves[order[1]].text.n =< saves[i].text.n
                                 /\ saves[order[1]].text.n = saves[i].text.n => order[1] = i
    <2>1. DOMAIN saves \subseteq Nat
      BY <1>0 DEF SaveType
    <2>2. SUFFICES ASSUME NEW i \in DOMAIN saves, i # order[1]
                   PROVE  saves[order[1]].text.n < saves[i].text.n
      BY <1>4, <1>8
    <2>3. order[1] < i
      BY <2>1, <2>2, <1>8
    <2>4. QED BY <2>3, <1>0, <1>8 DEF ScreenInv
  <1>11. ScreenInv'
    <2>1. /\ value'.n =< keys' /\ \A id \in Notes' : store'[id].n =< keys'
      <3>1. saves[order[1]].text.n =< value.n /\ value.n =< keys /\ \A id \in Notes : store[id].n =< keys
        BY <1>0, <1>8 DEF ScreenInv
      <3>2. saves[order[1]].text.n =< keys
        BY <3>1, <1>4, <1>8, Numbers
      <3>3. QED BY <3>1, <3>2, <1>3, <1>9
    <2>2. timer' # Off => value'.n > 0 /\ \A i \in DOMAIN saves' : saves'[i].text.n < value'.n
      BY <1>0, <1>3, <1>7 DEF ScreenInv
    <2>3. \A i, j \in DOMAIN saves' : i < j => saves'[i].text.n < saves'[j].text.n
      BY <1>0, <1>7 DEF ScreenInv
    <2>4. \A i \in DOMAIN saves' :
            /\ 0 < saves'[i].text.n /\ saves'[i].text.n =< value'.n
            /\ saves'[i].note = Draft /\ saves'[i].made # Off /\ saves'[i].stage \in {"create", "remember"}
      BY <1>0, <1>2, <1>3, <1>7 DEF ScreenInv
    <2>5. QED BY <2>1, <2>2, <2>3, <2>4, <1>3, <1>5 DEF ScreenInv
  <1>12. WrittenInv'
    BY <1>7, <1>9, <1>10 DEF WrittenInv, Target
  <1>13. QuietInv'
    <2>1. Storing => Storing'
      BY <1>3, <1>7 DEF Storing, Unwritten
    <2>2. QED BY <2>1, <1>0, <1>3, <1>5 DEF QuietInv
  <1>14. FreshInv'
    <2>1. ASSUME phase # "closed", NEW id \in DOMAIN list PROVE list[id] = store[id]
      BY <2>1, <1>0, <1>4, <1>5 DEF FreshInv
    <2>2. \A id \in DOMAIN list : store[id].n >= store[id].n
      BY <1>4, Numbers
    <2>3. QED BY <2>1, <2>2, <1>0, <1>3, <1>4, <1>9 DEF FreshInv
  <1>15. QED BY <1>11, <1>12, <1>13, <1>14 DEF SavingInv

LEMMA RefreshSaves ==
  ASSUME EditorInv, SavingInv, NEW s \in Range(saves), Refresh(s)
  PROVE  SavingInv' /\ s.note # Draft
  <1> USE DEF Draft, Off
  <1>0. /\ SaveType /\ NumbersInv /\ DataType /\ ScreenInv /\ WrittenInv /\ QuietInv /\ FreshInv
    BY DEF EditorInv, SavingInv
  <1>1. PICK k \in DOMAIN saves : saves[k] = s
    BY DEF Range
  <1>2. s.stage = "refresh" /\ list' = store /\ UNCHANGED <<store, sel, value, timer, creating, nav, phase, keys>>
    BY DEF Refresh, screen
  <1>3. s.note # Draft /\ s.note = sel
    BY <1>0, <1>1, <1>2 DEF ScreenInv
  <1> DEFINE r == [s EXCEPT !.stage = "check"]
  <1>4. Updated(r)
    BY <1>3 DEF Refresh
  <1>5. s \in SaveRecord
    BY <1>0, <1>1 DEF SaveType
  <1>6. r \in SaveRecord /\ r.no = s.no /\ r.stage = "check" /\ r.made = s.made
        /\ r.note = s.note /\ r.text = s.text
    BY <1>5 DEF SaveRecord, Stages
  <1> HIDE DEF r
  <1>7. /\ DOMAIN saves' = DOMAIN saves /\ saves'[k] = r
        /\ \A i \in DOMAIN saves : i # k => saves'[i] = saves[i]
    BY <1>0, <1>1, <1>4, <1>6, SaveUpdated
  <1>8. \A i \in DOMAIN saves :
          /\ saves'[i].text = saves[i].text /\ saves'[i].note = saves[i].note /\ saves'[i].made = saves[i].made
          /\ saves'[i].stage = IF i = k THEN "check" ELSE saves[i].stage
    BY <1>1, <1>6, <1>7
  <1>9. Notes' = Notes
    BY <1>2 DEF Notes
  <1>10. ScreenInv'
    <2>1. \A i \in DOMAIN saves' :
            /\ 0 < saves'[i].text.n /\ saves'[i].text.n =< value'.n
            /\ IF saves'[i].note = Draft
               THEN saves'[i].made # Off /\ saves'[i].stage \in {"create", "remember"}
               ELSE saves'[i].note = sel' /\ saves'[i].stage \notin {"create", "remember"}
      BY <1>0, <1>1, <1>2, <1>3, <1>7, <1>8 DEF ScreenInv
    <2>2. QED BY <2>1, <1>0, <1>2, <1>7, <1>8, <1>9 DEF ScreenInv
  <1>11. WrittenInv'
    BY <1>0, <1>1, <1>2, <1>7, <1>8 DEF WrittenInv, Target
  <1>12. QuietInv'
    <2>1. Storing => Storing'
      BY <1>1, <1>2, <1>7, <1>8 DEF Storing, Unwritten
    <2>2. QED BY <2>1, <1>0, <1>2 DEF QuietInv
  <1>13. FreshInv'
    <2>1. \A id \in DOMAIN store : store[id].n >= store[id].n
      BY Numbers DEF Notes
    <2>2. DOMAIN list \subseteq DOMAIN store
      BY <1>0 DEF DataType, Notes
    <2>3. QED BY <2>1, <2>2, <1>0, <1>2, <1>3 DEF FreshInv
  <1>14. QED BY <1>3, <1>10, <1>11, <1>12, <1>13 DEF SavingInv

\* The draft becomes the note on screen.
LEMMA AdoptSaves ==
  ASSUME EditorInv, SavingInv, NEW k \in DOMAIN saves, saves[k].stage = "remember", Adopt(saves[k]),
         UNCHANGED <<store, list, value, timer, nav, phase, keys>>
  PROVE  /\ SavingInv'
         /\ sel' = saves[k].made /\ sel' \in Notes /\ sel' # Draft
         /\ sel = sel' \/ (sel = Draft /\ creating = sel' /\ creating # Off)
  <1> USE DEF Draft, Off
  <1>0. /\ SaveType /\ NumbersInv /\ DataType /\ SavesInv /\ DraftInv /\ PhaseInv /\ ScreenType
        /\ ScreenInv /\ WrittenInv /\ QuietInv /\ FreshInv
    BY DEF EditorInv, SavingInv
  <1> DEFINE s == saves[k]
             writes == StillEditing(s) /\ store[s.made] # s.text
             r == [s EXCEPT !.note = s.made, !.stage = IF writes THEN "write" ELSE "refresh"]
  <1>1. /\ sel' = IF StillEditing(s) THEN s.made ELSE sel
        /\ Updated(r)
        /\ creating' = IF writes THEN creating ELSE Settled(s)
    BY DEF Adopt
  <1>2. s \in OwnSaves /\ s \in SaveRecord
    BY <1>0 DEF SavesInv, OwnSaves
  <1>3. /\ s.stage = "remember" /\ s.made \in Notes /\ s.made # Off /\ s.made # Draft
    BY <1>0, <1>2 DEF OwnSaves, DataType
  <1>4. s.session = session /\ sel \in {Draft, s.made} /\ (sel = Draft => s.made = creating)
    BY <1>0, <1>3 DEF DraftInv
  <1>5. StillEditing(s) /\ sel' = s.made
    BY <1>1, <1>4 DEF StillEditing
  <1>6. /\ r \in SaveRecord /\ r.no = s.no /\ r.note = s.made /\ r.text = s.text /\ r.made = s.made
        /\ r.stage = IF store[s.made] # s.text THEN "write" ELSE "refresh"
    BY <1>2, <1>3, <1>5, <1>0 DEF SaveRecord, Stages, DataType
  <1>7. creating' \in {creating, Off}
    BY <1>1 DEF Settled
  <1> HIDE DEF r, writes
  <1>8. /\ DOMAIN saves' = DOMAIN saves /\ saves'[k] = r
        /\ \A i \in DOMAIN saves : i # k => saves'[i] = saves[i]
    BY <1>0, <1>1, <1>6, SaveUpdated
  <1>9. s.note = Draft /\ 0 < s.text.n /\ s.text.n =< value.n /\ (timer # Off => s.text.n < value.n)
    BY <1>0, <1>3 DEF ScreenInv
  <1>10. s.text.n \in Nat /\ store[s.made].n \in Nat /\ value.n \in Nat
    BY <1>3, Numbers
  <1>11. Target(s) = s.made /\ store[s.made].n =< s.text.n
    BY <1>0, <1>3, <1>9 DEF WrittenInv, Target
  <1>12. /\ saves'[k].text = s.text /\ saves'[k].note = s.made /\ saves'[k].made = s.made
         /\ \A i \in DOMAIN saves : saves'[i].text = saves[i].text
    BY <1>6, <1>8
  <1>13. Notes' = Notes
    BY DEF Notes
  <1> HIDE DEF s
  <1>14. ScreenInv'
    <2>1. value'.n =< keys' /\ \A id \in Notes' : store'[id].n =< keys'
      BY <1>0, <1>13 DEF ScreenInv
    <2>2. store'[sel'].n =< value'.n /\ (timer' # Off => store'[sel'].n < value'.n)
      BY <1>5, <1>9, <1>10, <1>11
    <2>3. timer' # Off => value'.n > 0 /\ \A i \in DOMAIN saves' : saves'[i].text.n < value'.n
      BY <1>0, <1>8, <1>12 DEF ScreenInv
    <2>4. \A i, j \in DOMAIN saves' : i < j => saves'[i].text.n < saves'[j].text.n
      BY <1>0, <1>8, <1>12 DEF ScreenInv
    <2>5. ASSUME NEW i \in DOMAIN saves'
          PROVE  /\ 0 < saves'[i].text.n /\ saves'[i].text.n =< value'.n
                 /\ IF saves'[i].note = Draft
                    THEN saves'[i].made # Off /\ saves'[i].stage \in {"create", "remember"}
                    ELSE saves'[i].note = sel' /\ saves'[i].stage \notin {"create", "remember"}
      <3>1. CASE i = k
        BY <3>1, <1>3, <1>5, <1>6, <1>8, <1>9
      <3>2. CASE i # k
        <4>1. i \in DOMAIN saves /\ saves'[i] = saves[i]
          BY <3>2, <1>8
        <4>2. /\ 0 < saves[i].text.n /\ saves[i].text.n =< value.n
              /\ IF saves[i].note = Draft
                 THEN saves[i].made # Off /\ saves[i].stage \in {"create", "remember"}
                 ELSE saves[i].note = sel /\ saves[i].stage \notin {"create", "remember"}
          BY <4>1, <1>0 DEF ScreenInv
        <4>3. QED BY <4>1, <4>2, <1>4, <1>5
      <3>3. QED BY <3>1, <3>2
    <2>6. QED BY <2>1, <2>2, <2>3, <2>4, <2>5 DEF ScreenInv
  <1>15. WrittenInv'
    <2>1. ASSUME NEW i \in DOMAIN saves'
          PROVE  /\ saves'[i].stage \in {"remember", "write"} =>
                      /\ store[Target(saves'[i])].n =< saves'[i].text.n
                      /\ store[Target(saves'[i])].n = saves'[i].text.n =>
                           store[Target(saves'[i])] = saves'[i].text
                 /\ saves'[i].stage \in {"refresh", "check"} =>
                      store[Target(saves'[i])].n >= saves'[i].text.n
      <3>1. CASE i = k
        <4>1. Target(saves'[k]) = s.made
          BY <1>3, <1>12 DEF Target
        <4>2. store[s.made].n = s.text.n => store[s.made] = s.text
          BY <1>0, <1>3, <1>11 DEF WrittenInv, s
        <4>3. QED BY <3>1, <4>1, <4>2, <1>6, <1>8, <1>10, <1>11
      <3>2. CASE i # k
        <4>1. i \in DOMAIN saves /\ saves'[i] = saves[i]
          BY <3>2, <1>8
        <4>2. QED BY <4>1, <1>0 DEF WrittenInv
      <3>3. QED BY <3>1, <3>2
    <2>2. QED BY <2>1 DEF WrittenInv, Target
  <1>16. QuietInv'
    <2>1. SUFFICES ASSUME phase \in {"clearing", "open"}, timer = Off, ~Storing' PROVE store[s.made] = value
      BY <1>3, <1>5 DEF QuietInv
    <2>2. CASE s.text = value
      <3>1. r.stage # "write"
        BY <2>1, <2>2, <1>8, <1>12 DEF Storing, Unwritten
      <3>2. QED BY <3>1, <2>2, <1>6
    <2>3. CASE s.text # value
      <3>1. ~Storing
        BY <2>1, <2>3, <1>8 DEF Storing, s
      <3>2. IF sel = Draft THEN value.n = 0 ELSE store[sel] = value
        BY <2>1, <3>1, <1>0 DEF QuietInv
      <3>3. sel # Draft
        BY <3>2, <1>9, <1>10
      <3>4. QED BY <3>2, <3>3, <1>4
    <2>4. QED BY <2>2, <2>3
  <1>17. FreshInv'
    <2>1. ASSUME phase # "closed", NEW id \in DOMAIN list
          PROVE  /\ list[id].n =< store[id].n
                 /\ list[id] # store[id] => id = sel' /\ \E i \in DOMAIN saves' : saves'[i].stage = "refresh"
      <3>1. list[id].n =< store[id].n
        BY <2>1, <1>0 DEF FreshInv
      <3>2. SUFFICES ASSUME list[id] # store[id]
                     PROVE  id = sel' /\ \E i \in DOMAIN saves' : saves'[i].stage = "refresh"
        BY <3>1
      <3>3. id = sel /\ \E i \in DOMAIN saves : saves[i].stage = "refresh"
        BY <2>1, <3>2, <1>0 DEF FreshInv
      <3>4. id # Draft
        BY Numbers
      <3>5. PICK i \in DOMAIN saves : saves[i].stage = "refresh"
        BY <3>3
      <3>6. i # k
        BY <3>5, <1>3 DEF s
      <3>7. QED BY <3>3, <3>4, <3>5, <3>6, <1>4, <1>5, <1>8
    <2>2. ASSUME nav # NoNav, nav.to # Draft
          PROVE  /\ nav.to \in DOMAIN list /\ nav.text = store[nav.to] /\ nav.to \notin {sel', creating'}
      <3>1. /\ nav.to \in DOMAIN list /\ nav.text = store[nav.to] /\ nav.to \notin {sel, creating}
        BY <2>2, <1>0 DEF FreshInv
      <3>2. nav.to \in Notes /\ Off \notin Notes
        BY <3>1, Numbers
      <3>3. QED BY <3>1, <3>2, <1>4, <1>5, <1>7
    <2>3. QED BY <2>1, <2>2, <1>3, <1>5 DEF FreshInv
  <1>18. QED BY <1>3, <1>4, <1>5, <1>14, <1>15, <1>16, <1>17 DEF SavingInv, s

\* A save at its check ends.
LEMMA EndSaves ==
  ASSUME EditorInv, SavingInv, NEW k \in DOMAIN saves, saves[k].stage = "check",
         Finished(saves[k].no),
         UNCHANGED <<store, list, sel, value, timer, creating, nav, phase, keys>>
  PROVE  SavingInv'
  <1>0. SaveType /\ NumbersInv /\ ScreenInv /\ WrittenInv /\ QuietInv /\ FreshInv
    BY DEF EditorInv, SavingInv
  <1>1. /\ DOMAIN saves = 1 .. Len(saves) /\ DOMAIN saves' = 1 .. Len(saves) - 1
        /\ Len(saves) \in Nat
        /\ \A i \in 1 .. Len(saves) - 1 : saves'[i] = IF i < k THEN saves[i] ELSE saves[i + 1]
        /\ \A i \in DOMAIN saves' : \E j \in DOMAIN saves : j # k /\ saves'[i] = saves[j]
    BY <1>0, SaveGone
  <1>2. \A i \in DOMAIN saves : i # k => \E j \in DOMAIN saves' : saves'[j] = saves[i]
    BY <1>0, SaveGone
  <1>3. Notes' = Notes
    BY DEF Notes
  <1>4. \A i, j \in DOMAIN saves' : i < j => saves'[i].text.n < saves'[j].text.n
    <2>1. SUFFICES ASSUME NEW i \in DOMAIN saves', NEW j \in DOMAIN saves', i < j
                   PROVE  saves'[i].text.n < saves'[j].text.n
      OBVIOUS
    <2>2. \A a, b \in DOMAIN saves : a < b => saves[a].text.n < saves[b].text.n
      BY <1>0 DEF ScreenInv
    <2>3. CASE j < k
      BY <2>1, <2>2, <2>3, <1>1
    <2>4. CASE ~(j < k) /\ i < k
      <3>1. saves'[i] = saves[i] /\ saves'[j] = saves[j + 1] /\ i < j + 1 /\ j + 1 \in DOMAIN saves
            /\ i \in DOMAIN saves
        BY <2>1, <2>4, <1>1
      <3>2. QED BY <3>1, <2>2
    <2>5. CASE ~(j < k) /\ ~(i < k)
      <3>1. saves'[i] = saves[i + 1] /\ saves'[j] = saves[j + 1] /\ i + 1 < j + 1 /\ j + 1 \in DOMAIN saves
            /\ i + 1 \in DOMAIN saves
        BY <2>1, <2>5, <1>1
      <3>2. QED BY <3>1, <2>2
    <2>6. QED BY <2>3, <2>4, <2>5
  <1>5. ScreenInv'
    <2>1. /\ value'.n =< keys' /\ \A id \in Notes' : store'[id].n =< keys'
          /\ sel' # Draft => store'[sel'].n =< value'.n /\ (timer' # Off => store'[sel'].n < value'.n)
      BY <1>0, <1>3 DEF ScreenInv
    <2>2. timer' # Off => value'.n > 0 /\ \A i \in DOMAIN saves' : saves'[i].text.n < value'.n
      BY <1>0, <1>1 DEF ScreenInv
    <2>3. \A i \in DOMAIN saves' :
            /\ 0 < saves'[i].text.n /\ saves'[i].text.n =< value'.n
            /\ IF saves'[i].note = Draft
               THEN saves'[i].made # Off /\ saves'[i].stage \in {"create", "remember"}
               ELSE saves'[i].note = sel' /\ saves'[i].stage \notin {"create", "remember"}
      <3>1. SUFFICES ASSUME NEW i \in DOMAIN saves'
                     PROVE /\ 0 < saves'[i].text.n /\ saves'[i].text.n =< value'.n
                           /\ IF saves'[i].note = Draft
                              THEN saves'[i].made # Off /\ saves'[i].stage \in {"create", "remember"}
                              ELSE saves'[i].note = sel' /\ saves'[i].stage \notin {"create", "remember"}
        OBVIOUS
      <3>2. PICK j \in DOMAIN saves : saves'[i] = saves[j]
        BY <1>1
      <3>3. QED BY <3>2, <1>0 DEF ScreenInv
    <2>4. QED BY <2>1, <2>2, <2>3, <1>4 DEF ScreenInv
  <1>6. WrittenInv'
    BY <1>0, <1>1 DEF WrittenInv, Target
  <1>7. QuietInv'
    <2>1. Storing => Storing'
      BY <1>2 DEF Storing, Unwritten
    <2>2. QED BY <2>1, <1>0 DEF QuietInv
  <1>8. FreshInv'
    <2>1. (\E i \in DOMAIN saves : saves[i].stage = "refresh") => \E i \in DOMAIN saves' : saves'[i].stage = "refresh"
      BY <1>2
    <2>2. QED BY <2>1, <1>0 DEF FreshInv
  <1>9. QED BY <1>5, <1>6, <1>7, <1>8 DEF SavingInv

\* With no save under way and no switch that awaits one: what is left to show.
LEMMA NothingUnderWay ==
  ASSUME EditorInv', saves' = <<>>, timer' = Off, nav' = NoNav,
         phase' # "closed" => \A id \in DOMAIN list' : list'[id] = store'[id],
         value'.n =< keys', \A id \in Notes' : store'[id].n =< keys',
         sel' # Draft => store'[sel'].n =< value'.n,
         phase' \in {"clearing", "open"} => IF sel' = Draft THEN value'.n = 0 ELSE store'[sel'] = value'
  PROVE  SavingInv'
  <1> USE DEF Draft, Off
  <1>1. DOMAIN saves' = {}
    OBVIOUS
  <1>2. DataType' /\ CreatingInv'
    BY DEF EditorInv
  <1>3. creating' = Off
    BY <1>1, <1>2 DEF CreatingInv
  <1>4. \A id \in DOMAIN list' : id \in Notes' /\ store'[id].n \in Nat /\ id # Off
    BY <1>2 DEF DataType, Text
  <1>5. ScreenInv'
    BY <1>1 DEF ScreenInv
  <1>6. WrittenInv' /\ QuietInv'
    BY <1>1 DEF WrittenInv, QuietInv
  <1>7. FreshInv'
    <2>1. \A id \in DOMAIN list' : store'[id].n =< store'[id].n
      BY <1>4
    <2>2. QED BY <2>1, <1>3, <1>4 DEF FreshInv
  <1>8. QED BY <1>5, <1>6, <1>7 DEF SavingInv

LEMMA ListIsStore ==
  ASSUME EditorInv, SavingInv, saves = <<>>, phase # "closed"
  PROVE  \A id \in DOMAIN list : list[id] = store[id]
  <1>1. DOMAIN saves = {}
    OBVIOUS
  <1>2. QED BY <1>1 DEF SavingInv, FreshInv

LEMMA ShowSaves ==
  ASSUME EditorInv, EditorInv', SavingInv, phase = "open", timer = Off, saves = <<>>,
         NEW to, NEW text, to # Draft => to \in Notes /\ text = store[to],
         Show(to, text), UNCHANGED <<store, list, saves, phase, keys>>
  PROVE  SavingInv'
  <1> USE DEF Draft, Off
  <1>1. /\ sel' = to /\ nav' = NoNav /\ timer' = Off
        /\ value' = IF to = Draft THEN Blank(session') ELSE text
    BY DEF Show
  <1>2. Notes' = Notes /\ \A id \in DOMAIN list' : list'[id] = store'[id]
    BY ListIsStore DEF Notes
  <1>3. keys \in Nat /\ (\A id \in Notes : store[id].n \in Nat /\ store[id].n =< keys)
    BY Numbers DEF SavingInv, ScreenInv
  <1>4. IF sel' = Draft THEN value'.n = 0 ELSE sel' \in Notes /\ store'[sel'] = value'
    BY <1>1 DEF Blank
  <1>5. value'.n =< keys'
    BY <1>3, <1>4
  <1>6. sel' # Draft => store'[sel'].n =< value'.n
    BY <1>3, <1>4
  <1>7. QED BY <1>1, <1>2, <1>3, <1>4, <1>5, <1>6, NothingUnderWay

LEMMA NavigateSaves ==
  ASSUME EditorInv, EditorInv', SavingInv, NEW to \in DOMAIN list \cup {Draft}, Navigate(to), Closed
  PROVE  SavingInv'
  <1> USE DEF Draft, Off
  <1>1. /\ phase = "open" /\ nav = NoNav
        /\ to = sel /\ to # Draft => list[to] = value
        /\ UNCHANGED <<store, list, rec, acked, phase, keys>>
    BY DEF Navigate, Closed
  <1>2. to # Draft => to \in Notes
    BY Numbers
  <1>3. CASE timer = Off
    <2>1. Show(to, ListText(to)) /\ saves' = saves
      BY <1>3 DEF Navigate
    <2>2. saves = <<>>
      BY <2>1 DEF Show, Closed
    <2>3. to # Draft => to \in Notes /\ ListText(to) = store[to]
      BY <2>2, <1>1, <1>2, ListIsStore DEF ListText
    <2>4. QED BY <2>1, <2>2, <2>3, <1>1, <1>3, ShowSaves
  <1>4. CASE timer # Off
    <2>1. /\ nav' = [to |-> to, text |-> ListText(to), awaits |-> FreshNo]
          /\ StartSave(timer) /\ UNCHANGED <<sel, session, value>>
      BY <1>4 DEF Navigate
    <2>2. to # Draft => to # sel
      <3>1. SUFFICES ASSUME to # Draft, to = sel PROVE FALSE
        OBVIOUS
      <3>2. list[to] = value /\ store[to].n < value.n
        BY <3>1, <1>1, <1>4 DEF SavingInv, ScreenInv
      <3>3. list[to].n =< store[to].n
        BY <3>1, <1>1 DEF SavingInv, FreshInv
      <3>4. list[to].n \in Nat /\ store[to].n \in Nat /\ value.n \in Nat
        BY <3>1, <1>2, Numbers
      <3>5. QED BY <3>2, <3>3, <3>4
    <2>3. nav'.to = to /\ (to # Draft => to \in DOMAIN list /\ nav'.text = list[to])
      BY <2>1 DEF ListText
    <2>4. nav'.to # Draft => nav'.to \in DOMAIN list /\ nav'.text = list[nav'.to] /\ nav'.to # sel
      BY <2>2, <2>3
    <2>5. QED BY <2>1, <2>4, <1>1, <1>4, StartSaves
  <1>5. QED BY <1>3, <1>4

LEMMA ArriveSaves ==
  ASSUME EditorInv, EditorInv', SavingInv, Arrive, Closed
  PROVE  SavingInv'
  <1>1. /\ nav # NoNav /\ Show(nav.to, nav.text)
        /\ UNCHANGED <<store, list, saves, phase, keys>>
    BY DEF Arrive, store_
  <1>2. saves = <<>>
    BY <1>1 DEF Show, Closed
  <1>3. phase = "open" /\ timer = Off
    BY <1>1 DEF EditorInv, NavInv
  <1>4. nav.to # Draft => nav.to \in Notes /\ nav.text = store[nav.to]
    BY <1>1, Numbers DEF SavingInv, FreshInv
  <1>5. QED BY <1>1, <1>2, <1>3, <1>4, ShowSaves

LEMMA CloseSaves ==
  ASSUME EditorInv, EditorInv', SavingInv, Crash \/ SignOut, Closed
  PROVE  SavingInv'
  <1> USE DEF Draft, Off
  <1>1. keys \in Nat /\ \A id \in Notes : store[id].n =< keys
    BY Numbers DEF SavingInv, ScreenInv
  <1>2. sel' = Draft /\ value' = Blank(session') /\ timer' = Off /\ saves' = <<>> /\ nav' = NoNav
        /\ store' = store /\ list' = list /\ keys' = keys
    BY DEF Crash, SignOut, Closed, store_
  <1>3. value'.n = 0 /\ Notes' = Notes
    BY <1>2 DEF Blank, Notes
  <1>4. phase' # "closed" => \A id \in DOMAIN list' : list'[id] = store'[id]
    <2>1. phase' # "closed" => saves = <<>> /\ phase # "closed"
      BY DEF Crash, SignOut, Closed
    <2>2. QED BY <2>1, <1>2, ListIsStore
  <1>5. QED BY <1>1, <1>2, <1>3, <1>4, NothingUnderWay

LEMMA ReopenSaves ==
  ASSUME EditorInv, EditorInv', SavingInv, Reopen
  PROVE  SavingInv'
  <1> USE DEF Draft, Off
  <1>1. /\ phase = "closed" /\ phase' = "reading" /\ list' = store
        /\ UNCHANGED <<store, sel, value, timer, saves, nav, keys>>
    BY DEF Reopen, screen
  <1>2. saves = <<>> /\ timer = Off /\ nav = NoNav
    BY <1>1 DEF EditorInv, PhaseInv, NavInv
  <1>3. /\ value.n =< keys /\ \A id \in Notes : store[id].n =< keys
        /\ sel # Draft => store[sel].n =< value.n
    BY DEF SavingInv, ScreenInv
  <1>4. Notes' = Notes
    BY <1>1 DEF Notes
  <1>5. QED BY <1>1, <1>2, <1>3, <1>4, NothingUnderWay

LEMMA RestoreReadSaves ==
  ASSUME EditorInv, EditorInv', SavingInv, RestoreRead
  PROVE  SavingInv'
  <1> USE DEF Draft, Off
  <1>1. phase = "reading" /\ UNCHANGED <<store, list, saves, nav, keys>>
    BY DEF RestoreRead, store_
  <1>2. saves = <<>> /\ timer = Off /\ nav = NoNav
    BY <1>1 DEF EditorInv, PhaseInv, NavInv
  <1>3. Notes' = Notes /\ \A id \in DOMAIN list' : list'[id] = store'[id]
    BY <1>1, <1>2, ListIsStore DEF Notes
  <1>4. /\ value.n =< keys /\ \A id \in Notes : store[id].n =< keys
        /\ sel # Draft => store[sel].n =< value.n
        /\ keys \in Nat
    BY Numbers DEF SavingInv, ScreenInv
  <1>5. CASE NothingToRestore
    <2>1. sel' = Draft /\ value' = Blank(session') /\ timer' = Off
      BY <1>5 DEF RestoreRead
    <2>2. value'.n = 0
      BY <2>1 DEF Blank
    <2>3. QED BY <2>1, <2>2, <1>1, <1>2, <1>3, <1>4, NothingUnderWay
  <1>6. CASE ~NothingToRestore
    <2>1. phase' = "writing" /\ UNCHANGED <<sel, value, timer>>
      BY <1>6 DEF RestoreRead, screen
    <2>2. QED BY <2>1, <1>1, <1>2, <1>3, <1>4, NothingUnderWay
  <1>7. QED BY <1>5, <1>6

LEMMA RestoreWriteSaves ==
  ASSUME EditorInv, EditorInv', TypedInv, RestoreWrite
  PROVE  SavingInv'
  <1> USE DEF Draft, Off
  <1>a. PICK id : id = RestoreTarget
    OBVIOUS
  <1>1. /\ phase = "writing"
        /\ store' = [i \in Notes \cup {id} |-> IF i = id THEN rec.text ELSE store[i]]
        /\ list' = store' /\ sel' = id /\ value' = rec.text
        /\ UNCHANGED <<timer, saves, nav, keys>>
    BY <1>a DEF RestoreWrite
  <1>2. saves = <<>> /\ timer = Off /\ nav = NoNav /\ rec # None
    BY <1>1 DEF EditorInv, PhaseInv, NavInv
  <1>3. rec.text \in Text /\ rec.text.n \in Nat
    BY <1>2 DEF EditorInv, RowInv, OwnRows, Row, Text
  <1>4. rec.text.n =< keys /\ \A i \in Notes : store[i].n =< keys
    BY <1>2 DEF TypedInv, RecoveryInv, AckedInv, SavingInv, ScreenInv
  <1>5. Notes' = Notes \cup {id} /\ store'[id] = rec.text /\ \A i \in Notes : i # id => store'[i] = store[i]
    BY <1>1 DEF Notes
  <1>6. sel' # Draft
    <2>1. DataType /\ RowInv
      BY DEF EditorInv
    <2>2. QED BY <2>1, <1>a, <1>1, <1>2 DEF RestoreTarget, DataType, RowInv, OwnRows
  <1>7. /\ value'.n =< keys' /\ \A i \in Notes' : store'[i].n =< keys'
        /\ store'[sel'] = value' /\ store'[sel'].n =< value'.n
    BY <1>1, <1>3, <1>4, <1>5
  <1>8. QED BY <1>1, <1>2, <1>6, <1>7, NothingUnderWay

LEMMA RecoveryTypes ==
  ASSUME EditorInv
  PROVE  /\ \A t \in Texts : t \in Text /\ t.n \in Nat /\ t.home \in Int
         /\ \A i \in DOMAIN recq : recq[i].op = "put" =>
              /\ recq[i].row \in OwnRows /\ recq[i].row.note \in {Draft} \cup Notes
              /\ recq[i].row.text \in Text /\ recq[i].row.text.n \in Nat
              /\ recq[i].row.text.home \in Int /\ recq[i].row.text \in Texts
         /\ acked \subseteq Texts
         /\ rec # None => /\ rec.note \in {Draft} \cup Notes /\ rec.text \in Text
                          /\ rec.text.n \in Nat
         /\ DOMAIN recq = 1 .. Len(recq) /\ Len(recq) \in Nat
         /\ session \in Nat \ {0} /\ keys \in Nat /\ value.n \in Nat
  <1>0. ScreenType /\ PutsInv /\ RowInv /\ QueueType
    BY DEF EditorInv
  <1>1. \A row \in OwnRows : /\ row.note \in {Draft} \cup Notes /\ row.text \in Text
                             /\ row.text.n \in Nat /\ row.text.home \in Int
    BY DEF OwnRows, Row, Text
  <1>2. ASSUME NEW i \in DOMAIN recq, recq[i].op = "put"
        PROVE  /\ recq[i].row \in OwnRows /\ recq[i].row.note \in {Draft} \cup Notes
               /\ recq[i].row.text \in Text /\ recq[i].row.text.n \in Nat
               /\ recq[i].row.text.home \in Int /\ recq[i].row.text \in Texts
    BY <1>2, <1>0, <1>1 DEF PutsInv, Texts
  <1>3. \A t \in acked : t \in Text /\ t.n \in Nat /\ t.home \in Int
    BY <1>0 DEF ScreenType, Text
  <1>4. \A t \in Texts : t \in Text /\ t.n \in Nat /\ t.home \in Int
    BY <1>2, <1>3 DEF Texts
  <1>5. acked \subseteq Texts
    BY DEF Texts
  <1>6. rec # None => rec.note \in {Draft} \cup Notes /\ rec.text \in Text /\ rec.text.n \in Nat
    BY <1>0, <1>1 DEF RowInv
  <1>7. /\ DOMAIN recq = 1 .. Len(recq) /\ Len(recq) \in Nat
        /\ session \in Nat \ {0} /\ keys \in Nat /\ value.n \in Nat
    BY <1>0 DEF QueueType, ScreenType, Text
  <1>8. QED BY <1>2, <1>4, <1>5, <1>6, <1>7

\* A text on its way to the row was typed, and its number is not zero.
LEMMA TextsTyped ==
  ASSUME EditorInv, RecoveryInv
  PROVE  \A t \in Texts : 0 < t.n /\ t.n =< keys
  BY DEF RecoveryInv, AckedInv, PutInv, Texts

\* No note goes, changes its owner or gets an older text.
NotesStay == \A id \in Notes :
  id \in Notes' /\ born'[id] = born[id] /\ store'[id].n >= store[id].n

LEMMA NotesSame ==
  ASSUME EditorInv, UNCHANGED <<store, born>>
  PROVE  NotesStay
  <1>1. \A id \in Notes : store[id].n \in Nat
    BY Numbers
  <1>2. QED BY <1>1 DEF NotesStay, Notes

LEMMA TextsStay ==
  ASSUME EditorInv, EditorInv', NotesStay
  PROVE  KeptTexts \subseteq KeptTexts' /\ (rec' = rec => HeldTexts \subseteq HeldTexts')
  <1>1. \A t : \A id \in Notes : Own(id, t) => Own(id, t)'
    BY DEF Own, NotesStay
  <1>2. KeptTexts \subseteq KeptTexts'
    <2>1. SUFFICES ASSUME NEW t \in Text, NEW id \in Notes, Own(id, t), store[id].n >= t.n
                   PROVE  t \in KeptTexts'
      BY DEF KeptTexts
    <2>2. id \in Notes' /\ Own(id, t)' /\ store'[id].n >= store[id].n
      BY <2>1, <1>1 DEF NotesStay
    <2>3. store[id].n \in Nat /\ t.n \in Nat /\ store'[id].n \in Nat
      BY <2>1, <2>2, Numbers DEF Text, EditorInv, DataType
    <2>4. QED BY <2>1, <2>2, <2>3 DEF KeptTexts
  <1>3. rec' = rec => HeldTexts \subseteq HeldTexts'
    <2>1. rec # None => rec.note \in {Draft} \cup Notes
      BY RecoveryTypes
    <2>2. QED BY <2>1, <1>1 DEF HeldTexts
  <1>4. QED BY <1>2, <1>3

\* What was typed since the switch stays on screen: also when the draft on
\* screen becomes the note its save has created.
LEMMA SinceStays ==
  ASSUME EditorInv, EditorInv', NotesStay, Texts' \subseteq Texts, UNCHANGED <<session, value>>,
         sel' = sel \/ (sel = Draft /\ sel' = creating /\ creating \in Notes),
         sel' = Draft => creating' = creating \/ creating = Off,
         \A i \in DOMAIN recq' : recq'[i].op = "put" =>
           \/ \E j \in DOMAIN recq : recq'[i] = recq[j]
           \/ recq'[i].row.note # Draft /\ recq'[i].row.note = IF sel = Draft THEN creating ELSE sel
  PROVE  \A b \in Nat : Since(b) => Since(b)'
  <1> USE DEF Draft, Off
  <1>0. /\ ScreenType /\ DataType /\ CreatingInv /\ PutsInv /\ DataType' /\ PutsInv'
        /\ \A t \in Texts : t \in Text
    BY RecoveryTypes DEF EditorInv
  <1>1. SUFFICES ASSUME NEW b \in Nat, Since(b) PROVE Since(b)'
    OBVIOUS
  <1>2. KeptTexts \subseteq KeptTexts'
    BY TextsStay
  <1>3. ShownTexts \subseteq ShownTexts'
    <2>1. SUFFICES ASSUME NEW t \in ShownTexts PROVE t \in ShownTexts'
      OBVIOUS
    <2>2. t \in Text /\ IF sel = Draft THEN t.home = -session ELSE t.home \in {sel, born[sel]}
      BY DEF ShownTexts, Own
    <2>3. CASE sel' = sel /\ sel = Draft
      BY <2>2, <2>3 DEF ShownTexts
    <2>4. CASE sel' = sel /\ sel # Draft
      <3>1. born'[sel] = born[sel]
        BY <2>4, <1>0 DEF NotesStay, ScreenType
      <3>2. QED BY <2>2, <2>4, <3>1 DEF ShownTexts, Own
    <2>5. CASE sel' # sel
      <3>1. sel = Draft /\ sel' = creating /\ creating \in Notes /\ creating # Off /\ creating # Draft
        BY <2>5, <1>0 DEF DataType
      <3>2. born'[creating] = -session
        BY <3>1, <1>0 DEF CreatingInv, NotesStay
      <3>3. QED BY <2>2, <3>1, <3>2 DEF ShownTexts, Own
    <2>6. QED BY <2>3, <2>4, <2>5
  <1>4. \A t \in Texts' : t.n > b => t \in ShownTexts' /\ t.n =< value'.n
    BY <1>1, <1>3 DEF Since
  <1>5. \A t \in Texts' : t.n =< b => t \in KeptTexts'
    BY <1>1, <1>2 DEF Since
  <1>6. \A t, u \in Texts' : b < t.n /\ t.n =< u.n /\ u.home < 0 => t.home < 0
    BY <1>1 DEF Since
  <1>7. ASSUME NEW i \in DOMAIN recq', recq'[i].op = "put", recq'[i].row.text.n > b
        PROVE  IF recq'[i].row.note = Draft THEN recq'[i].row.text.home = -session'
               ELSE recq'[i].row.note = IF sel' = Draft THEN creating' ELSE sel'
    <2>1. IF recq'[i].row.note = Draft THEN recq'[i].row.text.home = -session
          ELSE recq'[i].row.note = IF sel = Draft THEN creating ELSE sel
      <3>1. CASE \E j \in DOMAIN recq : recq'[i] = recq[j]
        BY <3>1, <1>1, <1>7 DEF Since
      <3>2. CASE ~\E j \in DOMAIN recq : recq'[i] = recq[j]
        BY <3>2, <1>7
      <3>3. QED BY <3>1, <3>2
    <2>2. recq'[i].row.note = Draft \/ recq'[i].row.note \in Notes'
      BY <1>0, <1>7 DEF PutsInv, OwnRows
    <2>3. recq'[i].row.note # Off
      BY <2>2, <1>0 DEF DataType
    <2>4. QED BY <2>1, <2>3, <1>0 DEF DataType
  <1>8. QED BY <1>4, <1>5, <1>6, <1>7 DEF Since

\* Reads that wait for their save change nothing.
LEMMA ReadsAdded ==
  ASSUME EditorInv, EditorInv', RecoveryInv, NotesStay,
         UNCHANGED <<sel, session, value, rec, acked, keys, phase>>,
         sel = Draft => creating' = creating \/ creating = Off,
         \A i \in DOMAIN recq : i \in DOMAIN recq' /\ recq'[i] = recq[i],
         \A i \in DOMAIN recq' : i \in DOMAIN recq \/ (recq'[i].op = "read" /\ recq'[i].by # 0)
  PROVE  RecoveryInv'
  <1>0. AckedInv /\ PutInv /\ QueueOrderInv /\ SinceInv /\ HeldInv /\ DeleteInv
    BY DEF RecoveryInv
  <1>1. \A i \in DOMAIN recq' : recq'[i].op # "read" => i \in DOMAIN recq /\ recq'[i] = recq[i]
    OBVIOUS
  <1>2. \A i \in DOMAIN recq' : recq'[i].op = "put" => i \in DOMAIN recq /\ recq'[i] = recq[i]
    BY <1>1
  <1>3. Texts' \subseteq Texts
    BY <1>2 DEF Texts
  <1>4. KeptTexts \subseteq KeptTexts' /\ HeldTexts \subseteq HeldTexts'
    BY TextsStay
  <1>5. AckedInv' /\ PutInv'
    BY <1>0, <1>2 DEF AckedInv, PutInv
  <1>6. QueueOrderInv'
    <2>1. SUFFICES ASSUME NEW i \in DOMAIN recq', NEW j \in DOMAIN recq', i < j, recq'[j].op = "put"
                   PROVE  /\ recq'[i].op = "put" => recq'[i].row.text.n =< recq'[j].row.text.n
                          /\ recq'[i].op = "read" => recq'[j].by # 0
      BY DEF QueueOrderInv
    <2>2. j \in DOMAIN recq /\ recq'[j] = recq[j]
      BY <2>1, <1>2
    <2>3. i \in DOMAIN recq
      <3>1. DOMAIN recq = 1 .. Len(recq) /\ Len(recq) \in Nat
        BY RecoveryTypes
      <3>2. i \in Nat \ {0}
        BY DEF EditorInv, QueueType
      <3>3. QED BY <3>1, <3>2, <2>1, <2>2
    <2>4. QED BY <2>1, <2>2, <2>3, <1>0 DEF QueueOrderInv
  <1>7. SinceInv'
    <2>1. CASE phase = "open"
      <3>1. PICK b \in Nat : b =< keys /\ Since(b)
        BY <2>1, <1>0 DEF SinceInv
      <3>2. Since(b)'
        BY <3>1, <1>2, <1>3, SinceStays
      <3>3. QED BY <2>1, <3>1, <3>2 DEF SinceInv
    <2>2. CASE phase # "open"
      BY <2>2, <1>0, <1>4 DEF SinceInv
    <2>3. QED BY <2>1, <2>2
  <1>8. HeldInv'
    BY <1>0, <1>4 DEF HeldInv
  <1>9. DeleteInv'
    <2>1. SUFFICES ASSUME NEW i \in DOMAIN recq', recq'[i].op = "delete"
                   PROVE  /\ acked \subseteq KeptTexts'
                          /\ \A j \in DOMAIN recq' : j < i /\ recq'[j].op = "put" => recq'[j].row.text \in KeptTexts'
      BY DEF DeleteInv
    <2>2. i \in DOMAIN recq /\ recq[i].op = "delete"
      BY <2>1, <1>1
    <2>3. QED BY <2>2, <1>0, <1>2, <1>4 DEF DeleteInv
  <1>10. QED BY <1>5, <1>6, <1>7, <1>8, <1>9 DEF RecoveryInv

\* The first operation has run and left the row, or deleted it.
LEMMA TailRecovers ==
  ASSUME EditorInv, EditorInv', RecoveryInv, NotesStay, recq # <<>>, recq' = Tail(recq),
         UNCHANGED <<session, value, acked, keys, phase>>,
         rec' = rec \/ (rec' = None /\ acked \subseteq KeptTexts),
         sel' = sel \/ (sel = Draft /\ sel' = creating /\ creating \in Notes),
         sel' = Draft => creating' = creating
  PROVE  RecoveryInv'
  <1>0. AckedInv /\ PutInv /\ QueueOrderInv /\ SinceInv /\ HeldInv /\ DeleteInv /\ QueueType
    BY DEF RecoveryInv, EditorInv
  <1>1. /\ DOMAIN recq = 1 .. Len(recq) /\ DOMAIN recq' = 1 .. Len(recq) - 1
        /\ Len(recq) \in Nat \ {0}
        /\ \A i \in 1 .. Len(recq) - 1 : recq'[i] = recq[i + 1]
    BY <1>0, OpTaken
  <1>2. \A i \in DOMAIN recq' : i + 1 \in DOMAIN recq /\ recq'[i] = recq[i + 1]
    BY <1>1
  <1>3. Texts' \subseteq Texts
    BY <1>2 DEF Texts
  <1>4. KeptTexts \subseteq KeptTexts' /\ (rec' = rec => HeldTexts \subseteq HeldTexts')
    BY TextsStay
  <1>5. AckedInv' /\ PutInv'
    BY <1>0, <1>2 DEF AckedInv, PutInv
  <1>6. \A i, j \in DOMAIN recq' : i < j => i + 1 < j + 1
    BY <1>1
  <1>7. QueueOrderInv'
    BY <1>0, <1>2, <1>6 DEF QueueOrderInv
  <1>8. SinceInv'
    <2>1. CASE phase = "open"
      <3>1. PICK b \in Nat : b =< keys /\ Since(b)
        BY <2>1, <1>0 DEF SinceInv
      <3>2. Since(b)'
        BY <3>1, <1>2, <1>3, SinceStays
      <3>3. QED BY <2>1, <3>1, <3>2 DEF SinceInv
    <2>2. CASE phase # "open"
      BY <2>2, <1>0, <1>4 DEF SinceInv
    <2>3. QED BY <2>1, <2>2
  <1>9. HeldInv'
    BY <1>0, <1>4 DEF HeldInv
  <1>10. DeleteInv'
    BY <1>0, <1>2, <1>4, <1>6 DEF DeleteInv
  <1>11. QED BY <1>5, <1>7, <1>8, <1>9, <1>10 DEF RecoveryInv

LEMMA TypeRecovers ==
  ASSUME EditorInv, EditorInv', RecoveryInv, Type, Closed
  PROVE  RecoveryInv'
  <1> USE DEF Draft, Off
  <1>0. AckedInv /\ PutInv /\ QueueOrderInv /\ SinceInv /\ HeldInv /\ DeleteInv /\ QueueType
        /\ PhaseInv /\ ScreenType /\ DataType
    BY DEF RecoveryInv, EditorInv
  <1> DEFINE o == Put(sel, value')
  <1>1. /\ phase = "open" /\ keys' = keys + 1 /\ value' = [home |-> Here, n |-> keys']
        /\ recq' = Append(recq, o)
        /\ UNCHANGED <<store, born, sel, session, creating, rec, acked, phase>>
        /\ \A i \in DOMAIN recq : recq[i].op # "read"
    BY <1>0 DEF Type, Closed, Queue, store_
  <1>2. /\ value'.n = keys + 1 /\ value' \in Text /\ keys \in Nat /\ session \in Nat \ {0}
        /\ value'.home = IF sel = Draft THEN -session ELSE sel
    BY <1>0, <1>1 DEF ScreenType, DataType, Text, Here
  <1>3. /\ o \in Operation /\ o.op = "put" /\ o.by = 0 /\ o.row.note = sel /\ o.row.text = value'
    <2>1. sel \in Nat
      BY <1>0 DEF ScreenType, DataType
    <2>2. o \in Operation
      BY <2>1, <1>2, OperationTypes
    <2>3. QED BY <2>2 DEF Put
  <1> HIDE DEF o
  <1>4. /\ DOMAIN recq = 1 .. Len(recq) /\ DOMAIN recq' = 1 .. Len(recq) + 1
        /\ Len(recq) \in Nat
        /\ \A i \in 1 .. Len(recq) : recq'[i] = recq[i]
        /\ recq'[Len(recq) + 1] = o
    BY <1>0, <1>1, <1>3, OpAdded
  <1>5. /\ \A t \in Texts : t \in Text /\ t.n \in Nat /\ t.n > 0 /\ t.n =< keys /\ t.n < keys + 1
        /\ acked \subseteq Texts
        /\ \A i \in DOMAIN recq : recq[i].op = "put" => recq[i].row.text \in Texts
    BY <1>2, RecoveryTypes, TextsTyped
  <1>6. Texts' \subseteq Texts \cup {value'}
    BY <1>1, <1>3, <1>4 DEF Texts
  <1>7. KeptTexts' = KeptTexts /\ HeldTexts' = HeldTexts /\ ShownTexts' = ShownTexts
    BY <1>1 DEF KeptTexts, HeldTexts, ShownTexts, Own, Notes
  <1>8. value' \in ShownTexts
    BY <1>2 DEF ShownTexts, Own
  <1>9. AckedInv'
    <2>1. ASSUME NEW t \in acked PROVE t.n > 0 /\ t.n =< keys + 1 /\ (rec # None => t.n =< rec.text.n)
      BY <1>0, <1>2, <1>5 DEF AckedInv
    <2>2. QED BY <2>1, <1>0, <1>1 DEF AckedInv
  <1>10. PutInv'
    <2>1. SUFFICES ASSUME NEW i \in DOMAIN recq', recq'[i].op = "put"
                   PROVE  /\ recq'[i].row.text.n > 0 /\ recq'[i].row.text.n =< keys + 1
                          /\ \A t \in acked : t.n =< recq'[i].row.text.n
                          /\ recq'[i].by # 0 => recq'[i].row.text \in acked
      BY <1>1 DEF PutInv
    <2>2. CASE i = Len(recq) + 1
      BY <2>2, <1>2, <1>3, <1>4, <1>5
    <2>3. CASE i # Len(recq) + 1
      <3>1. i \in DOMAIN recq /\ recq'[i] = recq[i]
        BY <2>3, <1>4
      <3>2. recq[i].row.text \in Texts
        BY <2>1, <3>1, <1>5
      <3>3. recq[i].row.text.n =< keys + 1
        BY <3>2, <1>2, <1>5
      <3>4. QED BY <2>1, <3>1, <3>3, <1>0 DEF PutInv
    <2>4. QED BY <2>2, <2>3
  <1>11. QueueOrderInv'
    <2>1. SUFFICES ASSUME NEW i \in DOMAIN recq', NEW j \in DOMAIN recq', i < j, recq'[j].op = "put"
                   PROVE  /\ recq'[i].op = "put" => recq'[i].row.text.n =< recq'[j].row.text.n
                          /\ recq'[i].op = "read" => recq'[j].by # 0
      BY DEF QueueOrderInv
    <2>2. i \in DOMAIN recq /\ recq'[i] = recq[i] /\ recq'[i].op # "read"
      BY <2>1, <1>1, <1>4
    <2>3. CASE j = Len(recq) + 1
      <3>1. recq'[i].op = "put" => recq[i].row.text \in Texts
        BY <2>2, <1>5
      <3>2. QED BY <2>2, <2>3, <3>1, <1>2, <1>3, <1>4, <1>5
    <2>4. CASE j # Len(recq) + 1
      BY <2>1, <2>2, <2>4, <1>0, <1>4 DEF QueueOrderInv
    <2>5. QED BY <2>3, <2>4
  <1>12. SinceInv'
    <2>1. PICK b \in Nat : b =< keys /\ Since(b)
      BY <1>0, <1>1 DEF SinceInv
    <2>2. b < value'.n /\ b =< keys'
      BY <2>1, <1>1, <1>2
    <2>3. ASSUME NEW t \in Texts', t.n > b PROVE t \in ShownTexts' /\ t.n =< value'.n
      <3>1. CASE t \in Texts
        BY <3>1, <2>1, <2>3, <1>2, <1>5, <1>7 DEF Since
      <3>2. CASE t = value'
        BY <3>2, <1>2, <1>7, <1>8
      <3>3. QED BY <3>1, <3>2, <1>6
    <2>4. ASSUME NEW t \in Texts', t.n =< b PROVE t \in KeptTexts'
      <3>1. t # value'
        BY <2>1, <2>4, <1>2
      <3>2. QED BY <2>1, <2>4, <3>1, <1>6, <1>7 DEF Since
    <2>5. ASSUME NEW t \in Texts', NEW u \in Texts', b < t.n, t.n =< u.n, u.home < 0 PROVE t.home < 0
      <3>1. CASE t \in Texts /\ u \in Texts
        BY <3>1, <2>1, <2>5 DEF Since
      <3>2. CASE t = value' /\ u \in Texts
        BY <3>2, <2>5, <1>2, <1>5
      <3>3. CASE t \in Texts /\ u = value'
        <4>1. sel = Draft
          BY <3>3, <2>5, <1>0, <1>2 DEF ScreenType, DataType
        <4>2. t \in ShownTexts
          BY <3>3, <2>1, <2>5 DEF Since
        <4>3. QED BY <4>1, <4>2, <1>2 DEF ShownTexts
      <3>4. CASE t = value' /\ u = value'
        BY <3>4, <2>5
      <3>5. QED BY <3>1, <3>2, <3>3, <3>4, <1>6
    <2>6. ASSUME NEW i \in DOMAIN recq', recq'[i].op = "put", recq'[i].row.text.n > b
          PROVE  IF recq'[i].row.note = Draft THEN recq'[i].row.text.home = -session
                 ELSE recq'[i].row.note = IF sel = Draft THEN creating ELSE sel
      <3>1. CASE i = Len(recq) + 1
        BY <3>1, <1>2, <1>3, <1>4
      <3>2. CASE i # Len(recq) + 1
        BY <3>2, <2>1, <2>6, <1>4 DEF Since
      <3>3. QED BY <3>1, <3>2
    <2>7. Since(b)'
      BY <2>3, <2>4, <2>5, <2>6, <1>1 DEF Since
    <2>8. QED BY <2>2, <2>7, <1>1 DEF SinceInv
  <1>13. HeldInv'
    BY <1>0, <1>1, <1>7 DEF HeldInv
  <1>14. DeleteInv'
    <2>1. SUFFICES ASSUME NEW i \in DOMAIN recq', recq'[i].op = "delete"
                   PROVE  /\ acked \subseteq KeptTexts
                          /\ \A j \in DOMAIN recq' : j < i /\ recq'[j].op = "put" => recq'[j].row.text \in KeptTexts
      BY <1>1, <1>7 DEF DeleteInv
    <2>2. i \in DOMAIN recq /\ recq'[i] = recq[i]
      BY <2>1, <1>3, <1>4
    <2>3. \A j \in DOMAIN recq' : j < i => j \in DOMAIN recq /\ recq'[j] = recq[j]
      BY <2>2, <1>4
    <2>4. QED BY <2>1, <2>2, <2>3, <1>0 DEF DeleteInv
  <1>15. QED BY <1>9, <1>10, <1>11, <1>12, <1>13, <1>14 DEF RecoveryInv

LEMMA PutRecovers ==
  ASSUME EditorInv, EditorInv', RecoveryInv, RecPut,
         sel' = sel \/ (sel = Draft /\ sel' = creating /\ creating \in Notes),
         sel' = Draft => creating' = creating
  PROVE  RecoveryInv'
  <1> USE DEF Draft, Off
  <1>0. AckedInv /\ PutInv /\ QueueOrderInv /\ SinceInv /\ HeldInv /\ DeleteInv /\ QueueType
        /\ PhaseInv /\ ScreenType /\ DataType /\ CreatingInv
    BY DEF RecoveryInv, EditorInv
  <1>1. /\ recq # <<>> /\ Head(recq).op = "put" /\ rec' = Head(recq).row
        /\ acked' = IF rec'.text.n = 0 THEN acked ELSE acked \cup {rec'.text}
        /\ recq' = Tail(recq)
        /\ UNCHANGED <<store, born, session, value, phase, keys>>
    BY DEF RecPut, store_
  <1>2. /\ DOMAIN recq = 1 .. Len(recq) /\ DOMAIN recq' = 1 .. Len(recq) - 1
        /\ Len(recq) \in Nat \ {0} /\ Head(recq) = recq[1] /\ recq[1] \in Operation
        /\ \A i \in 1 .. Len(recq) - 1 : recq'[i] = recq[i + 1]
    BY <1>0, <1>1, OpTaken
  <1>3. /\ \A i \in DOMAIN recq' : i + 1 \in DOMAIN recq /\ recq'[i] = recq[i + 1] /\ 1 < i + 1
        /\ \A i, j \in DOMAIN recq' : i < j => i + 1 < j + 1
        /\ 1 \in DOMAIN recq
    BY <1>2
  <1> DEFINE u == recq[1].row.text
  <1>4. /\ recq[1].op = "put" /\ rec' = recq[1].row /\ rec'.text = u
        /\ u.n > 0 /\ u.n =< keys /\ (\A t \in acked : t.n =< u.n)
        /\ u \in Text /\ u \in Texts /\ u.n \in Nat /\ acked' = acked \cup {u}
        /\ rec'.note \in {Draft} \cup Notes /\ rec' # None
    <2>1. recq[1].op = "put" /\ rec' = recq[1].row
      BY <1>1, <1>2
    <2>2. /\ u.n > 0 /\ u.n =< keys /\ (\A t \in acked : t.n =< u.n)
      BY <2>1, <1>0, <1>3 DEF PutInv
    <2>3. u \in Text /\ u \in Texts /\ u.n \in Nat /\ recq[1].row.note \in {Draft} \cup Notes
      BY <2>1, <1>3, RecoveryTypes
    <2>4. None.note # recq[1].row.note
      BY <2>3, <1>0 DEF None, DataType
    <2>5. QED BY <2>1, <2>2, <2>3, <2>4, <1>1
  <1> HIDE DEF u
  <1>5. /\ \A t \in Texts : t \in Text /\ t.n \in Nat /\ t.home \in Int
        /\ acked \subseteq Texts
    BY RecoveryTypes
  <1>6. phase = "open"
    <2>1. Read(Restorer).op = "read" /\ Delete(Restorer).op = "delete"
      BY DEF Read, Delete
    <2>2. phase \notin {"closed", "writing", "reading", "clearing"}
      BY <2>1, <1>0, <1>1 DEF PhaseInv
    <2>3. QED BY <2>2, <1>0 DEF ScreenType
  <1>7. Texts' \subseteq Texts
    BY <1>3, <1>4 DEF Texts
  <1>8. NotesStay
    BY <1>1, NotesSame
  <1>9. KeptTexts' = KeptTexts
    BY <1>1 DEF KeptTexts, Own, Notes
  <1>10. PICK b \in Nat : b =< keys /\ Since(b)
    BY <1>0, <1>6 DEF SinceInv
  <1>11. AckedInv'
    <2>1. \A t \in acked' : t.n > 0 /\ t.n =< keys /\ t.n =< rec'.text.n
      BY <1>0, <1>4 DEF AckedInv
    <2>2. QED BY <2>1, <1>1, <1>4 DEF AckedInv
  <1>12. PutInv'
    <2>1. SUFFICES ASSUME NEW i \in DOMAIN recq', recq'[i].op = "put"
                   PROVE  /\ recq'[i].row.text.n > 0 /\ recq'[i].row.text.n =< keys
                          /\ \A t \in acked' : t.n =< recq'[i].row.text.n
                          /\ recq'[i].by # 0 => recq'[i].row.text \in acked'
      BY <1>1 DEF PutInv
    <2>2. u.n =< recq'[i].row.text.n
      BY <2>1, <1>0, <1>3, <1>4 DEF QueueOrderInv, u
    <2>3. /\ recq'[i].row.text.n > 0 /\ recq'[i].row.text.n =< keys
          /\ \A t \in acked : t.n =< recq'[i].row.text.n
          /\ recq'[i].by # 0 => recq'[i].row.text \in acked
      BY <2>1, <1>0, <1>3 DEF PutInv
    <2>4. QED BY <2>2, <2>3, <1>4
  <1>13. QueueOrderInv'
    BY <1>0, <1>3 DEF QueueOrderInv
  <1>14. SinceInv'
    <2>1. Since(b)'
      BY <1>1, <1>3, <1>7, <1>8, <1>10, SinceStays
    <2>2. QED BY <2>1, <1>1, <1>6, <1>10 DEF SinceInv
  <1>15. HeldInv'
    <2>1. SUFFICES ASSUME NEW t \in acked', t \notin KeptTexts PROVE t \in HeldTexts'
      BY <1>9 DEF HeldInv
    <2>2. t \in Texts /\ t \in Text /\ t.n \in Nat /\ t.n =< u.n
      BY <2>1, <1>4, <1>5
    <2>3. b < t.n
      BY <2>1, <2>2, <1>10 DEF Since
    <2>4. t \in ShownTexts /\ u \in ShownTexts /\ (u.home < 0 => t.home < 0)
      BY <2>2, <2>3, <1>4, <1>10 DEF Since
    <2>5. IF rec'.note = Draft THEN u.home = -session
          ELSE rec'.note = IF sel = Draft THEN creating ELSE sel
      <3>1. u.n > b
        BY <2>2, <2>3, <1>4
      <3>2. QED BY <3>1, <1>3, <1>4, <1>10 DEF Since, u
    <2>6. session \in Nat \ {0} /\ sel \in Notes \cup {Draft} /\ Notes \subseteq Nat \ {0}
      BY <1>0 DEF ScreenType, DataType
    <2>7. CASE rec'.note = Draft
      <3>1. u.home = -session /\ u.home < 0 /\ t.home < 0
        BY <2>4, <2>5, <2>6, <2>7
      <3>2. t.home = u.home
        <4>1. CASE sel = Draft
          BY <4>1, <3>1, <2>4 DEF ShownTexts
        <4>2. CASE sel # Draft
          <5>1. t.home \in {sel, born[sel]} /\ u.home \in {sel, born[sel]} /\ sel > 0
            BY <4>2, <2>4, <2>6 DEF ShownTexts, Own
          <5>2. QED BY <5>1, <3>1, <2>6, <4>2
        <4>3. QED BY <4>1, <4>2
      <3>3. QED BY <2>2, <2>7, <3>2, <1>4 DEF HeldTexts
    <2>8. CASE rec'.note # Draft
      <3>1. Own(rec'.note, t)
        <4>1. CASE sel = Draft
          <5>1. rec'.note = creating /\ creating # Off /\ t.home = -session
            BY <4>1, <2>4, <2>5, <2>6, <2>8, <1>4 DEF ShownTexts
          <5>2. QED BY <5>1, <1>0 DEF CreatingInv, Own
        <4>2. CASE sel # Draft
          BY <4>2, <2>4, <2>5, <2>8 DEF ShownTexts
        <4>3. QED BY <4>1, <4>2
      <3>2. t.home \in {rec'.note, born'[rec'.note]}
        BY <3>1, <1>1 DEF Own
      <3>3. QED BY <2>2, <2>8, <3>2, <1>4 DEF HeldTexts, Own
    <2>9. QED BY <2>7, <2>8
  <1>16. DeleteInv'
    <2>1. SUFFICES ASSUME NEW i \in DOMAIN recq', recq'[i].op = "delete"
                   PROVE  /\ acked' \subseteq KeptTexts
                          /\ \A j \in DOMAIN recq' : j < i /\ recq'[j].op = "put" => recq'[j].row.text \in KeptTexts
      BY <1>9 DEF DeleteInv
    <2>2. acked \subseteq KeptTexts /\ u \in KeptTexts
      BY <2>1, <1>0, <1>3, <1>4 DEF DeleteInv, u
    <2>3. QED BY <2>1, <2>2, <1>0, <1>3, <1>4 DEF DeleteInv
  <1>17. QED BY <1>11, <1>12, <1>13, <1>14, <1>15, <1>16 DEF RecoveryInv

\* A save that waits for the queue, and what it adopts.
LEMMA RememberRecovers ==
  ASSUME EditorInv, EditorInv', TypedInv, NEW s \in Range(saves), RecRemember(s)
  PROVE  TypedInv'
  <1> USE DEF Draft, Off
  <1>0. /\ AckedInv /\ PutInv /\ QueueOrderInv /\ SinceInv /\ HeldInv /\ DeleteInv /\ QueueType
        /\ RecoveryInv /\ SavingInv /\ DraftInv /\ SavesInv /\ DataType
    BY DEF TypedInv, RecoveryInv, EditorInv
  <1>1. /\ recq # <<>> /\ Head(recq) = Read(s.no) /\ s.stage = "remember"
        /\ UNCHANGED <<store, born, list, session, value, timer, nav, rec, acked, phase, keys>>
    BY DEF RecRemember, store_
  <1>2. PICK k \in DOMAIN saves : saves[k] = s
    BY <1>1, ReadFacts
  <1>3. /\ s \in SaveRecord /\ s \in OwnSaves /\ s.no \in Nat \ {0} /\ phase = "open"
        /\ Head(recq) = recq[1] /\ 1 \in DOMAIN recq
    BY <1>1, ReadFacts
  <1>4. s.made \in Notes /\ s.made # Off /\ s.made # Draft
    BY <1>0, <1>1, <1>3 DEF OwnSaves, DataType
  <1>5. NotesStay
    BY <1>1, NotesSame
  <1>6. CASE ~RowIs(Draft, s.text)
    <2>1. recq' = Tail(recq) /\ Adopt(s)
      BY <1>6 DEF RecRemember
    <2>2. /\ SavingInv' /\ sel' \in Notes /\ sel' # Draft
          /\ sel = sel' \/ (sel = Draft /\ creating = sel' /\ creating # Off)
      BY <2>1, <1>0, <1>1, <1>2, AdoptSaves
    <2>3. RecoveryInv'
      BY <2>1, <2>2, <1>0, <1>1, <1>5, TailRecovers
    <2>4. QED BY <2>2, <2>3 DEF TypedInv
  <1>7. CASE RowIs(Draft, s.text)
    <2> DEFINE o == [Put(s.made, s.text) EXCEPT !.by = s.no]
    <2>1. recq' = Append(Tail(recq), o) /\ UNCHANGED <<saves, sel, creating>>
      BY <1>7 DEF RecRemember
    <2>2. /\ o.op = "put" /\ o.by = s.no /\ o.row = [note |-> s.made, text |-> s.text]
          /\ o.row.note = s.made /\ o.row.text = s.text
      BY DEF Put
    <2>3. o \in Operation
      BY <1>3, <1>4, <2>2 DEF Operation, Row, SaveRecord, Put
    <2> HIDE DEF o
    <2>4. /\ DOMAIN recq = 1 .. Len(recq) /\ DOMAIN recq' = 1 .. Len(recq)
          /\ Len(recq) \in Nat \ {0}
          /\ \A i \in 1 .. Len(recq) - 1 : recq'[i] = recq[i + 1]
          /\ recq'[Len(recq)] = o
      BY <2>1, <2>3, <1>0, <1>1, OpReplaced
    <2>5. /\ \A i \in DOMAIN recq' : \/ i = Len(recq) /\ recq'[i] = o
                                     \/ i + 1 \in DOMAIN recq /\ recq'[i] = recq[i + 1] /\ 1 < i + 1
          /\ \A i, j \in DOMAIN recq' : i < j => /\ i + 1 < j + 1 /\ i + 1 \in DOMAIN recq
                                                 /\ recq'[i] = recq[i + 1] /\ 1 < i + 1
      BY <2>4
    <2>6. rec.text = s.text /\ rec # None /\ rec.text \in acked
      <3>1. rec.text = s.text /\ rec.note = Draft
        BY <1>7 DEF RowIs
      <3>2. rec # None
        BY <3>1 DEF None
      <3>3. QED BY <3>1, <3>2, <1>0 DEF AckedInv
    <2>7. s.text \in acked /\ s.text.n > 0 /\ s.text.n =< keys /\ \A t \in acked : t.n =< s.text.n
      BY <2>6, <1>0 DEF AckedInv
    <2>8. recq[1].op = "read"
      BY <1>1, <1>3 DEF Read
    <2>9. \A i \in DOMAIN recq : 1 < i /\ recq[i].op = "put" => recq[i].row.text \in acked
      BY <2>8, <1>0, <1>3 DEF QueueOrderInv, PutInv
    <2>10. Texts' \subseteq Texts
      BY <2>2, <2>5, <2>7, <1>1 DEF Texts
    <2>11. KeptTexts' = KeptTexts /\ HeldTexts' = HeldTexts
      BY <1>1 DEF KeptTexts, HeldTexts, Own, Notes
    <2>12. AckedInv' /\ HeldInv'
      BY <2>11, <1>0, <1>1 DEF AckedInv, HeldInv
    <2>13. PutInv'
      <3>1. SUFFICES ASSUME NEW i \in DOMAIN recq', recq'[i].op = "put"
                     PROVE  /\ recq'[i].row.text.n > 0 /\ recq'[i].row.text.n =< keys
                            /\ \A t \in acked : t.n =< recq'[i].row.text.n
                            /\ recq'[i].by # 0 => recq'[i].row.text \in acked
        BY <1>1 DEF PutInv
      <3>2. CASE recq'[i] = o
        BY <3>2, <2>2, <2>7
      <3>3. CASE recq'[i] # o
        BY <3>1, <3>3, <2>5, <1>0 DEF PutInv
      <3>4. QED BY <3>2, <3>3
    <2>14. QueueOrderInv'
      <3>1. SUFFICES ASSUME NEW i \in DOMAIN recq', NEW j \in DOMAIN recq', i < j, recq'[j].op = "put"
                     PROVE  /\ recq'[i].op = "put" => recq'[i].row.text.n =< recq'[j].row.text.n
                            /\ recq'[i].op = "read" => recq'[j].by # 0
        BY DEF QueueOrderInv
      <3>2. i + 1 \in DOMAIN recq /\ recq'[i] = recq[i + 1] /\ 1 < i + 1 /\ i + 1 < j + 1
        BY <3>1, <2>5
      <3>3. CASE recq'[j] = o
        BY <3>2, <3>3, <2>2, <2>7, <2>9, <1>3
      <3>4. CASE recq'[j] # o
        BY <3>1, <3>2, <3>4, <2>5, <1>0 DEF QueueOrderInv
      <3>5. QED BY <3>3, <3>4
    <2>15. SinceInv'
      <3>1. PICK b \in Nat : b =< keys /\ Since(b)
        BY <1>0, <1>3 DEF SinceInv
      <3>2. o.row.note # Draft /\ o.row.note = IF sel = Draft THEN creating ELSE sel
        BY <2>2, <1>0, <1>2, <1>4 DEF DraftInv
      <3>3. \A i \in DOMAIN recq' : recq'[i].op = "put" =>
              \/ \E j \in DOMAIN recq : recq'[i] = recq[j]
              \/ recq'[i].row.note # Draft /\ recq'[i].row.note = IF sel = Draft THEN creating ELSE sel
        BY <3>2, <2>5
      <3>4. Since(b)'
        BY <3>1, <3>3, <2>1, <2>10, <1>1, <1>5, SinceStays
      <3>5. QED BY <3>1, <3>4, <1>1, <1>3 DEF SinceInv
    <2>16. DeleteInv'
      <3>1. SUFFICES ASSUME NEW i \in DOMAIN recq', recq'[i].op = "delete"
                     PROVE  /\ acked \subseteq KeptTexts
                            /\ \A j \in DOMAIN recq' : j < i /\ recq'[j].op = "put" => recq'[j].row.text \in KeptTexts
        BY <2>11, <1>1 DEF DeleteInv
      <3>2. i + 1 \in DOMAIN recq /\ recq'[i] = recq[i + 1]
        BY <3>1, <2>2, <2>5
      <3>3. QED BY <3>1, <3>2, <2>5, <1>0 DEF DeleteInv
    <2>17. SavingInv'
      BY <2>1, <1>0, <1>1, SavingSame
    <2>18. QED BY <2>12, <2>13, <2>14, <2>15, <2>16, <2>17 DEF TypedInv, RecoveryInv
  <1>8. QED BY <1>6, <1>7

\* The row a save checks is the last text typed and the save has stored it.
LEMMA CheckRecovers ==
  ASSUME EditorInv, EditorInv', TypedInv, NEW s \in Range(saves), RecCheck(s)
  PROVE  TypedInv'
  <1> USE DEF Draft, Off
  <1>0. /\ AckedInv /\ PutInv /\ QueueOrderInv /\ SinceInv /\ HeldInv /\ DeleteInv /\ QueueType
        /\ RecoveryInv /\ SavingInv /\ ScreenInv /\ WrittenInv /\ DataType
    BY DEF TypedInv, RecoveryInv, SavingInv, EditorInv
  <1>1. /\ recq # <<>> /\ Head(recq) = Read(s.no) /\ s.stage = "check"
        /\ UNCHANGED <<store, born, list, sel, session, value, timer, creating, nav, rec, acked,
                       phase, keys>>
    BY DEF RecCheck, store_, screen
  <1>2. PICK k \in DOMAIN saves : saves[k] = s
    BY <1>1, ReadFacts
  <1>3. /\ s \in SaveRecord /\ s.no \in Nat \ {0} /\ phase = "open"
        /\ Head(recq) = recq[1] /\ 1 \in DOMAIN recq
    BY <1>1, ReadFacts
  <1>4. NotesStay
    BY <1>1, NotesSame
  <1>5. CASE ~RowIs(s.note, s.text)
    <2>1. recq' = Tail(recq) /\ Finished(s.no)
      BY <1>5 DEF RecCheck
    <2>2. SavingInv'
      BY <2>1, <1>0, <1>1, <1>2, EndSaves
    <2>3. RecoveryInv'
      BY <2>1, <1>0, <1>1, <1>4, TailRecovers
    <2>4. QED BY <2>2, <2>3 DEF TypedInv
  <1>6. CASE RowIs(s.note, s.text)
    <2> DEFINE o == Delete(s.no)
    <2>1. recq' = Append(Tail(recq), o) /\ UNCHANGED saves
      BY <1>6 DEF RecCheck
    <2>2. o.op = "delete" /\ o \in Operation
      BY <1>3, OperationTypes DEF Delete
    <2> HIDE DEF o
    <2>3. /\ DOMAIN recq = 1 .. Len(recq) /\ DOMAIN recq' = 1 .. Len(recq)
          /\ Len(recq) \in Nat \ {0}
          /\ \A i \in 1 .. Len(recq) - 1 : recq'[i] = recq[i + 1]
          /\ recq'[Len(recq)] = o
      BY <2>1, <2>2, <1>0, <1>1, OpReplaced
    <2>4. /\ \A i \in DOMAIN recq' : \/ i = Len(recq) /\ recq'[i] = o
                                     \/ i + 1 \in DOMAIN recq /\ recq'[i] = recq[i + 1] /\ 1 < i + 1
          /\ \A i, j \in DOMAIN recq' : i < j => /\ i + 1 < j + 1 /\ i + 1 \in DOMAIN recq
                                                 /\ recq'[i] = recq[i + 1] /\ 1 < i + 1
      BY <2>3
    <2>5. \A i \in DOMAIN recq' : recq'[i].op = "put" =>
            i + 1 \in DOMAIN recq /\ recq'[i] = recq[i + 1] /\ 1 < i + 1
      BY <2>2, <2>4
    <2>6. \A i \in DOMAIN recq : 1 < i /\ recq[i].op = "put" => recq[i].row.text \in acked
      <3>1. recq[1].op = "read"
        BY <1>1, <1>3 DEF Read
      <3>2. QED BY <3>1, <1>0, <1>3 DEF QueueOrderInv, PutInv
    <2>7. Texts' \subseteq Texts
      BY <2>5, <1>1 DEF Texts
    <2>8. KeptTexts' = KeptTexts /\ HeldTexts' = HeldTexts
      BY <1>1 DEF KeptTexts, HeldTexts, Own, Notes
    <2>9. AckedInv' /\ HeldInv' /\ PutInv'
      BY <2>5, <2>8, <1>0, <1>1 DEF AckedInv, HeldInv, PutInv
    <2>10. QueueOrderInv'
      <3>1. SUFFICES ASSUME NEW i \in DOMAIN recq', NEW j \in DOMAIN recq', i < j, recq'[j].op = "put"
                     PROVE  /\ recq'[i].op = "put" => recq'[i].row.text.n =< recq'[j].row.text.n
                            /\ recq'[i].op = "read" => recq'[j].by # 0
        BY DEF QueueOrderInv
      <3>2. QED BY <3>1, <2>4, <2>5, <1>0 DEF QueueOrderInv
    <2>11. PICK b \in Nat : b =< keys /\ Since(b)
      BY <1>0, <1>3 DEF SinceInv
    <2>12. SinceInv'
      <3>1. \A i \in DOMAIN recq' : recq'[i].op = "put" => \E j \in DOMAIN recq : recq'[i] = recq[j]
        BY <2>5
      <3>2. Since(b)'
        BY <3>1, <2>7, <2>11, <1>1, <1>4, SinceStays
      <3>3. QED BY <3>2, <2>11, <1>1, <1>3 DEF SinceInv
    <2>13. acked \subseteq KeptTexts
      <3>1. SUFFICES ASSUME NEW t \in acked, b < t.n PROVE t \in KeptTexts
        <4>1. \A t \in acked : t \in Texts /\ t.n \in Nat
          BY RecoveryTypes
        <4>2. QED BY <4>1, <3>1, <2>11 DEF Since
      <3>2. t \in Texts /\ t \in Text /\ t.n \in Nat
        BY RecoveryTypes
      <3>3. t \in ShownTexts
        BY <3>1, <3>2, <2>11 DEF Since
      <3>4. s.note = sel /\ sel # Draft
        BY <1>0, <1>1, <1>2 DEF ScreenInv
      <3>5. sel \in Notes /\ store[sel].n \in Nat /\ s.text.n \in Nat
        BY <3>4, <1>2, Numbers
      <3>6. store[sel].n >= s.text.n
        BY <3>4, <1>0, <1>1, <1>2 DEF WrittenInv, Target
      <3>7. rec # None /\ rec.text = s.text
        BY <1>6, <3>4, <3>5, <1>0 DEF RowIs, None, DataType
      <3>8. t.n =< s.text.n
        BY <3>7, <1>0 DEF AckedInv
      <3>9. store[sel].n >= t.n
        BY <3>2, <3>5, <3>6, <3>8
      <3>10. QED BY <3>2, <3>3, <3>4, <3>5, <3>9 DEF ShownTexts, KeptTexts
    <2>14. DeleteInv'
      <3>1. \A j \in DOMAIN recq' : recq'[j].op = "put" => recq'[j].row.text \in KeptTexts
        BY <2>5, <2>6, <2>13
      <3>2. QED BY <3>1, <2>8, <2>13, <1>1 DEF DeleteInv
    <2>15. SavingInv'
      BY <2>1, <1>0, <1>1, SavingSame
    <2>16. QED BY <2>9, <2>10, <2>12, <2>14, <2>15 DEF TypedInv, RecoveryInv
  <1>7. QED BY <1>5, <1>6

\* Starting a save changes no text on its way to the row.
LEMMA StartRecovers ==
  ASSUME EditorInv, EditorInv', TypedInv, timer # Off, StartSave(timer),
         UNCHANGED <<store, sel, session, value, rec, acked, phase, keys>>
  PROVE  RecoveryInv'
  <1> USE DEF Draft, Off
  <1>0. QueueType /\ BornInv /\ RecoveryInv
    BY DEF EditorInv, TypedInv
  <1>1. PICK s \in SaveRecord : StartFacts(s)
    BY StartedFacts
  <1>2. \A id \in Notes : born'[id] = born[id]
    BY <1>0, <1>1 DEF StartFacts, BornInv
  <1>3. NotesStay
    BY <1>2, Numbers DEF NotesStay, Notes
  <1>4. creating' = creating \/ creating = Off
    BY <1>1 DEF StartFacts
  <1>5. s.no \in Nat \ {0}
    BY <1>1 DEF SaveRecord
  <1>6. recq' = recq \/ recq' = Append(recq, Read(s.no))
    BY <1>1 DEF StartFacts
  <1>7. /\ \A i \in DOMAIN recq : i \in DOMAIN recq' /\ recq'[i] = recq[i]
        /\ \A i \in DOMAIN recq' : i \in DOMAIN recq \/ (recq'[i].op = "read" /\ recq'[i].by # 0)
    <2>1. CASE recq' = recq
      BY <2>1
    <2>2. CASE recq' = Append(recq, Read(s.no))
      <3>1. Read(s.no) \in Operation /\ Read(s.no).op = "read" /\ Read(s.no).by = s.no
        BY <1>5, OperationTypes DEF Read
      <3>2. /\ DOMAIN recq = 1 .. Len(recq) /\ DOMAIN recq' = 1 .. Len(recq) + 1
            /\ Len(recq) \in Nat
            /\ \A i \in 1 .. Len(recq) : recq'[i] = recq[i]
            /\ recq'[Len(recq) + 1] = Read(s.no)
        BY <2>2, <3>1, <1>0, OpAdded
      <3>3. QED BY <3>1, <3>2, <1>5
    <2>3. QED BY <2>1, <2>2, <1>6
  <1>8. QED BY <1>0, <1>3, <1>4, <1>7, ReadsAdded

LEMMA WriteRecovers ==
  ASSUME EditorInv, EditorInv', TypedInv, NEW s \in Range(saves), Write(s)
  PROVE  RecoveryInv'
  <1> USE DEF Draft, Off
  <1>0. RecoveryInv /\ ScreenInv /\ WrittenInv /\ SavesInv
    BY DEF EditorInv, TypedInv, SavingInv
  <1>1. /\ s.stage = "write" /\ store' = [store EXCEPT ![s.note] = s.text]
        /\ UNCHANGED <<born, sel, session, value, rec, recq, acked, phase, keys>>
    BY DEF Write, screen, recovery
  <1>2. PICK k \in DOMAIN saves : saves[k] = s
    BY DEF Range
  <1>3. s.note = sel /\ sel # Draft /\ sel \in Notes /\ Target(s) = sel
    <2>1. s.note = sel /\ s.note # Draft
      BY <1>0, <1>1, <1>2 DEF ScreenInv
    <2>2. QED BY <2>1, Numbers DEF Target
  <1>4. store[sel].n =< s.text.n /\ store[sel].n \in Nat /\ s.text.n \in Nat
    BY <1>0, <1>1, <1>2, <1>3, Numbers DEF WrittenInv
  <1>5. Notes' = Notes /\ store'[sel] = s.text /\ \A id \in Notes : id # sel => store'[id] = store[id]
    BY <1>1, <1>3 DEF Notes
  <1>6. NotesStay
    BY <1>1, <1>4, <1>5, Numbers DEF NotesStay
  <1>7. QED BY <1>0, <1>1, <1>3, <1>6, ReadsAdded

LEMMA CreateRecovers ==
  ASSUME EditorInv, EditorInv', TypedInv, Create
  PROVE  RecoveryInv'
  <1> USE DEF Draft, Off
  <1>0. RecoveryInv /\ QueueType /\ SaveType
    BY DEF EditorInv, TypedInv
  <1>1. UNCHANGED <<born, sel, session, value, creating, rec, acked, phase, keys>>
    BY DEF Create, screen
  <1>2. PICK joined, order, n : CreateFacts(joined, order, n)
    BY CreatedFacts
  <1>3. /\ n \in Nat \ {0} /\ order \in [1 .. n -> joined] /\ joined \subseteq DOMAIN saves
        /\ creating \notin Notes
        /\ store' = [i \in Notes \cup {creating} |->
                       IF i = creating THEN saves[order[1]].text ELSE store[i]]
        /\ recq' = recq \o [i \in 1 .. n |-> Read(saves[order[i]].no)]
    BY <1>2 DEF CreateFacts
  <1>4. \A id \in Notes : id \in Notes' /\ store'[id] = store[id]
    BY <1>3 DEF Notes
  <1>5. NotesStay
    BY <1>1, <1>4, Numbers DEF NotesStay
  <1> DEFINE reads == [i \in 1 .. n |-> Read(saves[order[i]].no)]
  <1>6. \A i \in 1 .. n : reads[i] \in Operation /\ reads[i].op = "read" /\ reads[i].by # 0
    <2>1. ASSUME NEW i \in 1 .. n
          PROVE  reads[i] \in Operation /\ reads[i].op = "read" /\ reads[i].by # 0
      <3>1. order[i] \in DOMAIN saves
        BY <1>3
      <3>2. saves[order[i]].no \in Nat \ {0}
        BY <3>1, Numbers DEF SaveRecord
      <3>3. reads[i] = Read(saves[order[i]].no)
        OBVIOUS
      <3>4. QED BY <3>2, <3>3, OperationTypes DEF Read
    <2>2. QED BY <2>1
  <1>7. reads \in [1 .. n -> Operation] /\ recq' = recq \o reads
    BY <1>3, <1>6
  <1> HIDE DEF reads
  <1>8. /\ DOMAIN recq = 1 .. Len(recq) /\ Len(recq) \in Nat
        /\ DOMAIN recq' = 1 .. Len(recq) + n
        /\ \A i \in 1 .. Len(recq) : recq'[i] = recq[i]
        /\ \A i \in 1 .. n : recq'[Len(recq) + i] = reads[i]
    <2>1. recq \in Seq(Operation) /\ Len(recq) \in Nat /\ n \in Nat
      BY <1>0, <1>3 DEF QueueType
    <2> DEFINE q == recq \o reads
    <2>2. /\ q \in Seq(Operation) /\ DOMAIN recq = 1 .. Len(recq) /\ DOMAIN q = 1 .. Len(recq) + n
          /\ \A i \in 1 .. Len(recq) : q[i] = recq[i]
          /\ \A i \in 1 .. n : q[Len(recq) + i] = reads[i]
      <3>1. reads \in [1 .. n -> Operation]
        BY <1>7
      <3>2. QED BY <2>1, <3>1
    <2>3. recq' = q
      BY <1>7
    <2> HIDE DEF q
    <2>4. QED BY <2>1, <2>2, <2>3
  <1>10. \A i \in DOMAIN recq : i \in DOMAIN recq' /\ recq'[i] = recq[i]
    BY <1>3, <1>8
  <1>11. \A i \in DOMAIN recq' : i \in DOMAIN recq \/ (recq'[i].op = "read" /\ recq'[i].by # 0)
    <2>1. SUFFICES ASSUME NEW i \in DOMAIN recq', i \notin DOMAIN recq
                   PROVE  recq'[i].op = "read" /\ recq'[i].by # 0
      OBVIOUS
    <2>2. i - Len(recq) \in 1 .. n /\ Len(recq) + (i - Len(recq)) = i
      BY <2>1, <1>3, <1>8
    <2>3. recq'[i] = reads[i - Len(recq)]
      BY <2>2, <1>8
    <2>4. QED BY <2>2, <2>3, <1>6
  <1>12. QED BY <1>0, <1>1, <1>5, <1>10, <1>11, ReadsAdded

LEMMA RefreshRecovers ==
  ASSUME EditorInv, EditorInv', TypedInv, NEW s \in Range(saves), Refresh(s)
  PROVE  RecoveryInv'
  <1>0. RecoveryInv /\ QueueType /\ SavingInv
    BY DEF EditorInv, TypedInv
  <1>1. s.note # Draft
    BY <1>0, RefreshSaves
  <1>2. /\ recq' = Append(recq, Read(s.no))
        /\ UNCHANGED <<store, born, sel, session, value, creating, rec, acked, phase, keys>>
    BY <1>1 DEF Refresh, Queue, screen
  <1>3. s.no \in Nat \ {0}
    BY Numbers DEF SaveRecord, Range
  <1>4. Read(s.no) \in Operation /\ Read(s.no).op = "read" /\ Read(s.no).by = s.no
    BY <1>3, OperationTypes DEF Read
  <1>5. /\ DOMAIN recq = 1 .. Len(recq) /\ DOMAIN recq' = 1 .. Len(recq) + 1
        /\ Len(recq) \in Nat
        /\ \A i \in 1 .. Len(recq) : recq'[i] = recq[i]
        /\ recq'[Len(recq) + 1] = Read(s.no)
    BY <1>2, <1>4, <1>0, OpAdded
  <1>6. /\ \A i \in DOMAIN recq : i \in DOMAIN recq' /\ recq'[i] = recq[i]
        /\ \A i \in DOMAIN recq' : i \in DOMAIN recq \/ (recq'[i].op = "read" /\ recq'[i].by # 0)
    BY <1>3, <1>4, <1>5
  <1>7. NotesStay
    BY <1>2, NotesSame
  <1>8. QED BY <1>0, <1>2, <1>6, <1>7, ReadsAdded

\* The row is put; the save that waited for it goes on.
LEMMA RowPutRecovers ==
  ASSUME EditorInv, EditorInv', TypedInv, RecPut
  PROVE  TypedInv'
  <1> USE DEF Draft, Off
  <1>0. /\ RecoveryInv /\ SavingInv /\ QueueType /\ SaveType /\ AwaitInv /\ NumbersInv
    BY DEF EditorInv, TypedInv
  <1>1. /\ recq # <<>> /\ Head(recq).op = "put"
        /\ UNCHANGED <<store, list, value, timer, nav, phase, keys>>
    BY DEF RecPut, store_
  <1>2. Head(recq) = recq[1] /\ 1 \in DOMAIN recq
    BY <1>0, <1>1, SeqTail DEF QueueType
  <1>3. CASE Unfinished(Head(recq).by)
    <2>1. PICK s \in Range(saves) : s.no = Head(recq).by /\ Adopt(s)
      BY <1>3 DEF RecPut
    <2>2. PICK k \in DOMAIN saves : saves[k] = s
      BY DEF Range
    <2>3. saves[k].no \in Nat \ {0}
      BY Numbers DEF SaveRecord
    <2>4. PICK m \in DOMAIN saves : Awaits(saves[m], recq[1])
      BY <2>1, <2>2, <2>3, <1>0, <1>2 DEF AwaitInv
    <2>5. m = k
      BY <2>1, <2>2, <2>4, <1>0, <1>2 DEF Awaits, NumbersInv
    <2>6. saves[k].stage = "remember"
      BY <2>4, <2>5, <1>1, <1>2 DEF Awaits
    <2>7. Adopt(saves[k])
      BY <2>1, <2>2
    <2>8. /\ SavingInv' /\ sel' \in Notes /\ sel' # Draft
          /\ sel = sel' \/ (sel = Draft /\ creating = sel' /\ creating # Off)
      BY <2>6, <2>7, <1>0, <1>1, AdoptSaves
    <2>9. RecoveryInv'
      BY <2>8, <1>0, PutRecovers
    <2>10. QED BY <2>8, <2>9 DEF TypedInv
  <1>4. CASE ~Unfinished(Head(recq).by)
    <2>1. UNCHANGED <<saves, sel, creating>>
      BY <1>4 DEF RecPut
    <2>2. SavingInv'
      BY <2>1, <1>0, <1>1, SavingSame
    <2>3. RecoveryInv'
      BY <2>1, <1>0, PutRecovers
    <2>4. QED BY <2>2, <2>3 DEF TypedInv
  <1>5. QED BY <1>3, <1>4

\* With no timer and no save, every text on its way to the row is stored.
LEMMA AllKept ==
  ASSUME EditorInv, TypedInv, phase = "open", timer = Off, saves = <<>>
  PROVE  Texts \subseteq KeptTexts
  <1>0. RecoveryInv /\ SinceInv /\ QuietInv
    BY DEF TypedInv, RecoveryInv, SavingInv
  <1>1. PICK b \in Nat : Since(b)
    BY <1>0 DEF SinceInv
  <1>2. SUFFICES ASSUME NEW t \in Texts PROVE t \in KeptTexts
    OBVIOUS
  <1>3. t \in Text /\ t.n \in Nat /\ 0 < t.n
    BY <1>0, RecoveryTypes, TextsTyped
  <1>4. CASE t.n =< b
    BY <1>1, <1>4 DEF Since
  <1>5. CASE t.n > b
    <2>1. t \in ShownTexts /\ t.n =< value.n
      BY <1>1, <1>5 DEF Since
    <2>2. DOMAIN saves = {}
      OBVIOUS
    <2>3. IF sel = Draft THEN value.n = 0 ELSE store[sel] = value
      BY <2>2, <1>0 DEF QuietInv, Storing
    <2>4. sel # Draft
      BY <2>1, <2>3, <1>3
    <2>5. sel \in Notes /\ store[sel].n >= t.n
      BY <2>1, <2>3, <2>4, <1>3, Numbers
    <2>6. QED BY <2>1, <2>4, <2>5, <1>3 DEF ShownTexts, KeptTexts
  <1>6. QED BY <1>1, <1>3, <1>4, <1>5

\* Where all that the row and the queue have is kept, they owe nothing.
LEMMA KeptRecovers ==
  ASSUME EditorInv, RecoveryInv, UNCHANGED <<acked, keys>>, rec' = rec \/ rec' = None,
         \/ \A i \in DOMAIN recq' : recq'[i].op # "put"
         \/ \A i \in DOMAIN recq' : (i \in DOMAIN recq /\ recq'[i] = recq[i]) \/ recq'[i].op = "delete",
         Texts' \subseteq KeptTexts'
  PROVE  RecoveryInv'
  <1>0. AckedInv /\ PutInv /\ QueueOrderInv
    BY DEF RecoveryInv
  <1>1. \A i \in DOMAIN recq' : recq'[i].op = "put" => i \in DOMAIN recq /\ recq'[i] = recq[i]
    OBVIOUS
  <1>2. Texts' \subseteq Texts
    BY <1>1 DEF Texts
  <1>3. \A t \in Texts' : t.n \in Nat /\ t.n =< keys
    BY <1>2, RecoveryTypes, TextsTyped
  <1>4. keys \in Nat /\ acked \subseteq Texts' /\ acked \subseteq KeptTexts'
    BY RecoveryTypes DEF Texts
  <1>5. \A i \in DOMAIN recq' : recq'[i].op = "put" => recq'[i].row.text \in Texts'
    BY DEF Texts
  <1>6. AckedInv' /\ PutInv'
    BY <1>0, <1>1 DEF AckedInv, PutInv
  <1>7. QueueOrderInv'
    BY <1>0, <1>1 DEF QueueOrderInv
  <1>8. SinceInv'
    <2>1. PICK b \in Nat : b = keys
      BY <1>4
    <2>2. \A t \in Texts' : t.n =< b /\ ~(t.n > b) /\ ~(b < t.n)
      BY <2>1, <1>3
    <2>3. Since(b)'
      BY <2>2, <1>5 DEF Since
    <2>4. b =< keys'
      BY <2>1
    <2>5. QED BY <2>3, <2>4, <1>4 DEF SinceInv
  <1>9. HeldInv' /\ DeleteInv'
    BY <1>4, <1>5 DEF HeldInv, DeleteInv
  <1>10. QED BY <1>6, <1>7, <1>8, <1>9 DEF RecoveryInv

\* While the tab is closed or starts, the row has what it had.
LEMMA HeldRecovers ==
  ASSUME EditorInv, EditorInv', RecoveryInv, NotesStay, UNCHANGED <<rec, acked, keys>>,
         phase' \notin {"clearing", "open"},
         \A i \in DOMAIN recq' : recq'[i].op \notin {"put", "delete"}
  PROVE  RecoveryInv'
  <1>1. AckedInv /\ HeldInv
    BY DEF RecoveryInv
  <1>2. AckedInv' /\ PutInv' /\ QueueOrderInv' /\ SinceInv' /\ DeleteInv'
    BY <1>1 DEF AckedInv, PutInv, QueueOrderInv, SinceInv, DeleteInv
  <1>3. HeldInv'
    BY <1>1, TextsStay DEF HeldInv
  <1>4. QED BY <1>2, <1>3 DEF RecoveryInv

\* The row is deleted: its save ends, or the tab opens.
LEMMA RowDeleteRecovers ==
  ASSUME EditorInv, EditorInv', TypedInv, RecDelete
  PROVE  TypedInv'
  <1> USE DEF Draft, Off
  <1>0. /\ RecoveryInv /\ SavingInv /\ QueueType /\ SaveType /\ AwaitInv /\ NumbersInv
        /\ DeleteInv /\ SinceInv /\ PhaseInv /\ ScreenType
    BY DEF EditorInv, TypedInv, RecoveryInv
  <1>1. /\ recq # <<>> /\ Head(recq).op = "delete" /\ rec' = None /\ recq' = Tail(recq)
        /\ IF Unfinished(Head(recq).by) THEN Finished(Head(recq).by) ELSE UNCHANGED saves
        /\ phase' = IF Head(recq).by = Restorer THEN "open" ELSE phase
        /\ UNCHANGED <<store, born, list, sel, session, value, timer, creating, nav, acked, keys>>
    BY DEF RecDelete, store_, screen
  <1>2. Head(recq) = recq[1] /\ 1 \in DOMAIN recq
    BY <1>0, <1>1, SeqTail DEF QueueType
  <1>3. NotesStay
    BY <1>1, NotesSame
  <1>4. acked \subseteq KeptTexts
    BY <1>0, <1>1, <1>2 DEF DeleteInv
  <1>5. CASE phase = "open"
    <2>1. Head(recq).by # Restorer
      BY <1>0, <1>2, <1>5 DEF PhaseInv
    <2>2. phase' = phase
      BY <2>1, <1>1
    <2>3. RecoveryInv'
      BY <2>2, <1>0, <1>1, <1>3, <1>4, TailRecovers
    <2>4. CASE Unfinished(Head(recq).by)
      <3>1. PICK k \in DOMAIN saves : saves[k].no = Head(recq).by
        BY <2>4 DEF Unfinished, Range
      <3>2. saves[k].no \in Nat \ {0}
        BY Numbers DEF SaveRecord
      <3>3. PICK m \in DOMAIN saves : Awaits(saves[m], recq[1])
        BY <3>1, <3>2, <1>0, <1>2 DEF AwaitInv
      <3>4. m = k
        BY <3>1, <3>3, <1>0, <1>2 DEF Awaits, NumbersInv
      <3>5. saves[k].stage = "check"
        BY <3>3, <3>4, <1>1, <1>2 DEF Awaits
      <3>6. Finished(saves[k].no)
        BY <3>1, <2>4, <1>1
      <3>7. SavingInv'
        BY <3>5, <3>6, <2>2, <1>0, <1>1, EndSaves
      <3>8. QED BY <3>7, <2>3 DEF TypedInv
    <2>5. CASE ~Unfinished(Head(recq).by)
      <3>1. SavingInv'
        BY <2>2, <2>5, <1>0, <1>1, SavingSame
      <3>2. QED BY <3>1, <2>3 DEF TypedInv
    <2>6. QED BY <2>4, <2>5
  <1>6. CASE phase # "open"
    <2>1. recq = <<Delete(Restorer)>> /\ phase = "clearing" /\ saves = <<>>
      <3>1. Read(Restorer).op = "read"
        BY RestorerOps
      <3>2. QED BY <3>1, <1>0, <1>1, <1>6 DEF PhaseInv, ScreenType
    <2>2. recq' = <<>> /\ phase' = "open"
      BY <2>1, <1>1, RestorerOps
    <2>3. UNCHANGED saves
      <3>1. Range(saves) = {}
        BY <2>1 DEF Range
      <3>2. QED BY <3>1, <1>1 DEF Unfinished
    <2>4. Texts' \subseteq KeptTexts'
      <3>1. KeptTexts' = KeptTexts
        BY <1>1 DEF KeptTexts, Own, Notes
      <3>2. QED BY <3>1, <2>2, <1>1, <1>4 DEF Texts
    <2>5. RecoveryInv'
      BY <2>2, <2>4, <1>0, <1>1, KeptRecovers
    <2>6. SavingInv'
      BY <2>1, <2>2, <2>3, <1>0, <1>1, SavingSame
    <2>7. QED BY <2>5, <2>6 DEF TypedInv
  <1>7. QED BY <1>5, <1>6

\* Another note, or a draft, is shown.
LEMMA ShowRecovers ==
  ASSUME EditorInv, TypedInv, phase = "open", timer = Off, saves = <<>>,
         NEW to, NEW text, Show(to, text), UNCHANGED <<store, born, rec, acked, keys>>
  PROVE  RecoveryInv'
  <1>0. RecoveryInv /\ QueueType
    BY DEF TypedInv, EditorInv
  <1>1. recq' = recq \/ recq' = Append(recq, Delete(0))
    BY DEF Show, Queue
  <1>2. \A i \in DOMAIN recq' : (i \in DOMAIN recq /\ recq'[i] = recq[i]) \/ recq'[i].op = "delete"
    <2>1. CASE recq' = recq
      BY <2>1
    <2>2. CASE recq' = Append(recq, Delete(0))
      <3>1. /\ DOMAIN recq = 1 .. Len(recq) /\ DOMAIN recq' = 1 .. Len(recq) + 1
            /\ Len(recq) \in Nat
            /\ \A i \in 1 .. Len(recq) : recq'[i] = recq[i]
            /\ recq'[Len(recq) + 1] = Delete(0)
        BY <2>2, <1>0, RestorerOps, OpAdded
      <3>2. QED BY <3>1, RestorerOps
    <2>3. QED BY <2>1, <2>2, <1>1
  <1>3. Texts' \subseteq Texts
    <2>1. \A i \in DOMAIN recq' : recq'[i].op = "put" => i \in DOMAIN recq /\ recq'[i] = recq[i]
      BY <1>2
    <2>2. QED BY <2>1 DEF Texts
  <1>4. KeptTexts' = KeptTexts
    BY DEF KeptTexts, Own, Notes
  <1>5. Texts' \subseteq KeptTexts'
    BY <1>3, <1>4, AllKept
  <1>6. QED BY <1>0, <1>2, <1>5, KeptRecovers

LEMMA NavigateRecovers ==
  ASSUME EditorInv, EditorInv', TypedInv, NEW to \in DOMAIN list \cup {Draft}, Navigate(to), Closed
  PROVE  TypedInv'
  <1>1. /\ phase = "open" /\ UNCHANGED <<store, list, rec, acked, phase, keys>>
    BY DEF Navigate
  <1>2. SavingInv'
    BY NavigateSaves DEF TypedInv
  <1>3. CASE timer = Off
    <2>1. Show(to, ListText(to)) /\ UNCHANGED <<saves, creating, born>>
      BY <1>3 DEF Navigate
    <2>2. saves = <<>>
      BY <2>1 DEF Show, Closed
    <2>3. RecoveryInv'
      BY <2>1, <2>2, <1>1, <1>3, ShowRecovers
    <2>4. QED BY <2>3, <1>2 DEF TypedInv
  <1>4. CASE timer # Off
    <2>1. StartSave(timer) /\ UNCHANGED <<sel, session, value>>
      BY <1>4 DEF Navigate
    <2>2. RecoveryInv'
      BY <2>1, <1>1, <1>4, StartRecovers
    <2>3. QED BY <2>2, <1>2 DEF TypedInv
  <1>5. QED BY <1>3, <1>4

LEMMA ArriveRecovers ==
  ASSUME EditorInv, EditorInv', TypedInv, Arrive, Closed
  PROVE  TypedInv'
  <1>1. /\ nav # NoNav /\ Show(nav.to, nav.text)
        /\ UNCHANGED <<store, born, saves, rec, acked, phase, keys>>
    BY DEF Arrive, store_
  <1>2. saves = <<>>
    BY <1>1 DEF Show, Closed
  <1>3. phase = "open" /\ timer = Off
    BY <1>1 DEF EditorInv, NavInv
  <1>4. RecoveryInv'
    BY <1>1, <1>2, <1>3, ShowRecovers
  <1>5. SavingInv'
    BY ArriveSaves DEF TypedInv
  <1>6. QED BY <1>4, <1>5 DEF TypedInv

\* The tab crashes, or its user signs out.
LEMMA CloseRecovers ==
  ASSUME EditorInv, EditorInv', TypedInv, Crash \/ SignOut, Closed
  PROVE  TypedInv'
  <1>0. RecoveryInv /\ SavingInv /\ BornInv
    BY DEF TypedInv, EditorInv
  <1>1. SavingInv'
    BY <1>0, CloseSaves
  <1>2. CASE Crash
    <2>1. /\ phase' = "closed" /\ recq' = <<>> /\ born' = [i \in Notes |-> born[i]]
          /\ UNCHANGED <<store, rec, acked, keys>>
      BY <1>2 DEF Crash
    <2>2. NotesStay
      BY <2>1, Numbers DEF NotesStay, Notes
    <2>3. RecoveryInv'
      BY <2>1, <2>2, <1>0, HeldRecovers
    <2>4. QED BY <2>3, <1>1 DEF TypedInv
  <1>3. CASE SignOut
    <2>1. /\ phase = "open" /\ timer = Off /\ saves = <<>>
          /\ UNCHANGED <<store, born, rec, recq, acked, keys>>
      BY <1>3 DEF SignOut, Closed, store_, recovery
    <2>2. Texts' = Texts /\ KeptTexts' = KeptTexts
      BY <2>1 DEF Texts, KeptTexts, Own, Notes
    <2>3. Texts' \subseteq KeptTexts'
      BY <2>1, <2>2, AllKept
    <2>4. RecoveryInv'
      BY <2>1, <2>3, <1>0, KeptRecovers
    <2>5. QED BY <2>4, <1>1 DEF TypedInv
  <1>4. QED BY <1>2, <1>3

LEMMA ReopenRecovers ==
  ASSUME EditorInv, EditorInv', TypedInv, Reopen
  PROVE  TypedInv'
  <1>0. RecoveryInv /\ SavingInv
    BY DEF TypedInv
  <1>1. phase' = "reading" /\ UNCHANGED <<store, born, rec, acked, keys>>
    BY DEF Reopen
  <1>2. recq' = <<Read(Restorer)>>
    BY <1>1 DEF EditorInv, PhaseInv
  <1>3. \A i \in DOMAIN recq' : recq'[i].op \notin {"put", "delete"}
    BY <1>2, RestorerOps
  <1>4. NotesStay
    BY <1>1, NotesSame
  <1>5. RecoveryInv'
    BY <1>0, <1>1, <1>3, <1>4, HeldRecovers
  <1>6. SavingInv'
    BY <1>0, ReopenSaves
  <1>7. QED BY <1>5, <1>6 DEF TypedInv

\* Without a row all it held was kept.
LEMMA RestoreReadRecovers ==
  ASSUME EditorInv, EditorInv', TypedInv, RestoreRead
  PROVE  TypedInv'
  <1>0. RecoveryInv /\ SavingInv /\ HeldInv
    BY DEF TypedInv, RecoveryInv
  <1>1. recq = <<Read(Restorer)>>
    BY DEF RestoreRead, EditorInv, PhaseInv
  <1>2. UNCHANGED <<store, born, rec, acked, keys>>
    BY DEF RestoreRead, store_
  <1>3. SavingInv'
    BY <1>0, RestoreReadSaves
  <1>4. Tail(recq) = <<>>
    BY <1>1
  <1>5. CASE rec = None
    <2>1. recq' = Append(Tail(recq), Delete(0))
      BY <1>5 DEF RestoreRead, NothingToRestore
    <2>2. recq' = <<Delete(0)>>
      <3>1. ASSUME NEW o PROVE Append(<<>>, o) = <<o>>
        OBVIOUS
      <3>2. QED BY <2>1, <3>1, <1>4
    <2>3. \A i \in DOMAIN recq' : recq'[i].op # "put"
      BY <2>2, RestorerOps
    <2>4. HeldTexts = {}
      BY <1>5 DEF HeldTexts
    <2>5. Texts' \subseteq KeptTexts'
      <3>1. KeptTexts' = KeptTexts /\ Texts' = acked
        BY <2>3, <1>2 DEF KeptTexts, Own, Notes, Texts
      <3>2. QED BY <3>1, <2>4, <1>0 DEF HeldInv
    <2>6. RecoveryInv'
      BY <2>3, <2>5, <1>0, <1>2, KeptRecovers
    <2>7. QED BY <2>6, <1>3 DEF TypedInv
  <1>6. CASE rec # None
    <2>1. phase' = "writing" /\ recq' = <<>>
      BY <1>4, <1>6 DEF RestoreRead, NothingToRestore
    <2>2. NotesStay
      BY <1>2, NotesSame
    <2>3. RecoveryInv'
      BY <2>1, <2>2, <1>0, <1>2, HeldRecovers
    <2>4. QED BY <2>3, <1>3 DEF TypedInv
  <1>7. QED BY <1>5, <1>6

\* The row's text is written to its note, or to a new one with its home.
LEMMA RestoreWriteRecovers ==
  ASSUME EditorInv, EditorInv', TypedInv, RestoreWrite
  PROVE  TypedInv'
  <1> USE DEF Draft, Off
  <1>0. RecoveryInv /\ SavingInv /\ HeldInv /\ AckedInv /\ DataType /\ RowInv
    BY DEF TypedInv, RecoveryInv, EditorInv
  <1>a. PICK id : id = RestoreTarget
    OBVIOUS
  <1>1. /\ phase = "writing"
        /\ store' = [i \in Notes \cup {id} |-> IF i = id THEN rec.text ELSE store[i]]
        /\ born' = [i \in DOMAIN born \cup {id} |-> IF i \in DOMAIN born THEN born[i] ELSE rec.text.home]
        /\ recq' = Append(recq, IF rec.note = Draft THEN Delete(Restorer) ELSE Read(Restorer))
        /\ UNCHANGED <<rec, acked, keys>>
    BY <1>a DEF RestoreWrite, Queue
  <1>2. recq = <<>> /\ saves = <<>> /\ rec # None
    BY <1>1 DEF EditorInv, PhaseInv
  <1>3. DOMAIN born = Notes
    BY <1>2, NoSaves
  <1>4. recq' \in {<<Read(Restorer)>>, <<Delete(Restorer)>>}
    BY <1>1, <1>2
  <1>5. \A i \in DOMAIN recq' : recq'[i].op # "put"
    <2>1. ASSUME NEW o \in {Read(Restorer), Delete(Restorer)}, recq' = <<o>>
          PROVE  \A i \in DOMAIN recq' : recq'[i].op # "put"
      <3>1. DOMAIN recq' = {1} /\ recq'[1] = o
        BY <2>1
      <3>2. QED BY <3>1, RestorerOps
    <2>2. QED BY <2>1, <1>4
  <1>6. Notes' = Notes \cup {id} /\ store'[id] = rec.text /\ \A i \in Notes : i # id => store'[i] = store[i]
    BY <1>1 DEF Notes
  <1>7. born'[id] = (IF id \in Notes THEN born[id] ELSE rec.text.home)
        /\ \A i \in Notes : born'[i] = born[i]
    BY <1>1, <1>3
  <1>8. \/ rec.note # Draft /\ id = rec.note /\ id \in Notes
        \/ rec.note = Draft /\ id \notin Notes
    BY <1>a, <1>0, <1>2 DEF RestoreTarget, RowInv, OwnRows, DataType
  <1>9. acked \subseteq KeptTexts'
    <2>1. SUFFICES ASSUME NEW t \in acked PROVE t \in KeptTexts'
      OBVIOUS
    <2>2. t \in Text /\ t.n \in Nat /\ rec.text.n \in Nat /\ t.n =< rec.text.n
      BY <1>0, <1>2, RecoveryTypes DEF AckedInv
    <2>3. \/ t \in HeldTexts
          \/ \E i \in Notes : Own(i, t) /\ store[i].n >= t.n
      BY <1>0 DEF HeldInv, KeptTexts
    <2>4. \E i \in Notes' : t.home \in {i, born'[i]} /\ store'[i].n >= t.n
      <3>1. CASE t \in HeldTexts
        <4>1. IF rec.note = Draft THEN t.home = rec.text.home ELSE t.home \in {rec.note, born[rec.note]}
          BY <3>1 DEF HeldTexts, Own
        <4>2. t.home \in {id, born'[id]}
          BY <4>1, <1>7, <1>8
        <4>3. QED BY <4>2, <2>2, <1>6
      <3>2. CASE \E i \in Notes : Own(i, t) /\ store[i].n >= t.n
        <4>1. PICK i \in Notes : Own(i, t) /\ store[i].n >= t.n
          BY <3>2
        <4>2. t.home \in {i, born'[i]} /\ i \in Notes'
          BY <4>1, <1>6, <1>7 DEF Own
        <4>3. store'[i].n >= t.n
          <5>1. CASE i = id
            BY <5>1, <2>2, <1>6
          <5>2. CASE i # id
            BY <5>2, <4>1, <1>6
          <5>3. QED BY <5>1, <5>2
        <4>4. QED BY <4>2, <4>3
      <3>3. QED BY <3>1, <3>2, <2>3
    <2>5. QED BY <2>2, <2>4 DEF KeptTexts, Own
  <1>10. Texts' \subseteq KeptTexts'
    BY <1>1, <1>5, <1>9 DEF Texts
  <1>11. RecoveryInv'
    BY <1>0, <1>1, <1>5, <1>10, KeptRecovers
  <1>12. SavingInv'
    BY RestoreWriteSaves
  <1>13. QED BY <1>11, <1>12 DEF TypedInv

\* The restored row is deleted, or a newer one stays.
LEMMA RestoreCheckRecovers ==
  ASSUME EditorInv, EditorInv', TypedInv, RestoreCheck
  PROVE  TypedInv'
  <1>0. RecoveryInv /\ SavingInv /\ SinceInv
    BY DEF TypedInv, RecoveryInv
  <1>1. /\ Head(recq) = Read(Restorer) /\ phase = "clearing"
        /\ UNCHANGED <<store, born, list, sel, session, value, timer, saves, creating, nav, rec, acked, keys>>
    BY DEF RestoreCheck, store_, screen
  <1>2. recq \in {<<Read(Restorer)>>, <<Delete(Restorer)>>}
    BY <1>1 DEF EditorInv, PhaseInv
  <1>3. Tail(recq) = <<>>
    <2>1. ASSUME NEW o, recq = <<o>> PROVE Tail(recq) = <<>>
      BY <2>1
    <2>2. QED BY <2>1, <1>2
  <1>4. \/ recq' = Append(Tail(recq), Delete(Restorer)) /\ phase' = phase
        \/ recq' = Tail(recq) /\ phase' = "open"
    BY DEF RestoreCheck
  <1>5. \A i \in DOMAIN recq' : recq'[i].op # "put"
    <2>1. recq' \in {<<>>, <<Delete(Restorer)>>}
      <3>1. ASSUME NEW o PROVE Append(<<>>, o) = <<o>>
        OBVIOUS
      <3>2. QED BY <3>1, <1>3, <1>4
    <2>2. QED BY <2>1, RestorerOps
  <1>6. Texts' \subseteq KeptTexts'
    <2>1. KeptTexts' = KeptTexts /\ Texts' = acked
      BY <1>1, <1>5 DEF KeptTexts, Own, Notes, Texts
    <2>2. QED BY <2>1, <1>0, <1>1 DEF SinceInv
  <1>7. RecoveryInv'
    BY <1>0, <1>1, <1>5, <1>6, KeptRecovers
  <1>8. SavingInv'
    BY <1>0, <1>1, <1>4, SavingSame
  <1>9. QED BY <1>7, <1>8 DEF TypedInv

LEMMA InitRecovers ==
  ASSUME EditorInit
  PROVE  TypedInv
  <1> USE DEF Draft, Off
  <1>1. /\ store = [id \in 1 .. Initial |-> [home |-> id, n |-> 0]]
        /\ born = [id \in 1 .. Initial |-> id] /\ list = store
        /\ sel = Draft /\ value = Blank(1) /\ timer = Off
        /\ saves = <<>> /\ creating = Off /\ nav = NoNav
        /\ rec = None /\ recq = <<>> /\ acked = {}
        /\ phase = "open" /\ keys = 0
    BY DEF EditorInit
  <1>2. EditorInv
    BY InitKeeps
  <1>3. DOMAIN saves = {} /\ DOMAIN recq = {} /\ Texts = {}
    BY <1>1 DEF Texts
  <1>4. AckedInv /\ PutInv /\ QueueOrderInv /\ HeldInv /\ DeleteInv
    BY <1>1, <1>3 DEF AckedInv, PutInv, QueueOrderInv, HeldInv, DeleteInv
  <1>5. SinceInv
    <2>1. Since(0)
      BY <1>3 DEF Since
    <2>2. QED BY <2>1, <1>1 DEF SinceInv
  <1>6. value.n = 0 /\ Notes = 1 .. Initial /\ \A id \in Notes : store[id].n = 0
    BY <1>1 DEF Blank, Notes
  <1>7. ScreenInv /\ WrittenInv
    BY <1>1, <1>3, <1>6 DEF ScreenInv, WrittenInv
  <1>8. QuietInv
    BY <1>1, <1>6 DEF QuietInv
  <1>9. FreshInv
    <2>1. \A id \in DOMAIN list : list[id] = store[id] /\ list[id].n =< store[id].n
      <3>1. list = store
        BY <1>1
      <3>2. \A id \in DOMAIN list : list[id].n = 0
        BY <3>1, <1>6 DEF Notes
      <3>3. QED BY <3>1, <3>2
    <2>2. creating \notin DOMAIN list
      BY <1>1
    <2>3. QED BY <2>1, <2>2, <1>1 DEF FreshInv
  <1>10. QED BY <1>4, <1>5, <1>7, <1>8, <1>9 DEF TypedInv, RecoveryInv, SavingInv

LEMMA StutterRecovers ==
  ASSUME EditorInv, TypedInv, UNCHANGED editorVars
  PROVE  TypedInv'
  <1>1. UNCHANGED <<store, born, list, sel, session, value, timer, saves, creating, nav, rec, recq,
                    acked, phase, keys>>
    BY DEF editorVars, store_, screen, recovery
  <1>2. SavingInv'
    BY <1>1, SavingSame DEF TypedInv
  <1>3. /\ Notes' = Notes /\ Texts' = Texts /\ KeptTexts' = KeptTexts /\ ShownTexts' = ShownTexts
        /\ HeldTexts' = HeldTexts
    BY <1>1 DEF Notes, Texts, KeptTexts, ShownTexts, HeldTexts, Own
  <1>4. AckedInv' /\ PutInv' /\ QueueOrderInv' /\ HeldInv' /\ DeleteInv'
    BY <1>1, <1>3 DEF TypedInv, RecoveryInv, AckedInv, PutInv, QueueOrderInv, HeldInv, DeleteInv
  <1>5. \A b \in Nat : Since(b) => Since(b)'
    BY <1>1, <1>3 DEF Since
  <1>6. SinceInv'
    BY <1>1, <1>3, <1>5 DEF TypedInv, RecoveryInv, SinceInv
  <1>7. QED BY <1>2, <1>4, <1>6 DEF TypedInv, RecoveryInv

LEMMA StepRecovers ==
  ASSUME EditorInv, EditorInv', TypedInv, Closed, [EditorNext]_editorVars
  PROVE  TypedInv'
  <1>0. RecoveryInv /\ SavingInv
    BY DEF TypedInv
  <1>1. CASE TimerFires
    <2>1. /\ timer # Off /\ StartSave(timer)
          /\ UNCHANGED <<store, list, sel, session, value, nav, rec, acked, phase, keys>>
      BY <1>1 DEF TimerFires
    <2>2. SavingInv'
      BY <2>1, <1>0, StartSaves
    <2>3. RecoveryInv'
      BY <2>1, StartRecovers
    <2>4. QED BY <2>2, <2>3 DEF TypedInv
  <1>2. CASE Create
    BY <1>0, <1>2, CreateSaves, CreateRecovers DEF TypedInv
  <1>3. ASSUME NEW s \in Range(saves), Write(s) PROVE TypedInv'
    BY <1>0, <1>3, WriteSaves, WriteRecovers DEF TypedInv
  <1>4. ASSUME NEW s \in Range(saves), Refresh(s) PROVE TypedInv'
    BY <1>0, <1>4, RefreshSaves, RefreshRecovers DEF TypedInv
  <1>5. CASE SaveStep
    BY <1>2, <1>3, <1>4, <1>5 DEF SaveStep
  <1>6. CASE QueueStep
    BY <1>6, RowPutRecovers, RowDeleteRecovers, RestoreReadRecovers, RestoreCheckRecovers,
       RememberRecovers, CheckRecovers DEF QueueStep
  <1>7. CASE Arrive \/ Reopen \/ RestoreWrite
    BY <1>7, ArriveRecovers, ReopenRecovers, RestoreWriteRecovers
  <1>8. CASE Type
    BY <1>0, <1>8, TypeSaves, TypeRecovers DEF TypedInv
  <1>9. CASE SignOut \/ Crash
    BY <1>9, CloseRecovers
  <1>10. CASE \E to \in DOMAIN list \cup {Draft} : Navigate(to)
    BY <1>10, NavigateRecovers
  <1>11. CASE UNCHANGED editorVars
    BY <1>11, StutterRecovers
  <1>12. QED BY <1>1, <1>5, <1>6, <1>7, <1>8, <1>9, <1>10, <1>11 DEF EditorNext, TabStep, UserStep

\* With all windows closed, what the row and the queue hold is stored or is
\* still held, and saves write in the order of typing.
THEOREM TypedInvariant ==
  ASSUME Closed
  PROVE  EditorSpec => [](EditorInv /\ TypedInv)
  <1>1. OwnClosed
    BY DEF Closed, OwnClosed
  <1>2. EditorInit => EditorInv /\ TypedInv
    BY InitKeeps, InitRecovers
  <1>3. EditorInv /\ TypedInv /\ [EditorNext]_editorVars => EditorInv' /\ TypedInv'
    BY <1>1, StepKeeps, StepRecovers
  <1>4. QED BY <1>2, <1>3, PTL DEF EditorSpec

\* With all windows closed, no text the recovery row has held is lost, whatever the number of notes,
\* keystrokes, switches and crashes, at whatever point the tab crashes: the
\* notes table or the row has it, or a later text of the same note.
THEOREM TypedTextSurvives ==
  ASSUME Closed
  PROVE  EditorSpec => []TypedSurvives
  <1> USE DEF Draft, Off
  <1>1. ASSUME EditorInv, TypedInv PROVE TypedSurvives
    <2>0. StoreInv /\ BornInv /\ RowInv /\ HeldInv /\ DataType
      BY <1>1 DEF EditorInv, TypedInv, RecoveryInv
    <2>1. Notes \subseteq DOMAIN born
      BY <2>0 DEF BornInv
    <2>2. SUFFICES ASSUME NEW t \in acked PROVE Stored(t) \/ Covers(rec.text, t)
      BY DEF TypedSurvives
    <2>3. ASSUME NEW id \in Notes, NEW text, Own(id, text), Own(id, t) PROVE SameHome(text.home, t.home)
      <3>1. text.home \in {id, born[id]} /\ t.home \in {id, born[id]} /\ id \in DOMAIN born
        BY <2>1, <2>3 DEF Own
      <3>2. text.home = t.home \/ {text.home, t.home} = {id, born[id]}
        BY <3>1
      <3>3. QED BY <3>1, <3>2 DEF SameHome
    <2>4. CASE t \in KeptTexts
      <3>1. PICK id \in Notes : Own(id, t) /\ store[id].n >= t.n
        BY <2>4 DEF KeptTexts
      <3>2. Own(id, store[id])
        BY <2>0 DEF StoreInv
      <3>3. Covers(store[id], t)
        BY <3>1, <3>2, <2>3 DEF Covers
      <3>4. QED BY <3>3 DEF Stored
    <2>5. CASE t \in HeldTexts
      <3>1. /\ rec # None /\ rec.text.n >= t.n
            /\ IF rec.note = Draft THEN t.home = rec.text.home ELSE Own(rec.note, t)
        BY <2>5 DEF HeldTexts
      <3>2. CASE rec.note = Draft
        BY <3>1, <3>2 DEF Covers, SameHome
      <3>3. CASE rec.note # Draft
        <4>1. rec.note \in Notes /\ Own(rec.note, rec.text)
          BY <3>1, <3>3, <2>0 DEF RowInv, OwnRows
        <4>2. SameHome(rec.text.home, t.home)
          BY <3>1, <3>3, <4>1, <2>3
        <4>3. QED BY <3>1, <4>2 DEF Covers
      <3>4. QED BY <3>2, <3>3
    <2>6. QED BY <2>0, <2>4, <2>5 DEF HeldInv
  <1>2. QED BY <1>1, TypedInvariant, PTL

\* With all windows closed, an open editor with nothing left to do shows what is
\* stored.
THEOREM QuietEditorStored ==
  ASSUME Closed
  PROVE  EditorSpec => []QuietEditorIsStored
  <1>1. ASSUME EditorInv, TypedInv PROVE QuietEditorIsStored
    <2>1. SUFFICES ASSUME phase = "open", timer = Off, saves = <<>>
                   PROVE  IF sel = Draft THEN IsBlank(value) ELSE store[sel] = value
      BY DEF QuietEditorIsStored
    <2>2. ~Storing
      BY <2>1 DEF Storing
    <2>3. IF sel = Draft THEN value.n = 0 ELSE store[sel] = value
      BY <2>1, <2>2, <1>1 DEF TypedInv, SavingInv, QuietInv
    <2>4. sel = Draft => value.home < 0
      <3>1. session \in Nat \ {0} /\ (sel = Draft => value.home = -session)
        BY <1>1 DEF EditorInv, ScreenType, ValueInv
      <3>2. QED BY <3>1
    <2>5. QED BY <2>3, <2>4 DEF IsBlank
  <1>2. QED BY <1>1, TypedInvariant, PTL
=============================================================================
