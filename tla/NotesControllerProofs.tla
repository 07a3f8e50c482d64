----------------------- MODULE NotesControllerProofs -----------------------
(***************************************************************************)
(* Theorems about NotesController, for any notes and bounds, with the      *)
(* windows closed that let text be lost: "archive" and "fail" are about    *)
(* what is synced, and may be open.                                        *)
(*                                                                         *)
(* The screen and the table are related only through the coroutines under  *)
(* way.  While one of them is about to show another note (Leaving), the    *)
(* text on screen may be of a note that is gone; at any other time it is   *)
(* the selected note's, and stored or on its way (ScreenInv).  A tap that  *)
(* flushes leaves no timer behind, and nothing is typed until it ends, so  *)
(* that a timer that is set means that no call leaves (SetStays).  Saves   *)
(* stand in line, each with all that the one before has (PairInv), and a   *)
(* refresh selects what is selected, unless a call leaves (Steady).        *)
(***************************************************************************)
EXTENDS NotesController, SequenceTheorems, TLAPS

Closed == Loose \subseteq {"archive", "fail"}

----------------------------------------------------------------------------
(***************************************************************************)
(* What holds of every call under way.                                     *)
(***************************************************************************)
Mark == [home : Int, n : Int]
NoteRow == [text : SUBSET Mark, life : {"active", "trashed", "deleted"},
            pending : BOOLEAN, known : BOOLEAN]
Changes == {"trash", "restore", "delete", "favorite", "import"}
Purposes == Changes \union {"open", "draft", "start", "sync", "save"}

Ids == 1 .. Len(born)

(* The text was typed in the note, or in the draft that is on screen. *)
Fits(id, text) ==
    IF id = Draft THEN \A mark \in text : mark.home = -session
    ELSE id \in Ids /\ \A mark \in text : mark.home \in {id, born[id]}

(* A table of notes with texts of their own. *)
Kept(table) ==
    /\ DOMAIN table \subseteq Ids
    /\ \A id \in DOMAIN table :
          table[id] \in NoteRow /\ \A mark \in table[id].text : mark.home \in {id, born[id]}

(* A table read some time ago: texts have only grown since. *)
Past(table) ==
    /\ Kept(table)
    /\ \A id \in DOMAIN table : Has(id) => table[id].text \subseteq rows[id].text

Taking(c)     == c.then \notin {"save", "sync"}
Writing(c)    == c.at = "write"
Refreshing(c) == c.at \in {"apply", "reapply"}
(* The call ends with another note, or an empty draft, on screen. *)
Leaves(c)     == c.then \in {"open", "draft"} \/ (c.then = "delete" /\ c.ok = "open")
Leaving       == \E i \in DOMAIN calls : Leaves(calls[i])

(* A refresh with this selects what is selected. *)
Steady(s) == s.id = Draft \/ (s.id = sel /\ Found(s))

(* A call is a record, and where it stands goes with what it is for.  A tap that
   flushes leaves no timer behind, and none can be set while it is under way. *)
Shaped(c) ==
    c = [then |-> c.then, arg |-> c.arg, at |-> c.at, note |-> c.note, text |-> c.text,
         shot |-> c.shot, ok |-> c.ok]
Staged(c) ==
    /\ Shaped(c) /\ c.then \in Purposes /\ c.arg \in Nat /\ c.text \subseteq Mark
    /\ c.at = "load" => c.then = "open"
    /\ c.at = "show" => c.then \in {"open", "draft"}
    /\ c.at = "change" => c.then \in Changes
    /\ c.at \in {"key", "lock", "run", "status"} => c.then = "sync"
    /\ c.at \in {"read", "apply"} => c.then \in Changes \union {"sync", "start"}
    /\ c.then \in {"restore", "import"} => c.at \in {"change", "read", "apply"}
    /\ c.then = "start" => c.at \in {"read", "apply"}
    /\ c.then = "delete" /\ c.ok = "open" => c.at \in {"read", "apply"}
    /\ Taking(c) /\ c.then \notin {"restore", "import"} => job = "off"

(* What a call has to save is of the selected note, holds what is stored of it,
   and is on the screen unless another note is about to be. *)
WriteInv(c) ==
    /\ Writing(c) =>
          /\ c.note = sel /\ Fits(sel, c.text) /\ Row(sel).text \subseteq c.text
          /\ sel = Draft => job = "off"
          /\ sel # Draft /\ ~Shown(Row(sel)) => c.text \subseteq deleted
          /\ ~Leaving => c.text \subseteq value
    /\ c.at \in {"reread", "reapply"} => c.text \subseteq deleted
    /\ c.at \notin {"write", "reread", "reapply"} => c.text = {}

(* A note to open, unless it is gone. *)
Openable(id) == id \in Ids /\ (Has(id) => Shown(rows[id]))

(* What a call has read, or is about to. *)
ReadInv(c) ==
    /\ c.shot.id \in Nat /\ Past(c.shot.rows)
    /\ c.then = "open" => Openable(c.arg)
    /\ c.then = "open" /\ c.at = "show" => Has(c.arg) /\ c.arg \in DOMAIN c.shot.rows
    /\ c.then \in Changes /\ c.at = "apply" =>
          \A id \in DOMAIN c.shot.rows :
              Shown(c.shot.rows[id]) /\ Has(id) => Shown(rows[id])
    /\ Refreshing(c) /\ ~Leaving => Steady(c.shot)

CallInv(c) == Staged(c) /\ WriteInv(c) /\ ReadInv(c)

(* Of two calls, the first called before the second: one tap at a time; saves
   in line hold more and more; no save beside a refresh, except when a tap that
   opens another note flushed it. *)
PairInv(a, b) ==
    /\ ~(Taking(a) /\ Taking(b))
    /\ Writing(a) /\ Writing(b) => sel # Draft /\ a.text \subseteq b.text
    /\ Writing(a) /\ Refreshing(b) => Leaving /\ Steady(b.shot)
    /\ Writing(b) /\ Refreshing(a) => Leaving /\ Steady(a.shot)

CallsInv ==
    /\ \A i \in DOMAIN calls : CallInv(calls[i])
    /\ \A i, j \in DOMAIN calls : i < j => PairInv(calls[i], calls[j])

(***************************************************************************)
(* What holds of the screen and the notes table.                           *)
(***************************************************************************)
Unwritten == UNION {calls[i].text : i \in {k \in DOMAIN calls : Writing(calls[k])}}

(* While no other note is about to be shown, the text on screen is the selected
   note's, and stored or on its way. *)
ScreenInv ==
    /\ job \in {"off", "set"} /\ value \subseteq Mark
    /\ ~Leaving => Fits(sel, value) /\ (sel # Draft => Shown(Row(sel)))
    /\ job = "set" => Row(sel).text \subseteq value
    /\ ~Leaving /\ job = "off" => value \subseteq Row(sel).text \union Unwritten

TableInv ==
    /\ born \in Seq(Int) /\ sel \in Nat /\ session \in Nat /\ {keys, pulls} \subseteq Nat
    /\ \E S : calls \in Seq(S)
    /\ Kept(rows)

ControllerInv == TableInv /\ ScreenInv /\ CallsInv /\ NothingLost

----------------------------------------------------------------------------
(***************************************************************************)
(* How the calls under way change: some remain, in their order, one may    *)
(* be replaced where it stands or removed, and one may be added.           *)
(***************************************************************************)
LEMMA RemovedFacts ==
  ASSUME NEW S, NEW s \in Seq(S), NEW i \in DOMAIN s
  PROVE  /\ RemoveAt(s, i) \in Seq(S)
         /\ DOMAIN RemoveAt(s, i) = 1 .. (Len(s) - 1)
         /\ \A k \in 1 .. (Len(s) - 1) : RemoveAt(s, i)[k] = IF k < i THEN s[k] ELSE s[k + 1]
<1>1. Len(s) \in Nat /\ DOMAIN s = 1 .. Len(s) /\ i \in 1 .. Len(s)
  OBVIOUS
<1> DEFINE a == SubSeq(s, 1, i - 1)
           b == SubSeq(s, i + 1, Len(s))
<1>2. a \in Seq(S) /\ Len(a) = i - 1 /\ \A k \in 1 .. (i - 1) : a[k] = s[k]
  BY <1>1
<1>3. /\ b \in Seq(S) /\ Len(b) = Len(s) - i
      /\ \A k \in 1 .. (Len(s) - i) : b[k] = s[i + k]
  BY <1>1
<1>4. RemoveAt(s, i) = a \o b
  BY DEF RemoveAt
<1> HIDE DEF a, b
<1>5. /\ a \o b \in Seq(S) /\ Len(a \o b) = Len(s) - 1
      /\ \A k \in 1 .. (Len(s) - 1) :
            (a \o b)[k] = IF k <= Len(a) THEN a[k] ELSE b[k - Len(a)]
  <2>1. Len(a) + Len(b) = Len(s) - 1
    BY <1>1, <1>2, <1>3
  <2>2. /\ a \o b \in Seq(S) /\ Len(a \o b) = Len(a) + Len(b)
        /\ \A k \in 1 .. (Len(a) + Len(b)) :
              (a \o b)[k] = IF k <= Len(a) THEN a[k] ELSE b[k - Len(a)]
    BY <1>2, <1>3, ConcatProperties
  <2> QED
    BY <2>1, <2>2
<1>6. ASSUME NEW k \in 1 .. (Len(s) - 1)
      PROVE  (a \o b)[k] = IF k < i THEN s[k] ELSE s[k + 1]
  <2>1. CASE k < i
    BY <2>1, <1>1, <1>2, <1>5
  <2>2. CASE ~(k < i)
    <3>1. k - (i - 1) \in 1 .. (Len(s) - i) /\ ~(k <= Len(a))
      BY <2>2, <1>1, <1>2
    <3>2. b[k - (i - 1)] = s[i + (k - (i - 1))]
      BY <3>1, <1>3
    <3>3. i + (k - (i - 1)) = k + 1
      BY <1>1
    <3> QED
      BY <3>1, <3>2, <3>3, <2>2, <1>2, <1>5
  <2> QED
    BY <2>1, <2>2
<1>7. DOMAIN (a \o b) = 1 .. (Len(s) - 1)
  BY <1>5
<1> QED
  BY <1>4, <1>5, <1>6, <1>7

LEMMA WiderSeq ==
  ASSUME NEW S, NEW s \in Seq(S), NEW T
  PROVE  s \in Seq(S \union T)
<1>1. Len(s) \in Nat /\ s \in [1 .. Len(s) -> S]
  OBVIOUS
<1>2. s \in [1 .. Len(s) -> S \union T]
  BY <1>1
<1> QED
  BY <1>1, <1>2

(* R are the calls that remain, C is what the new call is, if there is one: it
   comes last if it saves. *)
Rearranged(R, C) ==
    /\ \E S : calls' \in Seq(S)
    /\ \A k \in DOMAIN calls' : calls'[k] \in C \/ \E j \in R : calls'[k] = calls[j]
    /\ \A j \in R : \E k \in DOMAIN calls' : calls'[k] = calls[j]
    /\ \A c \in C : \E k \in DOMAIN calls' : calls'[k] = c
    /\ \A k, l \in DOMAIN calls' : k < l =>
          \/ \E i, j \in R : i < j /\ calls'[k] = calls[i] /\ calls'[l] = calls[j]
          \/ calls'[l] \in C /\ \E i \in R : calls'[k] = calls[i]
          \/ /\ calls'[k] \in C /\ ~Writing(calls'[k])
             /\ \E j \in R : calls'[l] = calls[j]

LEMMA Replaced ==
  ASSUME NEW S, calls \in Seq(S), NEW i \in DOMAIN calls, NEW c, ~Writing(c), Step(i, c)
  PROVE  Rearranged(DOMAIN calls \ {i}, IF c.at = "done" THEN {} ELSE {c})
<1>1. Len(calls) \in Nat /\ DOMAIN calls = 1 .. Len(calls) /\ i \in 1 .. Len(calls)
  OBVIOUS
<1>2. CASE c.at = "done"
  <2>1. calls' = RemoveAt(calls, i)
    BY <1>2 DEF Step
  <2>2. /\ calls' \in Seq(S) /\ DOMAIN calls' = 1 .. (Len(calls) - 1)
        /\ \A k \in 1 .. (Len(calls) - 1) :
              calls'[k] = IF k < i THEN calls[k] ELSE calls[k + 1]
    BY <2>1, RemovedFacts
  <2> DEFINE o(k) == IF k < i THEN k ELSE k + 1
  <2>3. \A k \in DOMAIN calls' : o(k) \in DOMAIN calls \ {i} /\ calls'[k] = calls[o(k)]
    BY <2>2, <1>1
  <2>4. \A k, l \in DOMAIN calls' : k < l => o(k) < o(l)
    BY <2>2, <1>1
  <2>5. ASSUME NEW j \in DOMAIN calls \ {i}
        PROVE  \E k \in DOMAIN calls' : calls'[k] = calls[j]
    <3>1. CASE j < i
      BY <3>1, <2>2, <1>1
    <3>2. CASE ~(j < i)
      <4>1. j - 1 \in 1 .. (Len(calls) - 1) /\ ~(j - 1 < i) /\ (j - 1) + 1 = j
        BY <3>2, <1>1
      <4> QED
        BY <4>1, <2>2
    <3> QED
      BY <3>1, <3>2
  <2> HIDE DEF o
  <2> QED
    BY <1>2, <2>2, <2>3, <2>4, <2>5 DEF Rearranged
<1>3. CASE c.at # "done"
  <2>1. calls' = [calls EXCEPT ![i] = c]
    BY <1>3 DEF Step
  <2>2. calls \in [1 .. Len(calls) -> S]
    OBVIOUS
  <2>3. calls' \in Seq(S \union {c})
    BY <2>1, <2>2, <1>1
  <2>4. /\ DOMAIN calls' = DOMAIN calls /\ calls'[i] = c
        /\ \A k \in DOMAIN calls \ {i} : calls'[k] = calls[k]
    BY <2>1, <2>2, <1>1
  <2>5. ASSUME NEW k \in DOMAIN calls', NEW l \in DOMAIN calls', k < l
        PROVE  \/ \E a, b \in DOMAIN calls \ {i} :
                     a < b /\ calls'[k] = calls[a] /\ calls'[l] = calls[b]
               \/ calls'[l] \in {c} /\ \E a \in DOMAIN calls \ {i} : calls'[k] = calls[a]
               \/ /\ calls'[k] \in {c} /\ ~Writing(calls'[k])
                  /\ \E b \in DOMAIN calls \ {i} : calls'[l] = calls[b]
    <3>1. k # l
      BY <2>5, <2>4, <1>1
    <3> QED
      BY <3>1, <2>4, <2>5
  <2> QED
    BY <1>3, <2>3, <2>4, <2>5 DEF Rearranged
<1> QED
  BY <1>2, <1>3

LEMMA Added ==
  ASSUME NEW S, calls \in Seq(S), NEW c, calls' = Append(calls, c)
  PROVE  Rearranged(DOMAIN calls, {c})
<1>1. calls \in Seq(S \union {c})
  BY WiderSeq
<1>2. /\ calls' \in Seq(S \union {c}) /\ DOMAIN calls' = 1 .. (Len(calls) + 1)
      /\ Len(calls) \in Nat /\ DOMAIN calls = 1 .. Len(calls)
      /\ \A k \in DOMAIN calls : calls'[k] = calls[k]
      /\ calls'[Len(calls) + 1] = c
  BY <1>1
<1>3. \A k \in DOMAIN calls' : k \in DOMAIN calls \/ k = Len(calls) + 1
  BY <1>2
<1>4. \A k, l \in DOMAIN calls' : k < l => k \in DOMAIN calls
  BY <1>2
<1>5. Len(calls) + 1 \in DOMAIN calls' /\ DOMAIN calls \subseteq DOMAIN calls'
  BY <1>2
<1> QED
  BY <1>2, <1>3, <1>4, <1>5 DEF Rearranged

LEMMA NothingAdded ==
  ASSUME NEW S, calls \in Seq(S), UNCHANGED calls
  PROVE  Rearranged(DOMAIN calls, {})
<1>1. \A k, l \in DOMAIN calls' : k < l =>
        \E i, j \in DOMAIN calls : i < j /\ calls'[k] = calls[i] /\ calls'[l] = calls[j]
  OBVIOUS
<1> QED
  BY <1>1 DEF Rearranged

LEMMA Removed ==
  ASSUME NEW S, calls \in Seq(S), NEW i \in DOMAIN calls, calls' = RemoveAt(calls, i)
  PROVE  Rearranged(DOMAIN calls \ {i}, {})
<1> DEFINE c == [at |-> "done"]
<1>1. Step(i, c) /\ ~Writing(c)
  BY DEF Step, Writing
<1>2. c.at = "done"
  OBVIOUS
<1> HIDE DEF c
<1> QED
  BY <1>1, <1>2, Replaced

LEMMA RemovedAndAdded ==
  ASSUME NEW S, calls \in Seq(S), NEW i \in DOMAIN calls, NEW c,
         calls' = Append(RemoveAt(calls, i), c)
  PROVE  Rearranged(DOMAIN calls \ {i}, {c})
<1> DEFINE r == RemoveAt(calls, i)
           n == Len(calls) - 1
<1>1. n \in Nat /\ DOMAIN calls = 1 .. (n + 1) /\ i \in 1 .. (n + 1)
  OBVIOUS
<1>2. /\ r \in Seq(S) /\ DOMAIN r = 1 .. n
      /\ \A k \in 1 .. n : r[k] = IF k < i THEN calls[k] ELSE calls[k + 1]
  BY RemovedFacts
<1>3. calls' = Append(r, c)
  OBVIOUS
<1> HIDE DEF r, n
<1>4. r \in Seq(S \union {c})
  BY <1>2, WiderSeq
<1>5. Len(r) = n
  BY <1>1, <1>2
<1>6. /\ calls' \in Seq(S \union {c}) /\ DOMAIN calls' = 1 .. (n + 1)
      /\ \A k \in 1 .. n : calls'[k] = r[k]
      /\ calls'[n + 1] = c
  <2>1. c \in S \union {c}
    OBVIOUS
  <2>2. /\ calls' \in Seq(S \union {c}) /\ Len(calls') = n + 1
        /\ \A k \in 1 .. n : calls'[k] = r[k]
        /\ calls'[n + 1] = c
    BY <2>1, <1>3, <1>4, <1>5, AppendProperties
  <2>3. DOMAIN calls' = 1 .. Len(calls')
    BY <2>2, LenProperties
  <2> QED
    BY <2>2, <2>3
<1> DEFINE o(k) == IF k < i THEN k ELSE k + 1
<1>7. \A k \in 1 .. n : o(k) \in DOMAIN calls \ {i} /\ calls'[k] = calls[o(k)]
  BY <1>1, <1>2, <1>6
<1>8. \A k, l \in 1 .. n : k < l => o(k) < o(l)
  BY <1>1
<1>9. ASSUME NEW j \in DOMAIN calls \ {i}
      PROVE  \E k \in 1 .. n : calls'[k] = calls[j]
  <2>1. CASE j < i
    <3>1. j \in 1 .. n
      BY <2>1, <1>1
    <3> QED
      BY <3>1, <2>1, <1>2, <1>6
  <2>2. CASE ~(j < i)
    <3>1. j - 1 \in 1 .. n /\ ~(j - 1 < i) /\ (j - 1) + 1 = j
      BY <2>2, <1>1
    <3> QED
      BY <3>1, <1>2, <1>6
  <2> QED
    BY <2>1, <2>2
<1>10. /\ \A k \in DOMAIN calls' : k \in 1 .. n \/ k = n + 1
       /\ \A k, l \in DOMAIN calls' : k < l => k \in 1 .. n
       /\ n + 1 \in DOMAIN calls' /\ 1 .. n \subseteq DOMAIN calls'
  BY <1>1, <1>6
<1> HIDE DEF o
<1>11. ASSUME NEW k \in DOMAIN calls', NEW l \in DOMAIN calls', k < l
       PROVE  \/ \E a, b \in DOMAIN calls \ {i} :
                    a < b /\ calls'[k] = calls[a] /\ calls'[l] = calls[b]
              \/ calls'[l] \in {c} /\ \E a \in DOMAIN calls \ {i} : calls'[k] = calls[a]
  <2>1. k \in 1 .. n
    BY <1>10, <1>11
  <2>2. CASE l \in 1 .. n
    BY <2>1, <2>2, <1>7, <1>8, <1>11
  <2>3. CASE l = n + 1
    BY <2>1, <2>3, <1>6, <1>7
  <2> QED
    BY <2>2, <2>3, <1>10
<1> QED
  BY <1>6, <1>7, <1>9, <1>10, <1>11 DEF Rearranged

LEMMA CallsKept ==
  ASSUME NEW R, NEW C, Rearranged(R, C),
         \A j \in R : \A d : d = calls[j] => CallInv(d)',
         \A c \in C : CallInv(c)',
         \A i, j \in R : i < j => \A a, b : a = calls[i] /\ b = calls[j] => PairInv(a, b)',
         \A j \in R : \A d : \A c \in C : d = calls[j] => PairInv(d, c)'
  PROVE  CallsInv'
<1>1. ASSUME NEW k \in DOMAIN calls', NEW d, d = calls'[k]
      PROVE  CallInv(d)'
  BY <1>1 DEF Rearranged
<1>2. ASSUME NEW k \in DOMAIN calls', NEW l \in DOMAIN calls', k < l,
             NEW a, NEW b, a = calls'[k], b = calls'[l]
      PROVE  PairInv(a, b)'
  <2>1. CASE \E i, j \in R : i < j /\ a = calls[i] /\ b = calls[j]
    BY <2>1
  <2>2. CASE b \in C /\ \E i \in R : a = calls[i]
    BY <2>2
  <2>3. CASE a \in C /\ ~Writing(a) /\ \E j \in R : b = calls[j]
    <3>1. PairInv(b, a)' /\ ~Writing(a)'
      BY <2>3 DEF Writing
    <3> QED
      BY <3>1 DEF PairInv
  <2> QED
    BY <1>2, <2>1, <2>2, <2>3 DEF Rearranged
<1> QED
  BY <1>1, <1>2 DEF CallsInv

LEMMA LeavingAfter ==
  ASSUME NEW R \in SUBSET DOMAIN calls, NEW C, Rearranged(R, C)
  PROVE  Leaving' <=> (\E j \in R : Leaves(calls[j])) \/ (\E c \in C : Leaves(c))
<1>1. ASSUME NEW k \in DOMAIN calls', Leaves(calls'[k])
      PROVE  (\E j \in R : Leaves(calls[j])) \/ (\E c \in C : Leaves(c))
  BY <1>1, Zenon DEF Rearranged
<1>2. ASSUME NEW j \in R, Leaves(calls[j])
      PROVE  \E k \in DOMAIN calls' : Leaves(calls'[k])
  BY <1>2, Zenon DEF Rearranged
<1>3. ASSUME NEW c \in C, Leaves(c)
      PROVE  \E k \in DOMAIN calls' : Leaves(calls'[k])
  BY <1>3, Zenon DEF Rearranged
<1>4. Leaving' <=> \E k \in DOMAIN calls' : Leaves(calls'[k])
  BY DEF Leaving, Leaves
<1> QED
  BY <1>1, <1>2, <1>3, <1>4

(* What is on its way to the table, mark by mark. *)
LEMMA UnwrittenMarks ==
  ASSUME NEW m
  PROVE  m \in Unwritten <=> \E i \in DOMAIN calls : Writing(calls[i]) /\ m \in calls[i].text
BY DEF Unwritten

LEMMA OnTheWayMarks ==
  ASSUME NEW m
  PROVE  m \in OnTheWay <=> \/ job = "set" /\ m \in value
                           \/ \E i \in DOMAIN calls : m \in calls[i].text
BY DEF OnTheWay

LEMMA RemainUnwritten ==
  ASSUME NEW R \in SUBSET DOMAIN calls, NEW C, Rearranged(R, C), NEW m,
         \/ \E j \in R : Writing(calls[j]) /\ m \in calls[j].text
         \/ \E c \in C : Writing(c) /\ m \in c.text
  PROVE  m \in Unwritten'
<1>1. \E k \in DOMAIN calls' : Writing(calls'[k]) /\ m \in calls'[k].text
  BY Zenon DEF Rearranged
<1> QED
  BY <1>1 DEF Unwritten, Writing

LEMMA RemainOnTheWay ==
  ASSUME NEW R \in SUBSET DOMAIN calls, NEW C, Rearranged(R, C), NEW m,
         \/ \E j \in R : m \in calls[j].text
         \/ \E c \in C : m \in c.text
  PROVE  m \in OnTheWay'
<1>1. \E k \in DOMAIN calls' : m \in calls'[k].text
  BY Zenon DEF Rearranged
<1> QED
  BY <1>1 DEF OnTheWay

(* While typing is to be saved, no other note is about to be shown. *)
LEMMA SetStays ==
  ASSUME CallsInv, job = "set"
  PROVE  ~Leaving
<1>1. SUFFICES ASSUME NEW i \in DOMAIN calls, Leaves(calls[i]) PROVE FALSE
  BY DEF Leaving
<1>2. Staged(calls[i])
  BY DEF CallsInv, CallInv
<1> QED
  BY <1>1, <1>2 DEF Staged, Leaves, Taking

LEMMA NoShotPast ==
  NoShot.id = Draft /\ Past(NoShot.rows) /\ DOMAIN NoShot.rows = {}
BY DEF NoShot, Nothing, Past, Kept

LEMMA DraftHasNoRow ==
  ASSUME TableInv
  PROVE  ~Has(Draft) /\ Row(Draft).text = {}
BY DEF TableInv, Kept, Ids, Draft, Has, Row, Gone

----------------------------------------------------------------------------
(***************************************************************************)
(* Steps that leave the table and the screen as they are.                  *)
(***************************************************************************)
Still ==
    /\ UNCHANGED <<rows, born, deleted, sel, session, value>>
    /\ job' \in {job, "off"}

LEMMA StillCall ==
  ASSUME Still, Leaving => Leaving', NEW c, CallInv(c)
  PROVE  CallInv(c)'
<1>1. Staged(c)'
  BY DEF Still, CallInv, Staged, Taking, Shaped
<1>2. Row(sel)' = Row(sel) /\ (\A text : Fits(sel, text)' = Fits(sel, text))
  BY DEF Still, Row, Has, Fits, Ids, Gone
<1>3. WriteInv(c)'
  BY <1>2 DEF Still, CallInv, WriteInv, Writing, Shown
<1>4. Past(c.shot.rows)' /\ Steady(c.shot)' = Steady(c.shot)
  BY DEF Still, CallInv, ReadInv, Past, Kept, Ids, Has, Steady, Found, Listed
<1>5. ReadInv(c)'
  BY <1>4 DEF Still, CallInv, ReadInv, Openable, Ids, Has, Refreshing, Shown
<1> QED
  BY <1>1, <1>3, <1>5 DEF CallInv

LEMMA StillPair ==
  ASSUME Still, Leaving => Leaving', NEW a, NEW b, PairInv(a, b)
  PROVE  PairInv(a, b)'
BY DEF Still, PairInv, Taking, Writing, Refreshing, Steady, Found, Listed

LEMMA StillCalls ==
  ASSUME CallsInv, NEW R \in SUBSET DOMAIN calls, NEW C, Rearranged(R, C),
         Still, Leaving => Leaving', \A c \in C : CallInv(c)',
         \A j \in R : \A d : \A c \in C : d = calls[j] => PairInv(d, c)'
  PROVE  CallsInv'
<1>1. \A j \in R : \A d : d = calls[j] => CallInv(d)'
  BY StillCall DEF CallsInv
<1>2. \A i, j \in R : i < j => \A a, b : a = calls[i] /\ b = calls[j] => PairInv(a, b)'
  BY StillPair DEF CallsInv
<1> QED
  BY <1>1, <1>2, CallsKept

LEMMA StillTable ==
  ASSUME TableInv, Still, NEW R, NEW C, Rearranged(R, C), {keys, pulls}' \subseteq Nat
  PROVE  TableInv'
<1>1. Kept(rows)'
  BY DEF TableInv, Still, Kept, Ids
<1> QED
  BY <1>1 DEF TableInv, Still, Rearranged

LEMMA StillScreen ==
  ASSUME ScreenInv, Still, Leaving => Leaving',
         ~Leaving /\ job' = "off" => value \subseteq Row(sel).text \union Unwritten'
  PROVE  ScreenInv'
<1>1. Row(sel)' = Row(sel) /\ Fits(sel, value)' = Fits(sel, value)
  BY DEF Still, Row, Has, Fits, Ids, Gone
<1> QED
  BY <1>1 DEF ScreenInv, Still, Shown

LEMMA StillKept ==
  ASSUME NothingLost, Still, UNCHANGED made,
         \A m \in OnTheWay : m \in OnTheWay' \union deleted \union UNION {rows[id].text : id \in DOMAIN rows}
  PROVE  NothingLost'
BY DEF NothingLost, Still

(***************************************************************************)
(* A call that begins with the flush of the save timer.                    *)
(***************************************************************************)
Flushers == {"save", "sync", "open", "draft", "trash", "delete", "favorite"}

LEMMA CallFacts ==
  ASSUME NEW then, NEW arg
  PROVE  LET c == Call(then, arg) IN
         /\ Shaped(c) /\ c.then = then /\ c.arg = arg /\ c.at = First(then)
         /\ c.note = Draft /\ c.text = {} /\ c.shot = NoShot /\ c.ok = "yes"
BY DEF Call, Shaped

LEMMA FlushedFacts ==
  ASSUME NEW then, NEW arg, NEW s, NEW v, NEW c, c = Flushing(Call(then, arg), s, v)
  PROVE  /\ Shaped(c) /\ c.then = then /\ c.arg = arg /\ c.shot = NoShot /\ c.ok = "yes"
         /\ \/ /\ job # "off" /\ Saves(s, v)
               /\ c.at = "write" /\ c.note = s /\ c.text = v
            \/ /\ ~(job # "off" /\ Saves(s, v))
               /\ c.at = First(then) /\ c.note = Draft /\ c.text = {}
BY CallFacts DEF Flushing, Shaped, Call

(* The new call, in the state after the step: the text it saves is what is on the
   screen then. *)
LEMMA FlushedCall ==
  ASSUME TableInv', ScreenInv, job' = "off",
         NEW then \in Flushers, NEW arg \in Nat,
         NEW s, NEW v, s = sel', v = value',
         NEW c, c = Flushing(Call(then, arg), s, v), c.at # "done",
         v \subseteq Mark,
         job = "set" => /\ Fits(s, v)' /\ (Row(s).text)' \subseteq v
                        /\ s # Draft => Shown(Row(s))',
         then = "open" => Openable(arg)'
  PROVE  CallInv(c)'
<1>1. /\ Shaped(c) /\ c.then = then /\ c.arg = arg /\ c.shot = NoShot /\ c.ok = "yes"
      /\ \/ /\ job # "off" /\ Saves(s, v)
            /\ c.at = "write" /\ c.note = s /\ c.text = v
         \/ /\ ~(job # "off" /\ Saves(s, v))
            /\ c.at = First(then) /\ c.note = Draft /\ c.text = {}
  BY FlushedFacts
<1>2. Staged(c)'
  BY <1>1 DEF Staged, Shaped, Purposes, Changes, Flushers, First, Taking
<1>3. c.at \in {"write", "load", "show", "lock", "change"}
  BY <1>1 DEF First, Flushers
<1>4. WriteInv(c)'
  <2>1. CASE c.at = "write"
    <3>1. job = "set" /\ c.note = s /\ c.text = v
      BY <2>1, <1>1 DEF ScreenInv, First, Flushers
    <3> QED
      BY <3>1, <2>1 DEF WriteInv, Writing
  <2>2. CASE c.at # "write"
    BY <2>2, <1>1, <1>3 DEF WriteInv, Writing
  <2> QED
    BY <2>1, <2>2
<1>5. ReadInv(c)'
  <2>1. c.shot.id = Draft /\ Past(c.shot.rows)' /\ DOMAIN c.shot.rows = {}
    BY <1>1 DEF NoShot, Nothing, Past, Kept
  <2>2. c.at # "apply" /\ ~Refreshing(c)'
    BY <1>3 DEF Refreshing
  <2>3. (c.then = "open" => Openable(c.arg))'
    BY <1>1
  <2>4. c.then = "open" => c.at # "show"
    BY <1>1 DEF First
  <2> QED
    BY <2>1, <2>2, <2>3, <2>4 DEF ReadInv, Draft
<1> QED
  BY <1>2, <1>4, <1>5 DEF CallInv

LEMMA FlushedPair ==
  ASSUME ScreenInv, NEW then \in Flushers, NEW arg, NEW s, NEW v, s = sel',
         NEW c, c = Flushing(Call(then, arg), s, v), c.at # "done",
         NEW d, ~(Taking(d) /\ Taking(c)),
         job = "set" /\ Writing(d) => s # Draft /\ d.text \subseteq v,
         job = "set" /\ Refreshing(d) => (Leaving /\ Steady(d.shot))'
  PROVE  PairInv(d, c)'
<1>1. /\ c.at \in {"write", "load", "show", "lock", "change"}
      /\ c.at = "write" => job = "set" /\ c.text = v
  BY FlushedFacts DEF First, Flushers, ScreenInv
<1> QED
  BY <1>1 DEF PairInv, Taking, Writing, Refreshing

(* A call begins, with the save of the timer's text in front of it; the calls it
   takes the place of save nothing and do not leave. *)
LEMMA BegunFlush ==
  ASSUME ControllerInv, UNCHANGED <<rows, born, deleted, sel, session, value, made>>,
         job' = "off", {keys, pulls}' \subseteq Nat, MaySave, "stale" \notin Loose,
         NEW then \in Flushers, NEW arg \in Nat, NEW c, c = Flushing(Call(then, arg), sel, value),
         NEW R \in SUBSET DOMAIN calls, NEW C, C = (IF c.at = "done" THEN {} ELSE {c}),
         Rearranged(R, C),
         \A j \in DOMAIN calls \ R : calls[j].text = {} /\ ~Leaves(calls[j]),
         Taking(c) => ~Tapped,
         then = "open" => Openable(arg)
  PROVE  ControllerInv'
<1>1. TableInv /\ ScreenInv /\ CallsInv /\ NothingLost
  BY DEF ControllerInv
<1>2. Still
  BY DEF Still
<1>3. Leaving => Leaving'
  <2>1. Leaving => (\E j \in R : Leaves(calls[j]))
    BY DEF Leaving
  <2> QED
    BY <2>1, <1>2, LeavingAfter, Zenon
<1>4. /\ c.then = then /\ c.shot = NoShot
      /\ \/ /\ job # "off" /\ Saves(sel, value)
            /\ c.at = "write" /\ c.note = sel /\ c.text = value
         \/ /\ ~(job # "off" /\ Saves(sel, value))
            /\ c.at = First(then) /\ c.note = Draft /\ c.text = {}
  BY FlushedFacts
<1>5. TableInv'
  BY <1>1, <1>2, StillTable
<1>6. job = "set" => ~Leaving
  BY <1>1, SetStays
<1>7. ASSUME c.at # "done" PROVE CallInv(c)'
  <2>1. job = "set" => /\ Fits(sel, value)' /\ (Row(sel).text)' \subseteq value
                       /\ sel # Draft => Shown(Row(sel))'
    <3>1. Row(sel)' = Row(sel) /\ Fits(sel, value)' = Fits(sel, value)
      BY DEF Row, Has, Fits, Ids, Gone
    <3> QED
      BY <3>1, <1>1, <1>6 DEF ScreenInv, Shown
  <2>2. then = "open" => Openable(arg)'
    BY DEF Openable, Ids, Has, Shown
  <2>3. value \subseteq Mark
    BY <1>1 DEF ScreenInv
  <2> DEFINE s == sel
             v == value
  <2>4. s = sel' /\ v = value' /\ c = Flushing(Call(then, arg), s, v)
    OBVIOUS
  <2> QED
    BY <1>1, <1>5, <1>7, <2>1, <2>2, <2>3, <2>4, FlushedCall
<1>8. ASSUME NEW j \in R, NEW d, d = calls[j], NEW e \in C
      PROVE  PairInv(d, e)'
  <2>1. e = c /\ c.at # "done" /\ j \in DOMAIN calls
    BY <1>8
  <2>2. CallInv(d)
    BY <1>1, <1>8, <2>1 DEF CallsInv
  <2>3. ~Refreshing(d)
    BY <1>8, <2>1 DEF MaySave, Under, Refreshing
  <2>4. ~(Taking(d) /\ Taking(c))
    BY <1>8, <2>1 DEF Tapped, Taking
  <2>5. job = "set" /\ Writing(d) => sel # Draft /\ d.text \subseteq value
    BY <1>6, <2>2 DEF CallInv, WriteInv
  <2> DEFINE s == sel
             v == value
  <2>6. s = sel' /\ c = Flushing(Call(then, arg), s, v)
    OBVIOUS
  <2>7. PairInv(d, c)'
    BY <1>1, <2>1, <2>3, <2>4, <2>5, <2>6, FlushedPair
  <2> QED
    BY <2>1, <2>7
<1>9. CallsInv'
  <2>1. \A e \in C : CallInv(e)'
    BY <1>7
  <2> QED
    BY <1>1, <1>2, <1>3, <1>8, <2>1, StillCalls
<1>10. ASSUME NEW m, \E j \in R : Writing(calls[j]) /\ m \in calls[j].text
       PROVE  m \in Unwritten'
  BY <1>2, <1>10, RemainUnwritten
<1>11. ASSUME job = "set", NEW m \in value
       PROVE  m \in Unwritten'
  <2>1. Saves(sel, value)
    BY <1>11 DEF Saves
  <2>2. Writing(c) /\ m \in c.text /\ c \in C
    BY <1>4, <1>11, <2>1 DEF Writing
  <2> QED
    BY <1>2, <2>2, RemainUnwritten
<1>12. ASSUME NEW m \in Unwritten
       PROVE  \E j \in R : Writing(calls[j]) /\ m \in calls[j].text
  <2>1. PICK j \in DOMAIN calls : Writing(calls[j]) /\ m \in calls[j].text
    BY UnwrittenMarks
  <2> QED
    BY <2>1
<1>13. ScreenInv'
  <2>1. ASSUME ~Leaving
        PROVE  value \subseteq Row(sel).text \union Unwritten'
    <3>1. CASE job = "set"
      BY <3>1, <1>11
    <3>2. CASE job = "off"
      BY <3>2, <2>1, <1>1, <1>10, <1>12 DEF ScreenInv
    <3> QED
      BY <3>1, <3>2, <1>1 DEF ScreenInv
  <2> QED
    BY <2>1, <1>1, <1>2, <1>3, StillScreen
<1>14. NothingLost'
  <2>1. ASSUME NEW m \in OnTheWay
        PROVE  m \in OnTheWay'
    <3>1. CASE job = "set" /\ m \in value
      BY <3>1, <1>11 DEF Unwritten, OnTheWay
    <3>2. CASE \E j \in DOMAIN calls : m \in calls[j].text
      <4>1. \E j \in R : m \in calls[j].text
        BY <3>2
      <4> QED
        BY <4>1, <1>2, RemainOnTheWay
    <3> QED
      BY <3>1, <3>2, OnTheWayMarks
  <2> QED
    BY <2>1, <1>1, <1>2, StillKept
<1> QED
  BY <1>5, <1>9, <1>13, <1>14 DEF ControllerInv

(* A call is added. *)
LEMMA AddedFlush ==
  ASSUME ControllerInv, UNCHANGED <<rows, born, deleted, sel, session, value, made>>,
         job' = "off", {keys, pulls}' \subseteq Nat, MaySave, "stale" \notin Loose,
         NEW then \in Flushers, NEW arg \in Nat, NEW c, c = Flushing(Call(then, arg), sel, value),
         Add(c), Taking(c) => ~Tapped,
         then = "open" => Openable(arg)
  PROVE  ControllerInv'
<1> DEFINE R == DOMAIN calls
           C == IF c.at = "done" THEN {} ELSE {c}
<1>1. PICK S : calls \in Seq(S)
  BY DEF ControllerInv, TableInv
<1>2. Rearranged(R, C)
  <2>1. CASE c.at = "done"
    BY <1>1, <2>1, NothingAdded DEF Add
  <2>2. CASE c.at # "done"
    BY <1>1, <2>2, Added DEF Add
  <2> QED
    BY <2>1, <2>2
<1>3. /\ R \in SUBSET DOMAIN calls /\ C = (IF c.at = "done" THEN {} ELSE {c})
      /\ \A j \in DOMAIN calls \ R : calls[j].text = {} /\ ~Leaves(calls[j])
  OBVIOUS
<1> HIDE DEF R, C
<1> QED
  BY <1>2, <1>3, BegunFlush

(* A call that stood still goes on, behind all others. *)
LEMMA MovedFlush ==
  ASSUME ControllerInv, UNCHANGED <<rows, born, deleted, sel, session, value, made>>,
         job' = "off", {keys, pulls}' \subseteq Nat, MaySave, "stale" \notin Loose,
         NEW i \in DOMAIN calls, calls[i].text = {}, ~Leaves(calls[i]),
         NEW c, c = Flushing(Call("sync", Draft), sel, value),
         calls' = Append(RemoveAt(calls, i), c)
  PROVE  ControllerInv'
<1>1. PICK S : calls \in Seq(S)
  BY DEF ControllerInv, TableInv
<1>2. c.then = "sync" /\ c.at # "done"
  BY FlushedFacts DEF First
<1> DEFINE R == DOMAIN calls \ {i}
           C == IF c.at = "done" THEN {} ELSE {c}
<1>3. Rearranged(R, C)
  BY <1>1, <1>2, RemovedAndAdded
<1>4. /\ R \in SUBSET DOMAIN calls /\ C = (IF c.at = "done" THEN {} ELSE {c})
      /\ \A j \in DOMAIN calls \ R : calls[j].text = {} /\ ~Leaves(calls[j])
  OBVIOUS
<1>5. "sync" \in Flushers /\ Draft \in Nat /\ ~Taking(c) /\ "sync" # "open"
  BY <1>2 DEF Flushers, Draft, Taking
<1> HIDE DEF R, C
<1> QED
  BY <1>3, <1>4, <1>5, BegunFlush

(* Two calls, one of which stands elsewhere and saves nothing. *)
LEMMA PairMoves ==
  ASSUME NEW e, NEW c, NEW d, PairInv(e, c) \/ PairInv(c, e),
         Taking(d) => Taking(c), ~Writing(d),
         Writing(e) /\ Refreshing(d) => Leaving /\ Steady(d.shot)
  PROVE  PairInv(e, d)
BY DEF PairInv

(* A call goes on, without saving. *)
LEMMA StillStep ==
  ASSUME ControllerInv, Still, UNCHANGED <<job, made>>, {keys, pulls}' \subseteq Nat,
         NEW i \in DOMAIN calls, NEW c, c = calls[i], NEW d, Step(i, d),
         ~Writing(d), Leaves(c) => d.at # "done" /\ Leaves(d),
         d.at # "done" => CallInv(d), Taking(d) => Taking(c),
         Refreshing(d) => \A j \in DOMAIN calls : ~Writing(calls[j]),
         Writing(c) => Leaving,
         c.text \subseteq deleted \/ (d.at # "done" /\ d.text = c.text)
  PROVE  ControllerInv'
<1> DEFINE R == DOMAIN calls \ {i}
           C == IF d.at = "done" THEN {} ELSE {d}
<1>1. TableInv /\ ScreenInv /\ CallsInv /\ NothingLost
  BY DEF ControllerInv
<1>2. Rearranged(R, C)
  <2>1. PICK S : calls \in Seq(S)
    BY <1>1 DEF TableInv
  <2> QED
    BY <2>1, Replaced
<1>3. R \in SUBSET DOMAIN calls /\ i \notin R
  OBVIOUS
<1>4. Leaving => Leaving'
  <2>1. ASSUME Leaving
        PROVE  (\E j \in R : Leaves(calls[j])) \/ (\E e \in C : Leaves(e))
    <3>1. PICK k \in DOMAIN calls : Leaves(calls[k])
      BY <2>1 DEF Leaving
    <3>2. CASE k = i
      BY <3>1, <3>2
    <3> QED
      BY <3>1, <3>2
  <2> HIDE DEF R, C
  <2> QED
    BY <2>1, <1>2, <1>3, LeavingAfter, Zenon
<1>5. TableInv'
  <2> HIDE DEF R, C
  <2> QED
    BY <1>1, <1>2, StillTable
<1>6. ASSUME NEW j \in R, NEW e, e = calls[j], NEW x \in C
      PROVE  PairInv(e, x)'
  <2>1. x = d /\ d.at # "done" /\ j \in DOMAIN calls /\ j # i
    OBVIOUS
  <2>2. PairInv(e, c) \/ PairInv(c, e)
    <3>1. i < j \/ j < i
      <4>1. PICK S : calls \in Seq(S)
        BY <1>1 DEF TableInv
      <4>2. DOMAIN calls \subseteq Int
        BY <4>1
      <4> QED
        BY <4>2, <2>1
    <3> QED
      BY <3>1, <1>1, <1>6, <2>1 DEF CallsInv
  <2>3. ~(Writing(e) /\ Refreshing(d))
    BY <1>6, <2>1 DEF Writing
  <2>4. PairInv(e, d)
    BY <2>2, <2>3, PairMoves
  <2> QED
    BY <2>1, <2>4, <1>4, StillPair
<1>7. CallsInv'
  <2>1. \A x \in C : CallInv(x)'
    BY <1>4, StillCall
  <2> HIDE DEF R, C
  <2> QED
    BY <1>1, <1>2, <1>3, <1>4, <1>6, <2>1, StillCalls
<1>8. ScreenInv'
  <2>1. ASSUME ~Leaving, NEW m \in Unwritten
        PROVE  m \in Unwritten'
    <3>1. \E j \in R : Writing(calls[j]) /\ m \in calls[j].text
      BY <2>1, UnwrittenMarks
    <3> HIDE DEF R, C
    <3> QED
      BY <3>1, <1>2, <1>3, RemainUnwritten
  <2>2. ~Leaving /\ job' = "off" => value \subseteq Row(sel).text \union Unwritten'
    BY <2>1, <1>1 DEF ScreenInv
  <2> QED
    BY <2>2, <1>1, <1>4, StillScreen
<1>9. NothingLost'
  <2>1. ASSUME NEW m \in OnTheWay
        PROVE  m \in OnTheWay' \union deleted
    <3>1. CASE job = "set" /\ m \in value
      BY <3>1 DEF OnTheWay, Still
    <3>2. CASE \E j \in DOMAIN calls : m \in calls[j].text
      <4>1. \/ \E j \in R : m \in calls[j].text
            \/ \E x \in C : m \in x.text
            \/ m \in deleted
        BY <3>2
      <4> HIDE DEF R, C
      <4> QED
        BY <4>1, <1>2, <1>3, RemainOnTheWay
    <3> QED
      BY <3>1, <3>2, OnTheWayMarks
  <2> QED
    BY <2>1, <1>1, StillKept
<1> QED
  BY <1>5, <1>7, <1>8, <1>9 DEF ControllerInv

(* The screen, the table and the calls are as they were. *)
LEMMA Unmoved ==
  ASSUME ControllerInv, UNCHANGED <<rows, born, deleted, sel, session, value, job, calls, made>>,
         {keys, pulls}' \subseteq Nat
  PROVE  ControllerInv'
<1>1. TableInv /\ ScreenInv /\ CallsInv /\ NothingLost
  BY DEF ControllerInv
<1>2. PICK S : calls \in Seq(S)
  BY <1>1 DEF TableInv
<1>3. Rearranged(DOMAIN calls, {}) /\ Still
  BY <1>2, NothingAdded DEF Still
<1>4. Leaving' = Leaving /\ Unwritten' = Unwritten /\ OnTheWay' = OnTheWay
  BY DEF Leaving, Leaves, Unwritten, Writing, OnTheWay
<1>5. TableInv'
  BY <1>1, <1>3, StillTable
<1>6. CallsInv'
  <2>1. \A c \in {} : CallInv(c)'
    OBVIOUS
  <2>2. \A j \in DOMAIN calls : \A d : \A c \in {} : d = calls[j] => PairInv(d, c)'
    OBVIOUS
  <2>3. DOMAIN calls \in SUBSET DOMAIN calls
    OBVIOUS
  <2> QED
    BY <1>1, <1>3, <1>4, <2>1, <2>2, <2>3, StillCalls
<1>7. ScreenInv'
  BY <1>1, <1>3, <1>4, StillScreen DEF ScreenInv
<1>8. NothingLost'
  BY <1>1, <1>3, <1>4, StillKept
<1> QED
  BY <1>5, <1>6, <1>7, <1>8 DEF ControllerInv

----------------------------------------------------------------------------
(***************************************************************************)
(* The timer, the taps and the steps that only move a call.                *)
(***************************************************************************)
LEMMA StaleClosed ==
  ASSUME Closed
  PROVE  {"switch", "stale", "draft", "late", "unseen", "gone", "overtake", "closing"}
           \intersect Loose = {}
BY DEF Closed

(* A sync that only asks for the key, in the state after a step. *)
LEMMA SyncCallFacts ==
  /\ CallInv(SyncCall)'
  /\ ~Writing(SyncCall) /\ ~Taking(SyncCall) /\ ~Refreshing(SyncCall)
<1>1. /\ SyncCall.then = "sync" /\ SyncCall.arg = Draft /\ SyncCall.at = "key"
      /\ SyncCall.note = Draft /\ SyncCall.text = {} /\ SyncCall.shot = NoShot /\ Shaped(SyncCall)
  BY CallFacts DEF SyncCall, Call, Shaped
<1>2. Staged(SyncCall)'
  BY <1>1 DEF Staged, Purposes, Taking, Draft, Shaped
<1>3. WriteInv(SyncCall)'
  BY <1>1 DEF WriteInv, Writing
<1>4. SyncCall.shot.id = Draft /\ Past(SyncCall.shot.rows)'
  BY <1>1 DEF NoShot, Nothing, Past, Kept
<1>5. ReadInv(SyncCall)'
  BY <1>1, <1>4 DEF ReadInv, Refreshing, Draft, Changes
<1> QED
  BY <1>1, <1>2, <1>3, <1>5 DEF CallInv, Writing, Taking, Refreshing

LEMMA SyncCalled ==
  ASSUME ControllerInv, SyncNow(calls), {keys, pulls}' \subseteq Nat,
         UNCHANGED <<rows, born, deleted, sel, session, value, job, made>>
  PROVE  ControllerInv'
<1>1. TableInv /\ ScreenInv /\ CallsInv /\ NothingLost
  BY DEF ControllerInv
<1>2. CASE calls' = calls
  BY <1>2, Unmoved
<1>3. CASE calls' = Append(calls, SyncCall)
  <2> DEFINE R == DOMAIN calls
             C == {SyncCall}
  <2>1. R \in SUBSET DOMAIN calls /\ Rearranged(R, C)
    <3>1. PICK S : calls \in Seq(S)
      BY <1>1 DEF TableInv
    <3> QED
      BY <3>1, <1>3, Added
  <2>2. Still
    BY DEF Still
  <2>3. Leaving => (\E j \in R : Leaves(calls[j]))
    BY DEF Leaving
  <2>4. \A j \in R : \A d : \A e \in C : d = calls[j] => PairInv(d, e)'
    BY SyncCallFacts DEF PairInv, Taking, Writing, Refreshing
  <2>5. SyncCall \in C /\ \A e \in C : e = SyncCall
    OBVIOUS
  <2>6. /\ \A m : m \in Unwritten => \E j \in R : Writing(calls[j]) /\ m \in calls[j].text
        /\ \A m : (\E j \in DOMAIN calls : m \in calls[j].text)
                  => \E j \in R : m \in calls[j].text
    BY UnwrittenMarks
  <2> HIDE DEF R, C
  <2>7. Leaving => Leaving'
    BY <2>1, <2>3, LeavingAfter, Zenon
  <2>8. \A e \in C : CallInv(e)'
    BY <2>5, SyncCallFacts
  <2>9. CallsInv'
    BY <1>1, <2>1, <2>2, <2>4, <2>7, <2>8, StillCalls
  <2>10. TableInv'
    BY <1>1, <2>1, <2>2, StillTable
  <2>11. \A m \in Unwritten : m \in Unwritten'
    BY <2>1, <2>2, <2>6, RemainUnwritten
  <2>12. ScreenInv'
    BY <1>1, <2>2, <2>7, <2>11, StillScreen DEF ScreenInv
  <2>13. ASSUME NEW m \in OnTheWay
         PROVE  m \in OnTheWay'
    <3>1. CASE job = "set" /\ m \in value
      BY <3>1 DEF OnTheWay
    <3>2. CASE \E j \in DOMAIN calls : m \in calls[j].text
      BY <3>2, <2>1, <2>2, <2>6, RemainOnTheWay
    <3> QED
      BY <3>1, <3>2, OnTheWayMarks
  <2>14. NothingLost'
    BY <1>1, <2>2, <2>13, StillKept
  <2> QED
    BY <2>9, <2>10, <2>12, <2>14 DEF ControllerInv
<1> QED
  BY <1>2, <1>3 DEF SyncNow

LEMMA AutoSyncKeeps ==
  ASSUME ControllerInv, AutoSync
  PROVE  ControllerInv'
<1>1. /\ UNCHANGED <<rows, born, deleted, sel, session, value, job, made, keys, pulls>>
      /\ SyncNow(calls)
  BY DEF AutoSync, screen, counters, history
<1>2. {keys, pulls}' \subseteq Nat
  BY <1>1 DEF ControllerInv, TableInv
<1> QED
  BY <1>1, <1>2, SyncCalled

LEMMA SyncBeginsKeeps ==
  ASSUME Closed, ControllerInv, NEW i \in DOMAIN calls, SyncBegins(i)
  PROVE  ControllerInv'
<1>1. /\ UNCHANGED <<rows, born, deleted, sel, session, value, made, keys, pulls>>
      /\ MaySave /\ "stale" \notin Loose /\ job' = "off" /\ calls[i].at = "key"
      /\ calls' = Append(RemoveAt(calls, i), Flushing(Call("sync", Draft), sel, value))
  BY StaleClosed DEF SyncBegins, counters, history, Flushed
<1>2. {keys, pulls}' \subseteq Nat
  BY <1>1 DEF ControllerInv, TableInv
<1>3. calls[i].text = {} /\ ~Leaves(calls[i])
  BY <1>1 DEF ControllerInv, CallsInv, CallInv, Staged, WriteInv, Leaves
<1> QED
  BY <1>1, <1>2, <1>3, MovedFlush

LEMMA SaveTimerKeeps ==
  ASSUME Closed, ControllerInv, SaveTimer
  PROVE  ControllerInv'
<1> DEFINE c == Flushing(Call("save", Draft), sel, value)
<1>1. /\ UNCHANGED <<rows, born, deleted, sel, session, value, made, keys, pulls>>
      /\ MaySave /\ Add(c) /\ "stale" \notin Loose /\ job' = "off"
  BY StaleClosed DEF SaveTimer, counters, history, Flushed
<1>2. {keys, pulls}' \subseteq Nat
  BY <1>1 DEF ControllerInv, TableInv
<1>3. c.then = "save"
  BY FlushedFacts
<1>4. "save" \in Flushers /\ Draft \in Nat /\ ~Taking(c)
  BY <1>3 DEF Flushers, Draft, Taking
<1>5. ("save" = "open") => Openable(Draft)
  OBVIOUS
<1> QED
  BY <1>1, <1>2, <1>4, <1>5, AddedFlush

LEMMA SignInKeeps ==
  ASSUME ControllerInv, SignIn
  PROVE  ControllerInv'
<1>1. /\ UNCHANGED <<rows, born, deleted, sel, session, value, job, made, keys, pulls>>
      /\ SyncNow(calls)
  BY DEF SignIn, screen, history
<1>2. {keys, pulls}' \subseteq Nat
  BY <1>1 DEF ControllerInv, TableInv
<1> QED
  BY <1>1, <1>2, SyncCalled

LEMMA FlushingTapKeeps ==
  ASSUME Closed, ControllerInv, NEW then \in {"open", "draft", "trash", "delete", "favorite"},
         NEW arg \in Nat, Tap(then, arg), then = "open" => Openable(arg)
  PROVE  ControllerInv'
<1> DEFINE c == Flushing(Call(then, arg), sel, value)
<1>1. /\ UNCHANGED <<rows, born, deleted, sel, session, value, made, keys, pulls>>
      /\ MaySave /\ Add(c) /\ "stale" \notin Loose /\ job' = "off" /\ ~Tapped
  BY StaleClosed DEF Tap, history, Flushed
<1>2. {keys, pulls}' \subseteq Nat
  BY <1>1 DEF ControllerInv, TableInv
<1>3. then \in Flushers
  BY DEF Flushers
<1> HIDE DEF c
<1>4. c = Flushing(Call(then, arg), sel, value)
  BY DEF c
<1> QED
  BY <1>1, <1>2, <1>3, <1>4, AddedFlush

(* Restoring and importing leave the timer as it is. *)
LEMMA OtherTapKeeps ==
  ASSUME Closed, ControllerInv, NEW then \in {"restore", "import"}, NEW arg \in Nat,
         Tap(then, arg)
  PROVE  ControllerInv'
<1>1. PICK c : c = Call(then, arg)
  OBVIOUS
<1>2. /\ Shaped(c) /\ c.then = then /\ c.arg = arg /\ c.at = "change"
      /\ c.note = Draft /\ c.text = {} /\ c.shot = NoShot /\ c.ok = "yes"
  BY <1>1, CallFacts DEF First
<1>3. /\ UNCHANGED <<rows, born, deleted, sel, session, value, made, keys, pulls, job>>
      /\ calls' = Append(calls, c) /\ ~Tapped
  BY <1>1, <1>2, StaleClosed DEF Tap, history, Add
<1>4. TableInv /\ ScreenInv /\ CallsInv /\ NothingLost /\ Still
  BY <1>3 DEF ControllerInv, Still
<1> DEFINE R == DOMAIN calls
           C == {c}
<1>5. Rearranged(R, C) /\ R \in SUBSET DOMAIN calls
  <2>1. PICK S : calls \in Seq(S)
    BY <1>4 DEF TableInv
  <2> QED
    BY <2>1, <1>3, Added
<1>6. \A j \in R : j \in DOMAIN calls
  OBVIOUS
<1>7. CallInv(c)
  <2>1. Staged(c)
    BY <1>2 DEF Staged, Purposes, Changes, Taking
  <2>2. WriteInv(c) /\ ReadInv(c)
    BY <1>2, NoShotPast DEF WriteInv, ReadInv, Writing, Refreshing, Draft
  <2> QED
    BY <2>1, <2>2 DEF CallInv
<1>8. ASSUME NEW j \in R, NEW d, d = calls[j]
      PROVE  PairInv(d, c)
  BY <1>2, <1>3, <1>6, <1>8 DEF PairInv, Writing, Refreshing, Taking, Tapped
<1>9. c \in C /\ \A x \in C : x = c
  OBVIOUS
<1>10. Leaving => \E j \in R : Leaves(calls[j])
  BY DEF Leaving
<1> HIDE DEF R, C
<1>11. Leaving => Leaving'
  BY <1>5, <1>10, LeavingAfter, Zenon
<1>12. TableInv'
  <2>1. {keys, pulls}' \subseteq Nat
    BY <1>3, <1>4 DEF TableInv
  <2> QED
    BY <2>1, <1>4, <1>5, StillTable
<1>13. CallsInv'
  <2>1. \A x \in C : CallInv(x)'
    BY <1>4, <1>7, <1>9, <1>11, StillCall
  <2>2. \A j \in R : \A d : \A x \in C : d = calls[j] => PairInv(d, x)'
    BY <1>4, <1>8, <1>9, <1>11, StillPair
  <2> QED
    BY <1>4, <1>5, <1>11, <2>1, <2>2, StillCalls
<1>14. ScreenInv'
  <2>1. ASSUME NEW m \in Unwritten PROVE m \in Unwritten'
    <3>1. \E j \in R : Writing(calls[j]) /\ m \in calls[j].text
      BY UnwrittenMarks DEF R
    <3> QED
      BY <3>1, <1>5, RemainUnwritten
  <2> QED
    BY <2>1, <1>3, <1>4, <1>11, StillScreen DEF ScreenInv
<1>15. NothingLost'
  <2>1. ASSUME NEW m \in OnTheWay PROVE m \in OnTheWay'
    <3>1. CASE job = "set" /\ m \in value
      BY <3>1, <1>3 DEF OnTheWay
    <3>2. CASE \E j \in DOMAIN calls : m \in calls[j].text
      <4>1. \E j \in R : m \in calls[j].text
        BY <3>2 DEF R
      <4> QED
        BY <4>1, <1>5, RemainOnTheWay
    <3> QED
      BY <3>1, <3>2, OnTheWayMarks
  <2> QED
    BY <2>1, <1>3, <1>4, StillKept
<1> QED
  BY <1>12, <1>13, <1>14, <1>15 DEF ControllerInv

(* What is known of a call under way. *)
LEMMA CallAt ==
  ASSUME ControllerInv, NEW i \in DOMAIN calls
  PROVE  CallInv(calls[i]) /\ Staged(calls[i]) /\ WriteInv(calls[i]) /\ ReadInv(calls[i])
BY DEF ControllerInv, CallsInv, CallInv

LEMMA CountersTyped ==
  ASSUME ControllerInv
  PROVE  keys \in Nat /\ pulls \in Nat /\ {keys, pulls} \subseteq Nat
BY DEF ControllerInv, TableInv

LEMMA SyncStepKeeps ==
  ASSUME ControllerInv, NEW i \in DOMAIN calls,
         SyncRefused(i) \/ SyncStarts(i) \/ SyncFails(i) \/ Status(i)
  PROVE  ControllerInv'
<1>1. PICK c : c = calls[i]
  OBVIOUS
<1>2. Staged(c) /\ WriteInv(c) /\ ReadInv(c)
  BY <1>1, CallAt
<1>3. \E d : /\ Step(i, d)
             /\ \/ c.at = "lock" /\ d = [c EXCEPT !.at = "run"]
                \/ c.at = "key" /\ d = [c EXCEPT !.at = "read", !.ok = "keyless"]
                \/ c.at = "run" /\ \E ok \in {"no", "auth"} : d = [c EXCEPT !.at = "read", !.ok = ok]
                \/ c.at = "status" /\ d = [c EXCEPT !.at = "done"]
  BY <1>1 DEF SyncRefused, SyncStarts, SyncFails, Status
<1>4. PICK d : /\ Step(i, d)
               /\ \/ c.at = "lock" /\ d = [c EXCEPT !.at = "run"]
                  \/ c.at = "key" /\ d = [c EXCEPT !.at = "read", !.ok = "keyless"]
                  \/ c.at = "run" /\ \E ok \in {"no", "auth"} : d = [c EXCEPT !.at = "read", !.ok = ok]
                  \/ c.at = "status" /\ d = [c EXCEPT !.at = "done"]
  BY <1>3
<1>5. /\ c.then = "sync" /\ c.text = {} /\ c.at \in {"key", "lock", "run", "status"}
      /\ Shaped(c)
  BY <1>2, <1>4 DEF Staged, WriteInv
<1>6. /\ Shaped(d) /\ d.then = "sync" /\ d.arg = c.arg /\ d.note = c.note /\ d.text = {}
      /\ d.shot = c.shot /\ d.at \in {"run", "read", "done"}
  BY <1>4, <1>5 DEF Shaped
<1>7. d.at # "done" => CallInv(d)
  <2>1. ASSUME d.at # "done" PROVE Staged(d)
    BY <1>2, <1>5, <1>6, <2>1 DEF Staged, Taking, Changes
  <2>2. WriteInv(d) /\ ReadInv(d)
    BY <1>2, <1>5, <1>6 DEF WriteInv, ReadInv, Writing, Refreshing, Changes
  <2> QED
    BY <2>1, <2>2 DEF CallInv
<1>8. /\ ~Writing(d) /\ ~Leaves(c) /\ ~Taking(d) /\ ~Refreshing(d) /\ ~Writing(c)
      /\ c.text \subseteq deleted
  BY <1>5, <1>6 DEF Writing, Leaves, Taking, Refreshing
<1>9. UNCHANGED <<rows, born, deleted, sel, session, value, job, made, keys, pulls>>
  BY DEF SyncRefused, SyncStarts, SyncFails, Status, screen, counters, history
<1>10. Still /\ {keys, pulls}' \subseteq Nat
  BY <1>9, CountersTyped DEF Still
<1> QED
  BY <1>1, <1>4, <1>7, <1>8, <1>9, <1>10, StillStep

LEMMA LoadNoteKeeps ==
  ASSUME ControllerInv, NEW i \in DOMAIN calls, LoadNote(i)
  PROVE  ControllerInv'
<1>1. PICK c : c = calls[i]
  OBVIOUS
<1>2. Staged(c) /\ WriteInv(c) /\ ReadInv(c)
  BY <1>1, CallAt
<1>3. PICK d : /\ Step(i, d)
               /\ d = IF Has(c.arg)
                      THEN [c EXCEPT !.at = "show", !.shot = [id |-> c.arg, rows |-> rows]]
                      ELSE [c EXCEPT !.then = "draft", !.at = "reread"]
  BY <1>1 DEF LoadNote
<1>4. c.at = "load" /\ c.then = "open" /\ c.text = {} /\ Shaped(c)
  BY <1>1, <1>2 DEF LoadNote, Staged, WriteInv
<1>5. /\ Shaped(d) /\ d.arg = c.arg /\ d.note = c.note /\ d.text = {} /\ d.ok = c.ok
      /\ Has(c.arg) => /\ d.at = "show" /\ d.then = "open"
                       /\ d.shot.id = c.arg /\ d.shot.rows = rows
      /\ ~Has(c.arg) => d.at = "reread" /\ d.then = "draft" /\ d.shot = c.shot
  BY <1>3, <1>4 DEF Shaped
<1>6. CallInv(d)
  <2>1. Staged(d)
    BY <1>2, <1>4, <1>5 DEF Staged, Taking, Changes, Purposes
  <2>2. WriteInv(d)
    BY <1>5 DEF WriteInv, Writing
  <2>3. Past(rows)
    BY DEF ControllerInv, TableInv, Past
  <2>4. ReadInv(d)
    BY <1>2, <1>4, <1>5, <2>3 DEF ReadInv, Refreshing, Changes, Has, Staged
  <2> QED
    BY <2>1, <2>2, <2>4 DEF CallInv
<1>7. /\ ~Writing(d) /\ Leaves(d) /\ Taking(c) /\ ~Refreshing(d) /\ ~Writing(c) /\ d.at # "done"
      /\ c.text \subseteq deleted
  BY <1>4, <1>5 DEF Writing, Leaves, Taking, Refreshing
<1>8. UNCHANGED <<rows, born, deleted, sel, session, value, job, made, keys, pulls>>
  BY DEF LoadNote, screen, counters, history
<1>9. Still /\ {keys, pulls}' \subseteq Nat
  BY <1>8, CountersTyped DEF Still
<1> QED
  BY <1>1, <1>3, <1>6, <1>7, <1>8, <1>9, StillStep

LEMMA ReadWorkspaceKeeps ==
  ASSUME Closed, ControllerInv, NEW i \in DOMAIN calls, ReadWorkspace(i)
  PROVE  ControllerInv'
<1>1. PICK c : c = calls[i]
  OBVIOUS
<1>2. Staged(c) /\ WriteInv(c) /\ ReadInv(c)
  BY <1>1, CallAt
<1>3. PICK d : /\ Step(i, d)
               /\ d = [c EXCEPT !.at = IF c.at = "read" THEN "apply" ELSE "reapply",
                                !.shot = [id |-> sel, rows |-> rows]]
  BY <1>1, <1>2 DEF ReadWorkspace, Staged, Shaped
<1>4. c.at \in {"read", "reread"} /\ Shaped(c)
  BY <1>1, <1>2 DEF ReadWorkspace, Staged
<1>5. /\ Shaped(d) /\ d.then = c.then /\ d.arg = c.arg /\ d.note = c.note /\ d.text = c.text
      /\ d.ok = c.ok /\ d.shot.id = sel /\ d.shot.rows = rows
      /\ c.at = "read" => d.at = "apply"
      /\ c.at = "reread" => d.at = "reapply"
  BY <1>3, <1>4 DEF Shaped
<1>6. \A j \in DOMAIN calls : ~Writing(calls[j])
  BY StaleClosed DEF ReadWorkspace, Under, Writing
<1>7. CallInv(d)
  <2>1. Staged(d)
    BY <1>2, <1>4, <1>5 DEF Staged, Taking, Changes, Purposes
  <2>2. WriteInv(d)
    BY <1>2, <1>4, <1>5 DEF WriteInv, Writing
  <2>3. Past(rows) /\ sel \in Nat
    BY DEF ControllerInv, TableInv, Past
  <2>4. ~Leaving => Steady(d.shot)
    <3>1. ASSUME ~Leaving, sel # Draft PROVE Found(d.shot)
      <4>1. Shown(Row(sel)) /\ Kept(rows)
        BY <3>1 DEF ControllerInv, ScreenInv, TableInv
      <4>2. Has(sel) /\ rows[sel].life \in {"active", "trashed"}
        BY <4>1 DEF Row, Has, Gone, Shown, Kept, NoteRow
      <4> QED
        BY <4>2, <1>5 DEF Found, Listed, Has
    <3> QED
      BY <3>1, <1>5 DEF Steady
  <2>5. ReadInv(d)
    BY <1>2, <1>4, <1>5, <2>3, <2>4 DEF ReadInv, Refreshing
  <2> QED
    BY <2>1, <2>2, <2>5 DEF CallInv
<1>8. /\ ~Writing(d) /\ d.at # "done" /\ (Leaves(c) => Leaves(d)) /\ (Taking(d) => Taking(c))
      /\ ~Writing(c)
  BY <1>4, <1>5 DEF Writing, Leaves, Taking
<1>9. UNCHANGED <<rows, born, deleted, sel, session, value, job, made, keys, pulls>>
  BY DEF ReadWorkspace, screen, counters, history
<1>10. Still /\ {keys, pulls}' \subseteq Nat
  BY <1>9, CountersTyped DEF Still
<1> QED
  BY <1>1, <1>3, <1>5, <1>6, <1>7, <1>8, <1>9, <1>10, StillStep

(* The note to save is gone: the refresh that follows. *)
LEMMA WriteGoneKeeps ==
  ASSUME ControllerInv, NEW i \in DOMAIN calls, Write(i),
         calls[i].note # Draft, ~Shown(Row(calls[i].note))
  PROVE  ControllerInv'
<1>1. PICK c : c = calls[i]
  OBVIOUS
<1>2. Staged(c) /\ WriteInv(c) /\ ReadInv(c)
  BY <1>1, CallAt
<1>3. PICK d : d = [c EXCEPT !.at = "reread"]
  OBVIOUS
<1>4. /\ c.at = "write" /\ Shaped(c) /\ Step(i, d)
      /\ UNCHANGED <<rows, born, deleted, sel, session, value, job, made, keys, pulls>>
  BY <1>1, <1>2, <1>3 DEF Write, Staged, screen, counters, history
<1>5. /\ Shaped(d) /\ d.then = c.then /\ d.arg = c.arg /\ d.note = c.note /\ d.text = c.text
      /\ d.ok = c.ok /\ d.shot = c.shot /\ d.at = "reread"
  BY <1>3, <1>4 DEF Shaped
<1>6. c.note = sel /\ c.text \subseteq deleted
  BY <1>1, <1>2, <1>4 DEF WriteInv, Writing
<1>7. Leaving
  BY <1>1, <1>6 DEF ControllerInv, ScreenInv
<1>8. CallInv(d)
  <2>1. Staged(d)
    BY <1>2, <1>4, <1>5 DEF Staged, Taking, Changes, Purposes
  <2>2. WriteInv(d) /\ ReadInv(d)
    BY <1>2, <1>4, <1>5, <1>6 DEF WriteInv, Writing, ReadInv, Refreshing
  <2> QED
    BY <2>1, <2>2 DEF CallInv
<1>9. /\ ~Writing(d) /\ d.at # "done" /\ (Leaves(c) => Leaves(d)) /\ (Taking(d) => Taking(c))
      /\ ~Refreshing(d)
  BY <1>5 DEF Writing, Leaves, Taking, Refreshing
<1>10. Still /\ {keys, pulls}' \subseteq Nat
  BY <1>4, CountersTyped DEF Still
<1> QED
  BY <1>1, <1>4, <1>6, <1>7, <1>8, <1>9, <1>10, StillStep

LEMMA WorkerKeeps ==
  ASSUME ControllerInv, WorkerStarts \/ WorkerFails
  PROVE  ControllerInv'
<1>1. UNCHANGED <<rows, born, deleted, sel, session, value, job, calls, made, keys, pulls>>
  BY DEF WorkerStarts, WorkerFails, screen, counters, history
<1> QED
  BY <1>1, CountersTyped, Unmoved

----------------------------------------------------------------------------
(***************************************************************************)
(* Steps that change the table.                                            *)
(***************************************************************************)

(* No note returns, texts only grow, and what is deleted stays so. *)
Grown ==
    /\ Ids \subseteq Ids' /\ \A id \in Ids : born'[id] = born[id]
    /\ deleted \subseteq deleted' /\ Kept(rows)'
    /\ \A id \in Ids \intersect DOMAIN rows' :
          id \in DOMAIN rows /\ rows[id].text \subseteq rows'[id].text

(* No note of the table is deleted. *)
StaysShown == \A id \in DOMAIN rows \intersect DOMAIN rows' : Shown(rows[id]) => Shown(rows'[id])

LEMMA GrownPast ==
  ASSUME Grown, NEW table, Past(table)
  PROVE  Past(table)'
<1>1. Kept(table)'
  BY DEF Past, Kept, Grown
<1> QED
  BY <1>1 DEF Past, Grown, Has, Kept

LEMMA GrownFits ==
  ASSUME Grown, UNCHANGED session, NEW id, NEW text, Fits(id, text)
  PROVE  Fits(id, text)'
BY DEF Grown, Fits

LEMMA GrownReads ==
  ASSUME Grown, Leaving => Leaving', NEW d, Staged(d), ReadInv(d),
         \A s : Steady(s) => Steady(s)',
         Taking(d) => StaysShown,
         d.then = "open" /\ d.at = "show" => d.arg \in DOMAIN rows'
  PROVE  ReadInv(d)'
<1>1. d.shot.id \in Nat /\ Past(d.shot.rows)'
  BY GrownPast DEF ReadInv
<1>2. (d.then = "open" => Openable(d.arg))'
  BY DEF ReadInv, Openable, Grown, StaysShown, Taking, Has, Shown
<1>3. (d.then \in Changes /\ d.at = "apply" =>
         \A id \in DOMAIN d.shot.rows :
             Shown(d.shot.rows[id]) /\ Has(id) => Shown(rows[id]))'
  <2>1. DOMAIN d.shot.rows \subseteq Ids
    BY DEF ReadInv, Past, Kept
  <2> QED
    BY <2>1 DEF ReadInv, Grown, StaysShown, Taking, Has, Shown, Changes
<1>4. (Refreshing(d) /\ ~Leaving => Steady(d.shot))'
  BY DEF ReadInv, Refreshing
<1> QED
  BY <1>1, <1>2, <1>3, <1>4 DEF ReadInv, Has

LEMMA GrownCall ==
  ASSUME Grown, UNCHANGED <<sel, session>>, Leaving => Leaving', value \subseteq value',
         NEW d, CallInv(d),
         Taking(d) /\ d.then \notin {"restore", "import"} => job' = "off",
         Writing(d) => /\ (Row(sel).text)' \subseteq d.text
                       /\ sel = Draft => job' = "off"
                       /\ sel # Draft /\ ~Shown(Row(sel))' => d.text \subseteq deleted',
         Taking(d) => StaysShown,
         d.then = "open" /\ d.at = "show" => d.arg \in DOMAIN rows'
  PROVE  CallInv(d)'
<1>1. Staged(d)'
  BY DEF CallInv, Staged, Shaped, Taking
<1>2. WriteInv(d)'
  <2>1. Fits(sel, d.text) => Fits(sel, d.text)'
    BY GrownFits DEF Fits
  <2> QED
    BY <2>1 DEF CallInv, WriteInv, Writing, Grown
<1>3. \A s : Steady(s) => Steady(s)'
  BY DEF Steady, Found, Listed
<1>4. ReadInv(d)'
  BY <1>3, GrownReads DEF CallInv
<1> QED
  BY <1>1, <1>2, <1>4 DEF CallInv

LEMMA PairStays ==
  ASSUME Leaving => Leaving', \A s : Steady(s) => Steady(s)', sel # Draft => sel' # Draft,
         NEW a, NEW b, PairInv(a, b)
  PROVE  PairInv(a, b)'
<1>1. (Writing(a) /\ Refreshing(b) => Leaving /\ Steady(b.shot))'
  BY DEF PairInv, Writing, Refreshing
<1>2. (Writing(b) /\ Refreshing(a) => Leaving /\ Steady(a.shot))'
  BY DEF PairInv, Writing, Refreshing
<1> QED
  BY <1>1, <1>2 DEF PairInv, Writing, Taking

(* What a step that leaves the screen must see to. *)
LEMMA TableCalls ==
  ASSUME ControllerInv, NEW R \in SUBSET DOMAIN calls, NEW C, Rearranged(R, C), Grown,
         UNCHANGED <<sel, session, value, job>>, Leaving => Leaving',
         \A j \in R : \A d : d = calls[j] /\ Writing(d) =>
             /\ (Row(sel).text)' \subseteq d.text
             /\ sel # Draft /\ ~Shown(Row(sel))' => d.text \subseteq deleted',
         \A j \in R : \A d : d = calls[j] /\ Taking(d) =>
             /\ StaysShown
             /\ d.then = "open" /\ d.at = "show" => d.arg \in DOMAIN rows',
         \A c \in C : CallInv(c)',
         \A j \in R : \A d : \A c \in C : d = calls[j] => PairInv(d, c)'
  PROVE  CallsInv'
<1>1. CallsInv
  BY DEF ControllerInv
<1>2. ASSUME NEW j \in R, NEW d, d = calls[j] PROVE CallInv(d)'
  <2>1. CallInv(d) /\ Staged(d) /\ WriteInv(d)
    BY <1>2, CallAt
  <2>2. Taking(d) /\ d.then \notin {"restore", "import"} => job' = "off"
    BY <2>1 DEF Staged
  <2>3. Writing(d) /\ sel = Draft => job' = "off"
    BY <2>1 DEF WriteInv
  <2>4. Writing(d) => /\ (Row(sel).text)' \subseteq d.text
                      /\ sel = Draft => job' = "off"
                      /\ sel # Draft /\ ~Shown(Row(sel))' => d.text \subseteq deleted'
    BY <1>2, <2>3
  <2>5. /\ Taking(d) => StaysShown
        /\ d.then = "open" /\ d.at = "show" => d.arg \in DOMAIN rows'
    BY <1>2 DEF Taking
  <2>6. value \subseteq value'
    OBVIOUS
  <2> QED
    BY <2>1, <2>2, <2>4, <2>5, <2>6, GrownCall
<1>3. \A s : Steady(s) => Steady(s)'
  BY DEF Steady, Found, Listed
<1>4. \A i, j \in R : i < j => \A a, b : a = calls[i] /\ b = calls[j] => PairInv(a, b)'
  BY <1>1, <1>3, PairStays DEF CallsInv
<1> QED
  BY <1>2, <1>4, CallsKept

LEMMA TableStays ==
  ASSUME TableInv, Grown, NEW R, NEW C, Rearranged(R, C), {keys, pulls}' \subseteq Nat,
         born' \in Seq(Int), UNCHANGED <<sel, session>>
  PROVE  TableInv'
BY DEF TableInv, Grown, Rearranged

(* What a sync pushed is marked. *)
LEMMA AcceptedGrown ==
  ASSUME TableInv, Accepted, UNCHANGED <<born, deleted, sel>>
  PROVE  /\ Grown /\ StaysShown /\ DOMAIN rows' = DOMAIN rows
         /\ (Row(sel).text)' = Row(sel).text /\ Shown(Row(sel))' = Shown(Row(sel))
         /\ \A id \in DOMAIN rows : rows'[id].text = rows[id].text
<1>1. DOMAIN rows' = DOMAIN rows
  BY DEF Accepted
<1>2. ASSUME NEW id \in DOMAIN rows
      PROVE  /\ rows'[id] \in NoteRow /\ rows'[id].text = rows[id].text
             /\ rows'[id].life = rows[id].life
  <2>1. PICK r : r = rows[id]
    OBVIOUS
  <2>2. r \in NoteRow
    BY <2>1 DEF TableInv, Kept
  <2>3. \/ rows'[id] = r
        \/ rows'[id] = [r EXCEPT !.known = TRUE, !.pending = r.pending /\ r # sent[id]]
    BY <2>1, <2>2 DEF Accepted, NoteRow
  <2>4. ASSUME NEW b \in BOOLEAN
        PROVE  LET q == [r EXCEPT !.known = TRUE, !.pending = b] IN
               q \in NoteRow /\ q.text = r.text /\ q.life = r.life
    BY <2>2 DEF NoteRow
  <2>5. (r.pending /\ r # sent[id]) \in BOOLEAN
    OBVIOUS
  <2>6. \/ rows'[id] = r
        \/ \E b \in BOOLEAN : rows'[id] = [r EXCEPT !.known = TRUE, !.pending = b]
    BY <2>3, <2>5
  <2> QED
    BY <2>1, <2>2, <2>4, <2>6
<1>3. Kept(rows)'
  BY <1>1, <1>2 DEF TableInv, Kept, Ids
<1>4. Grown
  BY <1>1, <1>2, <1>3 DEF Grown, Ids, TableInv, Kept
<1>5. StaysShown
  BY <1>1, <1>2 DEF StaysShown, Shown
<1>6. (Row(sel).text)' = Row(sel).text /\ Shown(Row(sel))' = Shown(Row(sel))
  BY <1>1, <1>2 DEF Row, Has, Gone, Shown
<1> QED
  BY <1>1, <1>2, <1>4, <1>5, <1>6

LEMMA AcceptedKeeps ==
  ASSUME ControllerInv, Accepted, {keys, pulls}' \subseteq Nat,
         UNCHANGED <<born, deleted, sel, session, value, job, made>>,
         NEW R \in SUBSET DOMAIN calls, NEW C, Rearranged(R, C), Leaving => Leaving',
         \A j \in DOMAIN calls \ R : calls[j].text = {},
         \A c \in C : CallInv(c)' /\ ~Writing(c) /\ ~Refreshing(c) /\ ~Taking(c)
  PROVE  ControllerInv'
<1>1. TableInv /\ ScreenInv /\ CallsInv /\ NothingLost
  BY DEF ControllerInv
<1>2. /\ Grown /\ StaysShown /\ DOMAIN rows' = DOMAIN rows
      /\ (Row(sel).text)' = Row(sel).text /\ Shown(Row(sel))' = Shown(Row(sel))
      /\ \A id \in DOMAIN rows : rows'[id].text = rows[id].text
  BY <1>1, AcceptedGrown
<1>3. TableInv'
  BY <1>1, <1>2, TableStays DEF TableInv
<1>4. CallsInv'
  <2>1. ASSUME NEW j \in R, NEW d, d = calls[j], Writing(d)
        PROVE  /\ (Row(sel).text)' \subseteq d.text
               /\ sel # Draft /\ ~Shown(Row(sel))' => d.text \subseteq deleted'
    <3>1. WriteInv(d)
      BY <2>1, CallAt
    <3> QED
      BY <2>1, <3>1, <1>2 DEF WriteInv
  <2>2. ASSUME NEW j \in R, NEW d, d = calls[j], Taking(d)
        PROVE  /\ StaysShown
               /\ d.then = "open" /\ d.at = "show" => d.arg \in DOMAIN rows'
    <3>1. ReadInv(d)
      BY <2>2, CallAt
    <3> QED
      BY <3>1, <1>2 DEF ReadInv, Has
  <2>3. \A j \in R : \A d : \A c \in C : d = calls[j] => PairInv(d, c)'
    BY DEF PairInv, Writing, Refreshing, Taking
  <2> QED
    BY <1>2, <2>1, <2>2, <2>3, TableCalls
<1>5. ASSUME NEW m \in Unwritten PROVE m \in Unwritten'
  <2>1. \E j \in R : Writing(calls[j]) /\ m \in calls[j].text
    BY UnwrittenMarks
  <2> QED
    BY <2>1, RemainUnwritten
<1>6. ScreenInv'
  <2>1. Fits(sel, value) => Fits(sel, value)'
    BY <1>2, GrownFits DEF Fits
  <2> QED
    BY <2>1, <1>1, <1>2, <1>5 DEF ScreenInv
<1>7. NothingLost'
  <2>1. ASSUME NEW m \in OnTheWay PROVE m \in OnTheWay'
    <3>1. CASE job = "set" /\ m \in value
      BY <3>1 DEF OnTheWay
    <3>2. CASE \E j \in DOMAIN calls : m \in calls[j].text
      <4>1. \E j \in R : m \in calls[j].text
        BY <3>2
      <4> QED
        BY <4>1, RemainOnTheWay
    <3> QED
      BY <3>1, <3>2, OnTheWayMarks
  <2> QED
    BY <2>1, <1>1, <1>2 DEF NothingLost
<1> QED
  BY <1>3, <1>4, <1>6, <1>7 DEF ControllerInv

LEMMA WorkerRunsKeeps ==
  ASSUME ControllerInv, WorkerRuns
  PROVE  ControllerInv'
<1>1. /\ Accepted
      /\ UNCHANGED <<born, deleted, sel, session, value, job, calls, made, keys, pulls>>
  BY DEF WorkerRuns, screen, counters, history
<1>2. Rearranged(DOMAIN calls, {})
  <2>1. PICK S : calls \in Seq(S)
    BY DEF ControllerInv, TableInv
  <2> QED
    BY <2>1, <1>1, NothingAdded
<1>3. Leaving' = Leaving
  BY <1>1 DEF Leaving, Leaves
<1>4. {keys, pulls}' \subseteq Nat
  BY <1>1, CountersTyped
<1> DEFINE R == DOMAIN calls
           C == {}
<1>5. /\ R \in SUBSET DOMAIN calls /\ Rearranged(R, C)
      /\ \A j \in DOMAIN calls \ R : calls[j].text = {}
      /\ \A c \in C : CallInv(c)' /\ ~Writing(c) /\ ~Refreshing(c) /\ ~Taking(c)
  BY <1>2
<1> HIDE DEF R, C
<1> QED
  BY <1>1, <1>3, <1>4, <1>5, AcceptedKeeps

LEMMA SyncRunsKeeps ==
  ASSUME ControllerInv, NEW i \in DOMAIN calls, SyncRuns(i)
  PROVE  ControllerInv'
<1>1. PICK c : c = calls[i]
  OBVIOUS
<1>2. Staged(c) /\ WriteInv(c) /\ ReadInv(c) /\ CallInv(c)
  BY <1>1, CallAt
<1>3. PICK d : d = [c EXCEPT !.at = "read"]
  OBVIOUS
<1>4. /\ c.at = "run" /\ Step(i, d) /\ Accepted
      /\ UNCHANGED <<born, deleted, sel, session, value, job, made, keys, pulls>>
  BY <1>1, <1>3 DEF SyncRuns, screen, counters, history
<1>5. c.then = "sync" /\ c.text = {} /\ Shaped(c)
  BY <1>2, <1>4 DEF Staged, WriteInv
<1>6. /\ Shaped(d) /\ d.then = "sync" /\ d.arg = c.arg /\ d.note = c.note /\ d.text = {}
      /\ d.shot = c.shot /\ d.at = "read" /\ d.ok = c.ok
  BY <1>3, <1>5 DEF Shaped
<1>7. CallInv(d)
  <2>1. Staged(d)
    BY <1>2, <1>4, <1>5, <1>6 DEF Staged, Taking, Changes
  <2>2. WriteInv(d) /\ ReadInv(d)
    BY <1>2, <1>4, <1>5, <1>6 DEF WriteInv, ReadInv, Writing, Refreshing, Changes
  <2> QED
    BY <2>1, <2>2 DEF CallInv
<1>8. ~Writing(d) /\ ~Refreshing(d) /\ ~Taking(d) /\ ~Leaves(c)
  BY <1>5, <1>6 DEF Writing, Leaves, Taking, Refreshing
<1> DEFINE R == DOMAIN calls \ {i}
           C == {d}
<1>9. R \in SUBSET DOMAIN calls /\ Rearranged(R, C)
  <2>1. PICK S : calls \in Seq(S)
    BY DEF ControllerInv, TableInv
  <2>2. Rearranged(DOMAIN calls \ {i}, IF d.at = "done" THEN {} ELSE {d})
    BY <2>1, <1>4, <1>8, Replaced
  <2> QED
    BY <2>2, <1>6
<1>10. Leaving => Leaving'
  <2>1. Leaving => \E j \in R : Leaves(calls[j])
    BY <1>1, <1>8 DEF Leaving
  <2> HIDE DEF R, C
  <2> QED
    BY <2>1, <1>9, LeavingAfter, Zenon
<1>11. TableInv /\ {keys, pulls}' \subseteq Nat
  BY <1>4, CountersTyped DEF ControllerInv
<1>12. CallInv(d)'
  <2>1. /\ Grown /\ StaysShown /\ DOMAIN rows' = DOMAIN rows
    BY <1>4, <1>11, AcceptedGrown
  <2>2. value \subseteq value' /\ d.then # "open"
    BY <1>4, <1>6
  <2> QED
    BY <1>4, <1>7, <1>8, <1>10, <2>1, <2>2, GrownCall
<1>13. /\ \A j \in DOMAIN calls \ R : calls[j].text = {}
       /\ \A x \in C : CallInv(x)' /\ ~Writing(x) /\ ~Refreshing(x) /\ ~Taking(x)
  BY <1>1, <1>5, <1>8, <1>12
<1> HIDE DEF R, C
<1> QED
  BY <1>4, <1>9, <1>10, <1>11, <1>13, AcceptedKeeps

(***************************************************************************)
(* Typing, and what other devices do.                                      *)
(***************************************************************************)
LEMMA SameCalls ==
  ASSUME ControllerInv, UNCHANGED calls
  PROVE  /\ Rearranged(DOMAIN calls, {}) /\ Leaving' = Leaving /\ Unwritten' = Unwritten
         /\ \A m : (\E j \in DOMAIN calls : m \in calls[j].text) => m \in OnTheWay'
<1>1. Rearranged(DOMAIN calls, {})
  <2>1. PICK S : calls \in Seq(S)
    BY DEF ControllerInv, TableInv
  <2> QED
    BY <2>1, NothingAdded
<1> QED
  BY <1>1 DEF Leaving, Leaves, Unwritten, Writing, OnTheWay

LEMMA UpdateEditorKeeps ==
  ASSUME Closed, ControllerInv, UpdateEditor
  PROVE  ControllerInv'
<1>1. TableInv /\ ScreenInv /\ CallsInv /\ NothingLost
  BY DEF ControllerInv
<1>2. PICK mark : /\ mark = [home |-> Here, n |-> keys + 1]
                  /\ value' = value \union {mark} /\ made' = made \union {mark}
  BY DEF UpdateEditor
<1>3. /\ job' = "set" /\ keys' = keys + 1 /\ MayType
      /\ UNCHANGED <<rows, sel, session, calls, pulls, deleted, born>>
  BY DEF UpdateEditor
<1>4. /\ Rearranged(DOMAIN calls, {}) /\ Leaving' = Leaving /\ Unwritten' = Unwritten
      /\ \A m : (\E j \in DOMAIN calls : m \in calls[j].text) => m \in OnTheWay'
  BY <1>3, SameCalls
<1>5. /\ sel # Draft => Row(sel).life = "active"
      /\ sel # Draft => Row(sel).text \subseteq value
      /\ ~Tapped
      /\ \A i \in DOMAIN calls : calls[i].at = "write" => calls[i].note # Draft
  BY <1>3, StaleClosed DEF MayType
<1>6. ~Leaving
  BY <1>5 DEF Leaving, Leaves, Tapped
<1>7. mark \in Mark /\ (sel = Draft => mark.home = -session) /\ (sel # Draft => mark.home = sel)
  <2>1. Here \in Int /\ keys + 1 \in Int
    BY <1>1, CountersTyped DEF Here, TableInv
  <2> QED
    BY <1>2, <2>1 DEF Mark, Here
<1>8. Grown /\ StaysShown
  BY <1>1, <1>3 DEF Grown, TableInv, Kept, Ids, StaysShown
<1>9. {keys, pulls}' \subseteq Nat
  BY <1>3, CountersTyped
<1>10. TableInv'
  BY <1>1, <1>3, <1>4, <1>8, <1>9, TableStays DEF TableInv
<1>11. ASSUME NEW j \in DOMAIN calls, NEW d, d = calls[j] PROVE CallInv(d)'
  <2>1. CallInv(d) /\ WriteInv(d) /\ ReadInv(d)
    BY <1>11, CallAt
  <2>2. ~Taking(d)
    BY <1>5, <1>11 DEF Taking, Tapped
  <2>3. Writing(d) => /\ (Row(sel).text)' \subseteq d.text
                      /\ sel = Draft => job' = "off"
                      /\ sel # Draft /\ ~Shown(Row(sel))' => d.text \subseteq deleted'
    <3>1. Row(sel)' = Row(sel)
      BY <1>3 DEF Row, Has, Gone
    <3> QED
      BY <3>1, <2>1, <1>3, <1>5, <1>11 DEF WriteInv, Writing, Shown
  <2>4. value \subseteq value' /\ (d.then = "open" /\ d.at = "show" => d.arg \in DOMAIN rows')
    BY <1>2, <2>2 DEF Taking
  <2> QED
    BY <1>3, <1>4, <1>8, <2>1, <2>2, <2>3, <2>4, GrownCall
<1>12. CallsInv'
  <2>1. \A s : Steady(s) => Steady(s)'
    BY <1>3 DEF Steady, Found, Listed
  <2>2. \A i, j \in DOMAIN calls : i < j => \A a, b : a = calls[i] /\ b = calls[j] => PairInv(a, b)'
    BY <1>1, <1>3, <1>4, <2>1, PairStays DEF CallsInv
  <2> DEFINE C == {}
  <2>3. /\ \A c \in C : CallInv(c)'
        /\ \A j \in DOMAIN calls : \A d : \A c \in C : d = calls[j] => PairInv(d, c)'
        /\ Rearranged(DOMAIN calls, C)
    BY <1>4
  <2> HIDE DEF C
  <2> QED
    BY <1>11, <2>2, <2>3, CallsKept
<1>13. ScreenInv'
  <2>1. Row(sel)' = Row(sel)
    BY <1>3 DEF Row, Has, Gone
  <2>2. Fits(sel, value)'
    BY <1>1, <1>2, <1>3, <1>6, <1>7 DEF ScreenInv, Fits, Ids
  <2>3. Row(sel).text \subseteq value
    BY <1>1, <1>5, DraftHasNoRow
  <2> QED
    BY <1>1, <1>2, <1>3, <1>4, <1>7, <2>1, <2>2, <2>3 DEF ScreenInv, Shown
<1>14. NothingLost'
  <2>1. value' \subseteq OnTheWay'
    BY <1>3 DEF OnTheWay
  <2>2. ASSUME NEW m \in OnTheWay PROVE m \in OnTheWay'
    <3>1. CASE job = "set" /\ m \in value
      BY <3>1, <2>1, <1>2
    <3>2. CASE \E j \in DOMAIN calls : m \in calls[j].text
      BY <3>2, <1>4
    <3> QED
      BY <3>1, <3>2, OnTheWayMarks
  <2> QED
    BY <2>1, <2>2, <1>1, <1>2, <1>3 DEF NothingLost
<1> QED
  BY <1>10, <1>12, <1>13, <1>14 DEF ControllerInv

LEMMA PullChangeKeeps ==
  ASSUME Closed, ControllerInv, NEW id \in DOMAIN rows, PullChange(id)
  PROVE  ControllerInv'
<1>1. TableInv /\ ScreenInv /\ CallsInv /\ NothingLost
  BY DEF ControllerInv
<1>2. PICK mark : /\ mark = [home |-> id, n |-> MaxKeys + (pulls + 1)]
                  /\ rows' = [rows EXCEPT ![id].text = rows[id].text \union {mark}]
                  /\ made' = made \union {mark}
  BY DEF PullChange
<1>3. /\ pulls' = pulls + 1 /\ ~Editing(id)
      /\ UNCHANGED <<sel, session, value, job, calls, keys, deleted, born>>
  BY StaleClosed DEF PullChange, screen
<1>4. /\ Rearranged(DOMAIN calls, {}) /\ Leaving' = Leaving /\ Unwritten' = Unwritten
      /\ \A m : (\E j \in DOMAIN calls : m \in calls[j].text) => m \in OnTheWay'
  BY <1>3, SameCalls
<1>5. mark \in Mark /\ mark.home = id /\ id \in Ids
  BY <1>1, <1>2, CountersTyped, ControllerAssumption DEF Mark, TableInv, Kept, Ids
<1>6. /\ DOMAIN rows' = DOMAIN rows
      /\ \A n \in DOMAIN rows : n # id => rows'[n] = rows[n]
      /\ rows'[id] \in NoteRow /\ rows'[id].text = rows[id].text \union {mark}
      /\ rows'[id].life = rows[id].life
  <2>1. PICK r : r = rows[id]
    OBVIOUS
  <2>2. r \in NoteRow
    BY <1>1, <2>1 DEF TableInv, Kept
  <2>3. rows'[id] = [r EXCEPT !.text = r.text \union {mark}]
    BY <1>2, <2>1
  <2>4. rows'[id] \in NoteRow /\ rows'[id].text = r.text \union {mark} /\ rows'[id].life = r.life
    BY <2>2, <2>3, <1>5 DEF NoteRow
  <2> QED
    BY <1>2, <2>1, <2>4
<1>7. Kept(rows)'
  BY <1>1, <1>3, <1>5, <1>6 DEF TableInv, Kept, Ids
<1>8. Grown /\ StaysShown
  BY <1>1, <1>3, <1>6, <1>7 DEF Grown, TableInv, Kept, Ids, StaysShown, Shown
<1>9. {keys, pulls}' \subseteq Nat
  BY <1>3, CountersTyped
<1>10. TableInv'
  BY <1>1, <1>3, <1>4, <1>8, <1>9, TableStays DEF TableInv
<1>11. /\ Row(sel).text \subseteq (Row(sel).text)' /\ Shown(Row(sel))' = Shown(Row(sel))
       /\ sel # id => (Row(sel).text)' = Row(sel).text
  BY <1>3, <1>6 DEF Row, Has, Gone, Shown
<1>12. CallsInv'
  <2>1. ASSUME NEW j \in DOMAIN calls, NEW d, d = calls[j], Writing(d)
        PROVE  /\ (Row(sel).text)' \subseteq d.text
               /\ sel # Draft /\ ~Shown(Row(sel))' => d.text \subseteq deleted'
    <3>1. WriteInv(d)
      BY <2>1, CallAt
    <3>2. sel # id
      BY <3>1, <2>1, <1>3 DEF Editing, WriteInv, Writing
    <3> QED
      BY <2>1, <3>1, <3>2, <1>3, <1>11 DEF WriteInv
  <2>2. ASSUME NEW j \in DOMAIN calls, NEW d, d = calls[j], Taking(d)
        PROVE  /\ StaysShown
               /\ d.then = "open" /\ d.at = "show" => d.arg \in DOMAIN rows'
    <3>1. ReadInv(d)
      BY <2>2, CallAt
    <3> QED
      BY <3>1, <1>6, <1>8 DEF ReadInv, Has
  <2> DEFINE C == {}
             R == DOMAIN calls
  <2>3. /\ \A c \in C : CallInv(c)'
        /\ \A j \in R : \A d : \A c \in C : d = calls[j] => PairInv(d, c)'
        /\ Rearranged(R, C) /\ R \in SUBSET DOMAIN calls
    BY <1>4
  <2> HIDE DEF C
  <2> QED
    BY <1>3, <1>4, <1>8, <2>1, <2>2, <2>3, TableCalls
<1>13. ScreenInv'
  <2>1. Fits(sel, value) => Fits(sel, value)'
    BY <1>3, <1>8, GrownFits DEF Fits
  <2>2. job = "set" => sel # id
    BY <1>3 DEF Editing
  <2> QED
    BY <2>1, <2>2, <1>1, <1>3, <1>4, <1>11 DEF ScreenInv
<1>14. NothingLost'
  <2>1. ASSUME NEW m \in OnTheWay PROVE m \in OnTheWay'
    <3>1. CASE job = "set" /\ m \in value
      BY <3>1, <1>3 DEF OnTheWay
    <3>2. CASE \E j \in DOMAIN calls : m \in calls[j].text
      BY <3>2, <1>4
    <3> QED
      BY <3>1, <3>2, OnTheWayMarks
  <2>2. \A n \in DOMAIN rows : n \in DOMAIN rows' /\ rows[n].text \subseteq rows'[n].text
    BY <1>6
  <2> QED
    BY <2>1, <2>2, <1>1, <1>2, <1>3, <1>6 DEF NothingLost
<1> QED
  BY <1>10, <1>12, <1>13, <1>14 DEF ControllerInv

LEMMA PullDeleteKeeps ==
  ASSUME Closed, ControllerInv, NEW id \in DOMAIN rows, PullDelete(id)
  PROVE  ControllerInv'
<1>1. TableInv /\ ScreenInv /\ CallsInv /\ NothingLost
  BY DEF ControllerInv
<1>2. /\ pulls' = pulls + 1 /\ sel # id /\ ~Editing(id) /\ ~Opening(id)
      /\ rows' = [j \in DOMAIN rows \ {id} |-> rows[j]]
      /\ deleted' = deleted \union rows[id].text
      /\ UNCHANGED <<sel, session, value, job, calls, keys, made, born>>
  BY StaleClosed DEF PullDelete, screen
<1>3. /\ Rearranged(DOMAIN calls, {}) /\ Leaving' = Leaving /\ Unwritten' = Unwritten
      /\ \A m : (\E j \in DOMAIN calls : m \in calls[j].text) => m \in OnTheWay'
  BY <1>2, SameCalls
<1>4. /\ DOMAIN rows' = DOMAIN rows \ {id}
      /\ \A n \in DOMAIN rows' : rows'[n] = rows[n]
  BY <1>2
<1>5. Grown /\ StaysShown
  BY <1>1, <1>2, <1>4 DEF Grown, TableInv, Kept, Ids, StaysShown, Shown
<1>6. {keys, pulls}' \subseteq Nat
  BY <1>2, CountersTyped
<1>7. TableInv'
  BY <1>1, <1>2, <1>3, <1>5, <1>6, TableStays DEF TableInv
<1>8. Row(sel)' = Row(sel)
  BY <1>2, <1>4 DEF Row, Has, Gone
<1>9. CallsInv'
  <2>1. ASSUME NEW j \in DOMAIN calls, NEW d, d = calls[j], Writing(d)
        PROVE  /\ (Row(sel).text)' \subseteq d.text
               /\ sel # Draft /\ ~Shown(Row(sel))' => d.text \subseteq deleted'
    <3>1. WriteInv(d)
      BY <2>1, CallAt
    <3> QED
      BY <2>1, <3>1, <1>2, <1>8 DEF WriteInv, Shown
  <2>2. ASSUME NEW j \in DOMAIN calls, NEW d, d = calls[j], Taking(d)
        PROVE  /\ StaysShown
               /\ d.then = "open" /\ d.at = "show" => d.arg \in DOMAIN rows'
    <3>1. ReadInv(d)
      BY <2>2, CallAt
    <3> QED
      BY <2>2, <3>1, <1>2, <1>4, <1>5 DEF ReadInv, Has, Opening
  <2> DEFINE C == {}
             R == DOMAIN calls
  <2>3. /\ \A c \in C : CallInv(c)'
        /\ \A j \in R : \A d : \A c \in C : d = calls[j] => PairInv(d, c)'
        /\ Rearranged(R, C) /\ R \in SUBSET DOMAIN calls
    BY <1>3
  <2> HIDE DEF C
  <2> QED
    BY <1>2, <1>3, <1>5, <2>1, <2>2, <2>3, TableCalls
<1>10. ScreenInv'
  <2>1. Fits(sel, value) => Fits(sel, value)'
    BY <1>2, <1>5, GrownFits DEF Fits
  <2> QED
    BY <2>1, <1>1, <1>2, <1>3, <1>8 DEF ScreenInv, Shown
<1>11. NothingLost'
  <2>1. ASSUME NEW m \in OnTheWay PROVE m \in OnTheWay'
    <3>1. CASE job = "set" /\ m \in value
      BY <3>1, <1>2 DEF OnTheWay
    <3>2. CASE \E j \in DOMAIN calls : m \in calls[j].text
      BY <3>2, <1>3
    <3> QED
      BY <3>1, <3>2, OnTheWayMarks
  <2>2. \A n \in DOMAIN rows : rows[n].text \subseteq deleted' \/ (n \in DOMAIN rows' /\ rows'[n] = rows[n])
    BY <1>2, <1>4
  <2>3. deleted \subseteq deleted'
    BY <1>2
  <2> QED
    BY <2>1, <2>2, <2>3, <1>1, <1>2 DEF NothingLost
<1> QED
  BY <1>7, <1>9, <1>10, <1>11 DEF ControllerInv

(***************************************************************************)
(* A tap changes a note, or brings one.                                    *)
(***************************************************************************)
LEMMA BornAppended ==
  ASSUME TableInv, NEW h \in Int, born' = Append(born, h)
  PROVE  /\ born' \in Seq(Int) /\ Len(born') = Len(born) + 1 /\ Len(born) \in Nat
         /\ NextId = Len(born) + 1 /\ NextId \in Ids' /\ NextId \notin Ids /\ born'[NextId] = h
         /\ Ids \subseteq Ids' /\ \A id \in Ids : born'[id] = born[id]
<1>1. born \in Seq(Int) /\ Len(born) \in Nat
  BY DEF TableInv
<1>2. /\ born' \in Seq(Int) /\ Len(born') = Len(born) + 1
      /\ \A id \in 1 .. Len(born) : born'[id] = born[id]
      /\ born'[Len(born) + 1] = h
  BY <1>1, AppendProperties
<1> QED
  BY <1>1, <1>2 DEF NextId, Ids

LEMMA ChangedFacts ==
  ASSUME NEW row \in NoteRow, NEW then \in Changes \ {"import"}
  PROVE  /\ Changed(row, then) \in NoteRow /\ Changed(row, then).text = row.text
         /\ then # "delete" => (Shown(row) => Shown(Changed(row, then)))
<1>1. CASE then = "trash"
  BY <1>1 DEF Changed, NoteRow, Shown
<1>2. CASE then = "restore"
  BY <1>2 DEF Changed, NoteRow, Shown
<1>3. CASE then = "delete"
  BY <1>3 DEF Changed, NoteRow, Shown
<1>4. CASE then = "favorite"
  BY <1>4 DEF Changed, NoteRow, Shown
<1> QED
  BY <1>1, <1>2, <1>3, <1>4 DEF Changes

LEMMA ChangeTable ==
  ASSUME TableInv, NEW i \in DOMAIN calls, Change(i), NEW c, c = calls[i], c.then \in Changes
  PROVE  /\ Grown /\ born' \in Seq(Int)
         /\ \A n \in DOMAIN rows \intersect DOMAIN rows' : rows'[n].text = rows[n].text
         /\ \A n \in DOMAIN rows :
               \/ n \in DOMAIN rows' /\ (Shown(rows[n]) => Shown(rows'[n]))
               \/ c.then = "delete" /\ n = c.arg
         /\ c.then = "delete" => deleted' = deleted \union Made(c.arg)
         /\ \A n \in DOMAIN rows \ DOMAIN rows' : rows[n].text \subseteq deleted'
<1>1. CASE c.then = "import"
  <2> DEFINE id == NextId
             row == [text |-> {}, life |-> "active", pending |-> TRUE, known |-> FALSE]
  <2>1. rows' = WithRow(id, row) /\ born' = Append(born, id) /\ deleted' = deleted
    BY <1>1 DEF Change
  <2>2. id \in Int
    BY DEF TableInv, NextId
  <2>3. /\ born' \in Seq(Int) /\ id \in Ids' /\ id \notin Ids
        /\ Ids \subseteq Ids' /\ \A n \in Ids : born'[n] = born[n]
    BY <2>1, <2>2, BornAppended
  <2>4. row \in NoteRow /\ row.text = {}
    BY DEF NoteRow
  <2> HIDE DEF id, row
  <2>5. /\ DOMAIN rows' = DOMAIN rows \union {id} /\ rows'[id] = row
        /\ \A n \in DOMAIN rows : n # id => rows'[n] = rows[n]
    BY <2>1 DEF WithRow
  <2>6. DOMAIN rows \subseteq Ids
    BY DEF TableInv, Kept
  <2>7. \A n \in DOMAIN rows : n # id
    BY <2>3, <2>6
  <2>8. Kept(rows)'
    BY <2>3, <2>4, <2>5, <2>6, <2>7 DEF TableInv, Kept
  <2>9. Grown
    BY <2>1, <2>3, <2>5, <2>7, <2>8 DEF Grown
  <2> QED
    BY <1>1, <2>3, <2>5, <2>7, <2>9
<1>2. CASE c.then # "import"
  <2> DEFINE id == c.arg
  <2>1. /\ born' = born
        /\ \/ ~Has(id) /\ rows' = rows
           \/ Has(id) /\ c.then = "delete" /\ rows' = [j \in DOMAIN rows \ {id} |-> rows[j]]
           \/ Has(id) /\ rows' = WithRow(id, Changed(rows[id], c.then))
        /\ deleted' = IF c.then = "delete" THEN deleted \union Made(id) ELSE deleted
    BY <1>2 DEF Change
  <2> HIDE DEF id
  <2>2. /\ \A n \in DOMAIN rows : n # id => n \in DOMAIN rows' /\ rows'[n] = rows[n]
        /\ DOMAIN rows' \subseteq DOMAIN rows
        /\ id \in DOMAIN rows => \/ rows'[id] = Changed(rows[id], c.then) /\ id \in DOMAIN rows'
                                 \/ c.then = "delete" /\ id \notin DOMAIN rows'
    BY <2>1 DEF WithRow, Has
  <2>3. id \in DOMAIN rows =>
          /\ Changed(rows[id], c.then) \in NoteRow /\ Changed(rows[id], c.then).text = rows[id].text
          /\ c.then # "delete" => (Shown(rows[id]) => Shown(Changed(rows[id], c.then)))
    BY <1>2, ChangedFacts DEF TableInv, Kept
  <2>4. Kept(rows)'
    BY <2>1, <2>2, <2>3 DEF TableInv, Kept, Ids
  <2>5. Grown
    BY <2>1, <2>2, <2>3, <2>4 DEF Grown, Ids
  <2>6. \A n \in DOMAIN rows \intersect DOMAIN rows' : rows'[n].text = rows[n].text
    BY <2>2, <2>3
  <2>7. \A n \in DOMAIN rows :
          \/ n \in DOMAIN rows' /\ (Shown(rows[n]) => Shown(rows'[n]))
          \/ c.then = "delete" /\ n = c.arg
    BY <2>2, <2>3 DEF id
  <2>8. \A n \in DOMAIN rows \ DOMAIN rows' : rows[n].text \subseteq deleted'
    <3>1. ASSUME NEW n \in DOMAIN rows \ DOMAIN rows' PROVE rows[n].text \subseteq deleted'
      <4>1. n = id /\ c.then = "delete" /\ Has(n)
        BY <2>2, <3>1 DEF Has
      <4> QED
        BY <4>1, <2>1 DEF Made, Row
    <3> QED
      BY <3>1
  <2>9. c.then = "delete" => deleted' = deleted \union Made(c.arg)
    BY <2>1 DEF id
  <2> QED
    BY <2>1, <2>5, <2>6, <2>7, <2>8, <2>9 DEF TableInv
<1> QED
  BY <1>1, <1>2

(* One tap at a time. *)
LEMMA OneTap ==
  ASSUME ControllerInv, NEW i \in DOMAIN calls, NEW j \in DOMAIN calls,
         Taking(calls[i]), Taking(calls[j])
  PROVE  i = j
<1>1. PICK S : calls \in Seq(S)
  BY DEF ControllerInv, TableInv
<1>2. i \in Int /\ j \in Int
  BY <1>1
<1>3. i < j \/ j < i \/ i = j
  BY <1>2
<1> QED
  BY <1>3 DEF ControllerInv, CallsInv, PairInv

LEMMA ChangeKeeps ==
  ASSUME ControllerInv, NEW i \in DOMAIN calls, Change(i)
  PROVE  ControllerInv'
<1>1. PICK c : c = calls[i]
  OBVIOUS
<1>2. Staged(c) /\ WriteInv(c) /\ ReadInv(c) /\ CallInv(c)
  BY <1>1, CallAt
<1>3. PICK id, ok : /\ id = IF c.then = "import" THEN NextId ELSE c.arg
                    /\ ok = IF sel = id THEN "open" ELSE "yes"
  OBVIOUS
<1>4. PICK d : d = [c EXCEPT !.arg = id, !.at = "read", !.ok = ok]
  OBVIOUS
<1>5. /\ c.at = "change" /\ Step(i, d)
      /\ UNCHANGED <<sel, session, value, job, made, keys, pulls>>
  BY <1>1, <1>3, <1>4 DEF Change, screen, counters
<1>6. TableInv /\ ScreenInv /\ CallsInv /\ NothingLost
  BY DEF ControllerInv
<1>7. c.then \in Changes /\ c.text = {} /\ Shaped(c) /\ Taking(c) /\ ~Leaves(c)
  BY <1>2, <1>5 DEF Staged, WriteInv, Changes, Taking, Leaves
<1>8. /\ Shaped(d) /\ d.then = c.then /\ d.arg = id /\ d.note = c.note /\ d.text = {}
      /\ d.shot = c.shot /\ d.at = "read" /\ d.ok = ok
  BY <1>4, <1>7 DEF Shaped
<1>9. \A j \in DOMAIN calls : j # i => ~Taking(calls[j])
  BY <1>1, <1>7, OneTap
<1>10. ~Leaving
  BY <1>1, <1>7, <1>9 DEF Leaving, Leaves, Taking
<1>11. /\ Grown /\ born' \in Seq(Int)
       /\ \A n \in DOMAIN rows \intersect DOMAIN rows' : rows'[n].text = rows[n].text
       /\ \A n \in DOMAIN rows :
             \/ n \in DOMAIN rows' /\ (Shown(rows[n]) => Shown(rows'[n]))
             \/ c.then = "delete" /\ n = c.arg
       /\ c.then = "delete" => deleted' = deleted \union Made(c.arg)
       /\ \A n \in DOMAIN rows \ DOMAIN rows' : rows[n].text \subseteq deleted'
  BY <1>1, <1>6, <1>7, ChangeTable
<1> DEFINE R == DOMAIN calls \ {i}
           C == {d}
<1>12. R \in SUBSET DOMAIN calls /\ Rearranged(R, C)
  <2>1. PICK S : calls \in Seq(S)
    BY <1>6 DEF TableInv
  <2>2. ~Writing(d)
    BY <1>8 DEF Writing
  <2>3. Rearranged(DOMAIN calls \ {i}, IF d.at = "done" THEN {} ELSE {d})
    BY <2>1, <2>2, <1>5, Replaced
  <2> QED
    BY <2>3, <1>8
<1>13. Leaves(d) => Leaving'
  <2>1. d \in C
    OBVIOUS
  <2> HIDE DEF R, C
  <2> QED
    BY <2>1, <1>12, LeavingAfter, Zenon
<1>14. {keys, pulls}' \subseteq Nat
  BY <1>5, CountersTyped
<1>15. TableInv'
  <2> HIDE DEF R, C
  <2> QED
    BY <1>5, <1>6, <1>11, <1>12, <1>14, TableStays
<1>16. ~Has(Draft) /\ ~Has(Draft)' /\ Row(Draft).text = {} /\ (Row(Draft).text)' = {}
  BY <1>6, <1>15 DEF TableInv, Kept, Ids, Draft, Has, Row, Gone
<1>17. (Row(sel).text)' \subseteq Row(sel).text
  <2>1. CASE sel \in DOMAIN rows'
    <3>1. sel \in DOMAIN rows
      <4>1. sel # Draft
        BY <2>1, <1>5, <1>16 DEF Has
      <4>2. Shown(Row(sel))
        BY <4>1, <1>6, <1>10 DEF ScreenInv
      <4> QED
        BY <4>2 DEF Row, Has, Gone, Shown
    <3> QED
      BY <2>1, <3>1, <1>5, <1>11 DEF Row, Has
  <2>2. CASE sel \notin DOMAIN rows'
    BY <2>2, <1>5 DEF Row, Has, Gone
  <2> QED
    BY <2>1, <2>2
<1>18. sel # Draft /\ ~Shown(Row(sel))' => c.then = "delete" /\ sel = c.arg
  <2>1. ASSUME sel # Draft, ~Shown(Row(sel))' PROVE c.then = "delete" /\ sel = c.arg
    <3>1. Shown(Row(sel))
      BY <2>1, <1>6, <1>10 DEF ScreenInv
    <3>2. sel \in DOMAIN rows /\ Shown(rows[sel])
      BY <3>1 DEF Row, Has, Gone, Shown
    <3> QED
      BY <2>1, <3>2, <1>5, <1>11 DEF Row, Has, Shown
  <2> QED
    BY <2>1
<1>19. CallInv(d)'
  <2>1. Staged(d)'
    <3>1. d.arg \in Nat
      BY <1>2, <1>3, <1>6, <1>8 DEF Staged, TableInv, NextId
    <3> QED
      BY <3>1, <1>2, <1>5, <1>7, <1>8 DEF Staged, Taking, Changes, Purposes, Shaped
  <2>2. WriteInv(d)'
    BY <1>8 DEF WriteInv, Writing
  <2>3. Past(d.shot.rows)' /\ d.shot.id \in Nat
    BY <1>2, <1>8, <1>11, GrownPast DEF ReadInv
  <2>4. ReadInv(d)'
    BY <2>3, <1>7, <1>8 DEF ReadInv, Refreshing, Changes
  <2> QED
    BY <2>1, <2>2, <2>4 DEF CallInv
<1>20. ASSUME NEW j \in R, NEW e, e = calls[j]
       PROVE  /\ ~Taking(e)
              /\ Writing(e) => /\ (Row(sel).text)' \subseteq e.text
                               /\ sel # Draft /\ ~Shown(Row(sel))' => e.text \subseteq deleted'
  <2>1. WriteInv(e) /\ j \in DOMAIN calls /\ j # i
    BY <1>20, CallAt
  <2>2. ASSUME Writing(e), sel # Draft, ~Shown(Row(sel))' PROVE e.text \subseteq deleted'
    <3>1. e.note = sel /\ c.then = "delete" /\ sel = c.arg
      BY <2>1, <2>2, <1>18 DEF WriteInv
    <3>2. e.text \subseteq Made(c.arg)
      BY <3>1, <2>1, <1>20 DEF Made
    <3> QED
      BY <3>1, <3>2, <1>11
  <2> QED
    BY <2>1, <2>2, <1>9, <1>17, <1>20 DEF WriteInv
<1>21. CallsInv'
  <2>1. ~Writing(d) /\ ~Refreshing(d)
    BY <1>8 DEF Writing, Refreshing
  <2>2. \A j \in R : \A e : \A x \in C : e = calls[j] => PairInv(e, x)'
    BY <2>1, <1>20 DEF PairInv, Writing, Refreshing, Taking
  <2>3. \A x \in C : CallInv(x)'
    BY <1>19
  <2>4. \A j \in R : \A e : e = calls[j] /\ Writing(e) =>
             /\ (Row(sel).text)' \subseteq e.text
             /\ sel # Draft /\ ~Shown(Row(sel))' => e.text \subseteq deleted'
    BY <1>20
  <2>5. \A j \in R : \A e : e = calls[j] /\ Taking(e) =>
             /\ StaysShown
             /\ e.then = "open" /\ e.at = "show" => e.arg \in DOMAIN rows'
    BY <1>20
  <2> HIDE DEF R, C
  <2> QED
    BY <1>5, <1>10, <1>11, <1>12, <2>2, <2>3, <2>4, <2>5, TableCalls
<1>22. ASSUME NEW m \in Unwritten PROVE m \in Unwritten'
  <2>1. \E j \in R : Writing(calls[j]) /\ m \in calls[j].text
    BY <1>1, <1>7, UnwrittenMarks
  <2> HIDE DEF R, C
  <2> QED
    BY <2>1, <1>12, RemainUnwritten
<1>23. ScreenInv'
  <2>1. Fits(sel, value)'
    <3>1. Fits(sel, value)
      BY <1>6, <1>10 DEF ScreenInv
    <3> QED
      BY <3>1, <1>5, <1>11, GrownFits DEF Fits
  <2>2. ASSUME ~Leaving' PROVE sel # Draft => Shown(Row(sel))'
    BY <2>2, <1>3, <1>8, <1>13, <1>18 DEF Leaves, Changes
  <2>3. ASSUME ~Leaving', job = "off" PROVE value \subseteq (Row(sel).text)' \union Unwritten'
    <3>1. value \subseteq Row(sel).text \union Unwritten
      BY <2>3, <1>6, <1>10 DEF ScreenInv
    <3>2. Row(sel).text \subseteq (Row(sel).text)'
      <4>1. CASE sel = Draft
        BY <4>1, <1>16
      <4>2. CASE sel # Draft
        BY <4>2, <2>2, <2>3, <1>5, <1>11, <1>6, <1>10 DEF ScreenInv, Row, Has, Gone, Shown
      <4> QED
        BY <4>1, <4>2
    <3> QED
      BY <3>1, <3>2, <1>22
  <2> QED
    BY <2>1, <2>2, <2>3, <1>5, <1>6, <1>17 DEF ScreenInv
<1>24. NothingLost'
  <2>1. ASSUME NEW m \in OnTheWay PROVE m \in OnTheWay'
    <3>1. CASE job = "set" /\ m \in value
      BY <3>1, <1>5 DEF OnTheWay
    <3>2. CASE \E j \in DOMAIN calls : m \in calls[j].text
      <4>1. \E j \in R : m \in calls[j].text
        BY <3>2, <1>1, <1>7
      <4> HIDE DEF R, C
      <4> QED
        BY <4>1, <1>12, RemainOnTheWay
    <3> QED
      BY <3>1, <3>2, OnTheWayMarks
  <2>2. \A n \in DOMAIN rows : \/ rows[n].text \subseteq deleted'
                               \/ n \in DOMAIN rows' /\ rows'[n].text = rows[n].text
    BY <1>11
  <2>3. deleted \subseteq deleted'
    BY <1>11 DEF Grown
  <2> QED
    BY <2>1, <2>2, <2>3, <1>5, <1>6 DEF NothingLost
<1> QED
  BY <1>15, <1>21, <1>23, <1>24 DEF ControllerInv

(***************************************************************************)
(* A save reaches the table.                                               *)
(***************************************************************************)
LEMMA ResumedFacts ==
  ASSUME NEW c, Staged(c), c.at \in {"write", "reapply"}, NEW d, d = Resumed(c)
  PROVE  /\ Shaped(d) /\ d.then = c.then /\ d.arg = c.arg /\ d.note = Draft /\ d.text = {}
         /\ d.shot = c.shot /\ d.ok = c.ok /\ d.at = First(c.then)
         /\ d.at \in {"load", "show", "lock", "change", "done"}
         /\ d.at = "load" <=> c.then = "open"
         /\ d.at = "show" <=> c.then = "draft"
         /\ d.at = "lock" <=> c.then = "sync"
         /\ d.at = "done" <=> c.then = "save"
         /\ d.at = "change" => c.then \in Changes
<1>1. Shaped(c) /\ c.then \in Purposes /\ c.then # "start"
  BY DEF Staged
<1>2. /\ Shaped(d) /\ d.then = c.then /\ d.arg = c.arg /\ d.note = Draft /\ d.text = {}
      /\ d.shot = c.shot /\ d.ok = c.ok /\ d.at = First(c.then)
  BY <1>1 DEF Resumed, Shaped
<1> QED
  BY <1>1, <1>2 DEF First, Purposes, Changes

(* The text of the screen, or of a save under way, is stored. *)
LEMMA SavedTable ==
  ASSUME TableInv, NEW text \in SUBSET Mark, sel = Draft \/ Shown(Row(sel)),
         Fits(sel, text), Row(sel).text \subseteq text, deleted' = deleted,
         NEW note, note = IF sel = Draft THEN NextId ELSE sel,
         rows' = IF sel = Draft
                 THEN WithRow(note, [text |-> text, life |-> "active", pending |-> TRUE,
                                     known |-> FALSE])
                 ELSE WithRow(note, SavedRow(rows[note], text)),
         born' = IF sel = Draft THEN Append(born, -session) ELSE born
  PROVE  /\ Grown /\ StaysShown /\ born' \in Seq(Int) /\ DOMAIN rows \subseteq DOMAIN rows'
         /\ note \in Nat /\ note # Draft
         /\ note \in DOMAIN rows' /\ rows'[note].text = text /\ Shown(rows'[note])
         /\ sel = Draft => note \in Ids' /\ born'[note] = -session
<1>1. CASE sel = Draft
  <2> DEFINE id == note
             row == [text |-> text, life |-> "active", pending |-> TRUE, known |-> FALSE]
  <2>1. rows' = WithRow(id, row) /\ born' = Append(born, -session) /\ id = NextId
    BY <1>1
  <2>2. -session \in Int
    BY DEF TableInv
  <2>3. /\ born' \in Seq(Int) /\ id \in Ids' /\ id \notin Ids /\ born'[id] = -session
        /\ Ids \subseteq Ids' /\ (\A n \in Ids : born'[n] = born[n])
        /\ id = Len(born) + 1 /\ Len(born) \in Nat
    BY <2>1, <2>2, BornAppended
  <2>4. row \in NoteRow /\ row.text = text /\ Shown(row)
    BY DEF NoteRow, Shown
  <2> HIDE DEF id, row
  <2>11. id \in Nat /\ id # Draft
    BY <2>3 DEF Draft
  <2>5. /\ DOMAIN rows' = DOMAIN rows \union {id} /\ rows'[id] = row
        /\ \A n \in DOMAIN rows : n # id => rows'[n] = rows[n]
    BY <2>1 DEF WithRow
  <2>6. DOMAIN rows \subseteq Ids
    BY DEF TableInv, Kept
  <2>7. \A n \in DOMAIN rows : n # id
    BY <2>3, <2>6
  <2>8. \A mark \in text : mark.home = born'[id]
    BY <1>1, <2>3 DEF Fits
  <2>9. Kept(rows)'
    <3>1. DOMAIN rows' \subseteq Ids'
      BY <2>3, <2>5, <2>6
    <3>2. rows'[id] \in NoteRow /\ \A mark \in rows'[id].text : mark.home \in {id, born'[id]}
      BY <2>4, <2>5, <2>8
    <3>3. ASSUME NEW n \in DOMAIN rows, n # id
          PROVE  rows'[n] \in NoteRow /\ \A mark \in rows'[n].text : mark.home \in {n, born'[n]}
      BY <3>3, <2>3, <2>5, <2>6 DEF TableInv, Kept
    <3> QED
      BY <3>1, <3>2, <3>3, <2>5 DEF Kept
  <2>10. Grown
    BY <2>1, <2>3, <2>5, <2>7, <2>9 DEF Grown
  <2> QED
    BY <1>1, <2>1, <2>3, <2>4, <2>5, <2>7, <2>10, <2>11 DEF StaysShown
<1>2. CASE sel # Draft
  <2> DEFINE id == note
  <2>1. rows' = WithRow(id, SavedRow(rows[id], text)) /\ born' = born
    BY <1>2
  <2>2. id \in DOMAIN rows /\ id = sel /\ id # Draft /\ Shown(rows[id])
    BY <1>2 DEF Row, Has, Gone, Shown
  <2> HIDE DEF id
  <2>3. /\ SavedRow(rows[id], text) \in NoteRow /\ SavedRow(rows[id], text).text = text
        /\ Shown(SavedRow(rows[id], text)) /\ rows[id].text \subseteq text
    <3>1. rows[id] \in NoteRow /\ rows[id].text \subseteq text
      BY <2>2 DEF TableInv, Kept, Row, Has
    <3>2. ASSUME NEW r \in NoteRow, Shown(r)
          PROVE  SavedRow(r, text) \in NoteRow /\ SavedRow(r, text).text = text
                 /\ Shown(SavedRow(r, text))
      BY <3>2 DEF NoteRow, SavedRow, Shown
    <3> QED
      BY <2>2, <3>1, <3>2
  <2>4. /\ DOMAIN rows' = DOMAIN rows /\ rows'[id] = SavedRow(rows[id], text)
        /\ \A n \in DOMAIN rows : n # id => rows'[n] = rows[n]
    BY <2>1, <2>2 DEF WithRow
  <2>5. id \in Ids /\ (\A mark \in text : mark.home \in {id, born[id]})
    BY <2>2 DEF Fits
  <2>6. Kept(rows)'
    BY <2>1, <2>3, <2>4, <2>5 DEF TableInv, Kept, Ids
  <2>7. Grown
    BY <2>1, <2>3, <2>4, <2>6 DEF Grown, Ids
  <2> QED
    BY <2>1, <2>2, <2>3, <2>4, <2>7 DEF StaysShown, TableInv
<1> QED
  BY <1>1, <1>2

LEMMA WriteTable ==
  ASSUME TableInv, NEW i \in DOMAIN calls, Write(i), NEW c, c = calls[i],
         c.note = Draft \/ Shown(Row(c.note)), c.note = sel, c.text \subseteq Mark,
         Fits(sel, c.text), Row(sel).text \subseteq c.text
  PROVE  /\ Grown /\ StaysShown /\ born' \in Seq(Int) /\ DOMAIN rows \subseteq DOMAIN rows'
         /\ sel' \in Nat /\ sel' # Draft /\ (sel # Draft => sel' = sel)
         /\ sel' \in DOMAIN rows' /\ rows'[sel'].text = c.text /\ Shown(rows'[sel'])
         /\ sel = Draft => sel' \in Ids' /\ born'[sel'] = -session
<1> DEFINE text == c.text
<1>1. PICK note : note = IF sel = Draft THEN NextId ELSE sel
  OBVIOUS
<1>2. /\ deleted' = deleted /\ sel' = note
      /\ rows' = IF sel = Draft
                 THEN WithRow(note, [text |-> text, life |-> "active", pending |-> TRUE,
                                     known |-> FALSE])
                 ELSE WithRow(note, SavedRow(rows[note], text))
      /\ born' = IF sel = Draft THEN Append(born, -session) ELSE born
  BY <1>1 DEF Write
<1>3. text \in SUBSET Mark /\ Fits(sel, text) /\ Row(sel).text \subseteq text
  OBVIOUS
<1> HIDE DEF text
<1>4. /\ Grown /\ StaysShown /\ born' \in Seq(Int) /\ DOMAIN rows \subseteq DOMAIN rows'
      /\ note \in Nat /\ note # Draft
      /\ note \in DOMAIN rows' /\ rows'[note].text = text /\ Shown(rows'[note])
      /\ sel = Draft => note \in Ids' /\ born'[note] = -session
  BY <1>1, <1>2, <1>3, SavedTable
<1> QED
  BY <1>1, <1>2, <1>4 DEF text

LEMMA WriteKeeps ==
  ASSUME Closed, ControllerInv, NEW i \in DOMAIN calls, Write(i),
         calls[i].note = Draft \/ Shown(Row(calls[i].note))
  PROVE  ControllerInv'
<1>1. PICK c : c = calls[i]
  OBVIOUS
<1>2. Staged(c) /\ WriteInv(c) /\ ReadInv(c) /\ CallInv(c)
  BY <1>1, CallAt
<1>3. PICK d : d = Resumed(c)
  OBVIOUS
<1>4. /\ c.at = "write" /\ Step(i, d) /\ FirstInLine(i)
      /\ UNCHANGED <<session, value, job, made, keys, pulls, deleted>>
  BY <1>1, <1>3, StaleClosed DEF Write, counters
<1>5. TableInv /\ ScreenInv /\ CallsInv /\ NothingLost
  BY DEF ControllerInv
<1>6. /\ c.note = sel /\ Fits(sel, c.text) /\ Row(sel).text \subseteq c.text /\ c.text \subseteq Mark
      /\ sel = Draft => job = "off"
      /\ ~Leaving => c.text \subseteq value
  BY <1>2, <1>4 DEF WriteInv, Writing, Staged
<1>7. /\ Grown /\ StaysShown /\ born' \in Seq(Int) /\ DOMAIN rows \subseteq DOMAIN rows'
      /\ sel' \in Nat /\ sel' # Draft /\ (sel # Draft => sel' = sel)
      /\ sel' \in DOMAIN rows' /\ rows'[sel'].text = c.text /\ Shown(rows'[sel'])
      /\ sel = Draft => sel' \in Ids' /\ born'[sel'] = -session
  BY <1>1, <1>5, <1>6, WriteTable
<1>8. (Row(sel).text)' = c.text /\ Shown(Row(sel))'
  BY <1>7 DEF Row, Has, Shown
<1>9. /\ Shaped(d) /\ d.then = c.then /\ d.arg = c.arg /\ d.note = Draft /\ d.text = {}
      /\ d.shot = c.shot /\ d.ok = c.ok /\ d.at = First(c.then)
      /\ d.at \in {"load", "show", "lock", "change", "done"}
      /\ d.at = "load" <=> c.then = "open"
      /\ d.at = "show" <=> c.then = "draft"
      /\ d.at = "lock" <=> c.then = "sync"
      /\ d.at = "done" <=> c.then = "save"
      /\ d.at = "change" => c.then \in Changes
  BY <1>2, <1>3, <1>4, ResumedFacts
<1>10. ~Writing(d) /\ ~Refreshing(d) /\ Writing(c) /\ (Taking(d) <=> Taking(c)) /\ (Leaves(d) <=> Leaves(c))
       /\ (Leaves(c) => d.at # "done")
  BY <1>4, <1>9 DEF Writing, Refreshing, Taking, Leaves
<1> DEFINE R == DOMAIN calls \ {i}
           C == IF d.at = "done" THEN {} ELSE {d}
<1>11. R \in SUBSET DOMAIN calls /\ Rearranged(R, C)
  <2>1. PICK S : calls \in Seq(S)
    BY <1>5 DEF TableInv
  <2> QED
    BY <2>1, <1>4, <1>10, Replaced
<1>12. Leaving => Leaving'
  <2>1. Leaving => (\E j \in R : Leaves(calls[j])) \/ (\E x \in C : Leaves(x))
    BY <1>1, <1>10 DEF Leaving
  <2> HIDE DEF R, C
  <2> QED
    BY <2>1, <1>11, LeavingAfter, Zenon
<1>13. {keys, pulls}' \subseteq Nat
  BY <1>4, CountersTyped
<1>14. TableInv'
  <2> HIDE DEF R, C
  <2> QED
    BY <1>4, <1>5, <1>7, <1>11, <1>13 DEF TableInv, Grown, Rearranged
<1>15. \A s : Steady(s) => Steady(s)'
  BY <1>7 DEF Steady, Found, Listed
<1>16. ASSUME NEW j \in R, NEW e, e = calls[j]
       PROVE  PairInv(e, c) \/ PairInv(c, e)
  <2>1. j \in DOMAIN calls /\ j # i
    OBVIOUS
  <2>2. i < j \/ j < i
    <3>1. PICK S : calls \in Seq(S)
      BY <1>5 DEF TableInv
    <3>2. DOMAIN calls \subseteq Int
      BY <3>1
    <3> QED
      BY <3>2, <2>1
  <2> QED
    BY <2>1, <2>2, <1>1, <1>5, <1>16 DEF CallsInv
<1>17. ASSUME NEW j \in R, NEW e, e = calls[j], Writing(e)
       PROVE  sel # Draft /\ c.text \subseteq e.text
  <2>1. j \in DOMAIN calls /\ j # i /\ WriteInv(e)
    BY <1>17, CallAt
  <2>2. sel # Draft
    BY <1>16, <1>17, <1>10 DEF PairInv
  <2>3. e.note = c.note /\ e.at = "write"
    BY <2>1, <1>6, <1>17 DEF WriteInv, Writing
  <2>4. PICK S : calls \in Seq(S)
    BY <1>5 DEF TableInv
  <2>5. j \in Int /\ i \in Int /\ DOMAIN calls = 1 .. Len(calls) /\ Len(calls) \in Nat
    BY <2>1, <2>4
  <2>6. ~(j < i)
    <3>1. ASSUME j < i PROVE FALSE
      <4>1. j \in 1 .. i - 1
        BY <2>1, <2>5, <3>1
      <4> QED
        BY <4>1, <2>3, <1>1, <1>4, <1>17 DEF FirstInLine
    <3> QED
      BY <3>1
  <2>7. i < j
    BY <2>1, <2>5, <2>6
  <2>8. PairInv(c, e)
    BY <2>1, <2>7, <1>1, <1>5, <1>17 DEF CallsInv
  <2> QED
    BY <2>2, <2>8, <1>10, <1>17 DEF PairInv
<1>18. ASSUME NEW j \in R, NEW e, e = calls[j]
       PROVE  CallInv(e)'
  <2>1. Staged(e) /\ WriteInv(e) /\ ReadInv(e) /\ j \in DOMAIN calls
    BY <1>18, CallAt
  <2>2. Staged(e)'
    BY <2>1, <1>4 DEF Staged, Shaped, Taking
  <2>3. WriteInv(e)'
    <3>1. CASE Writing(e)
      <4>1. sel # Draft /\ c.text \subseteq e.text /\ sel' = sel
        BY <3>1, <1>7, <1>17, <1>18
      <4>2. Fits(sel, e.text)'
        BY <3>1, <4>1, <2>1, <1>4, <1>7, GrownFits DEF WriteInv, Fits
      <4> QED
        BY <3>1, <4>1, <4>2, <2>1, <1>4, <1>7, <1>8, <1>12 DEF WriteInv, Writing
    <3>2. CASE ~Writing(e)
      BY <3>2, <2>1, <1>4 DEF WriteInv, Writing
    <3> QED
      BY <3>1, <3>2
  <2>4. e.then = "open" /\ e.at = "show" => e.arg \in DOMAIN rows'
    BY <2>1, <1>7 DEF ReadInv, Has
  <2>5. ReadInv(e)'
    BY <2>1, <2>4, <1>7, <1>12, <1>15, GrownReads
  <2> QED
    BY <2>2, <2>3, <2>5 DEF CallInv
<1>19. ASSUME d.at # "done" PROVE CallInv(d)'
  <2>1. Staged(d)
    BY <1>2, <1>4, <1>9, <1>19 DEF Staged, Taking, Changes, Purposes
  <2>2. Staged(d)'
    BY <2>1, <1>4 DEF Staged, Shaped, Taking
  <2>3. WriteInv(d)'
    BY <1>9 DEF WriteInv, Writing
  <2>4. ReadInv(d)
    BY <1>2, <1>9, <1>10 DEF ReadInv
  <2>5. ~(d.then = "open" /\ d.at = "show")
    BY <1>9
  <2>6. ReadInv(d)'
    BY <2>1, <2>4, <2>5, <1>7, <1>12, <1>15, GrownReads
  <2> QED
    BY <2>2, <2>3, <2>6 DEF CallInv
<1>20. CallsInv'
  <2>1. \A i1, j1 \in R : i1 < j1 => \A a, b : a = calls[i1] /\ b = calls[j1] => PairInv(a, b)'
    BY <1>5, <1>7, <1>12, <1>15, PairStays DEF CallsInv
  <2>2. ASSUME NEW j \in R, NEW e, NEW x \in C, e = calls[j]
        PROVE  PairInv(e, x)'
    <3>1. x = d
      BY <2>2
    <3>2. PairInv(e, d)
      BY <2>2, <1>10, <1>16, PairMoves
    <3> QED
      BY <3>1, <3>2, <1>7, <1>12, <1>15, PairStays
  <2>3. \A x \in C : CallInv(x)'
    BY <1>19
  <2> HIDE DEF R, C
  <2> QED
    BY <1>11, <1>18, <2>1, <2>2, <2>3, CallsKept
<1>21. ASSUME NEW m \in Unwritten PROVE m \in c.text \union Unwritten'
  <2>1. m \in c.text \/ \E j \in R : Writing(calls[j]) /\ m \in calls[j].text
    BY <1>1, UnwrittenMarks
  <2> HIDE DEF R, C
  <2> QED
    BY <2>1, <1>11, RemainUnwritten
<1>22. ScreenInv'
  <2>1. ~Leaving => Fits(sel, value)'
    <3>1. ASSUME ~Leaving PROVE Fits(sel, value)'
      <4>1. Fits(sel, value)
        BY <3>1, <1>5 DEF ScreenInv
      <4>2. CASE sel = Draft
        BY <4>1, <4>2, <1>4, <1>7 DEF Fits
      <4>3. CASE sel # Draft
        BY <4>1, <4>3, <1>4, <1>7, GrownFits DEF Fits
      <4> QED
        BY <4>2, <4>3
    <3> QED
      BY <3>1
  <2>2. job = "set" => c.text \subseteq value
    BY <1>5, <1>6, SetStays
  <2>3. ~Leaving /\ job = "off" => value \subseteq c.text \union Unwritten'
    BY <1>5, <1>6, <1>21 DEF ScreenInv
  <2> QED
    BY <2>1, <2>2, <2>3, <1>4, <1>5, <1>8, <1>12 DEF ScreenInv
<1>23. NothingLost'
  <2>1. ASSUME NEW m \in OnTheWay PROVE m \in c.text \union OnTheWay'
    <3>1. CASE job = "set" /\ m \in value
      BY <3>1, <1>4 DEF OnTheWay
    <3>2. CASE \E j \in DOMAIN calls : m \in calls[j].text
      <4>1. m \in c.text \/ \E j \in R : m \in calls[j].text
        BY <3>2, <1>1
      <4> HIDE DEF R, C
      <4> QED
        BY <4>1, <1>11, RemainOnTheWay
    <3> QED
      BY <3>1, <3>2, OnTheWayMarks
  <2>2. \A n \in DOMAIN rows : n \in DOMAIN rows' /\ rows[n].text \subseteq rows'[n].text
    BY <1>5, <1>7 DEF Grown, TableInv, Kept
  <2>3. c.text \subseteq UNION {rows'[n].text : n \in DOMAIN rows'}
    BY <1>7
  <2> QED
    BY <2>1, <2>2, <2>3, <1>4, <1>5 DEF NothingLost
<1> QED
  BY <1>14, <1>20, <1>22, <1>23 DEF ControllerInv

----------------------------------------------------------------------------
(***************************************************************************)
(* Another note, or an empty draft, is shown: nothing to save and no       *)
(* refresh is left then.                                                   *)
(***************************************************************************)
LEMMA Cleared ==
  ASSUME ControllerInv, NEW i \in DOMAIN calls, NEW c, c = calls[i],
         Taking(c), c.text \subseteq deleted, job = "off",
         \A j \in DOMAIN calls \ {i} : ~Writing(calls[j]) /\ ~Refreshing(calls[j]),
         calls' = RemoveAt(calls, i), UNCHANGED <<rows, born, deleted, made, keys, pulls>>,
         job' = "off", sel' \in Nat, session' \in Nat, value' \subseteq Mark,
         Fits(sel, value)', sel' # Draft => Shown(Row(sel))', value' \subseteq (Row(sel).text)'
  PROVE  ControllerInv'
<1>1. TableInv /\ ScreenInv /\ CallsInv /\ NothingLost
  BY DEF ControllerInv
<1> DEFINE R == DOMAIN calls \ {i}
           C == {}
<1>2. R \in SUBSET DOMAIN calls /\ Rearranged(R, C)
  <2>1. PICK S : calls \in Seq(S)
    BY <1>1 DEF TableInv
  <2> QED
    BY <2>1, Removed
<1>3. Kept(rows)'
  BY <1>1 DEF TableInv, Kept, Ids
<1>4. TableInv'
  <2> HIDE DEF R, C
  <2> QED
    BY <1>1, <1>2, <1>3, CountersTyped DEF TableInv, Rearranged
<1>5. ASSUME NEW j \in R, NEW e, e = calls[j]
      PROVE  ~Taking(e) /\ ~Writing(e) /\ ~Refreshing(e) /\ CallInv(e)
  <2>1. j \in DOMAIN calls /\ j # i
    OBVIOUS
  <2>2. ~Taking(calls[j])
    BY <2>1, OneTap
  <2> QED
    BY <2>1, <2>2, <1>5, CallAt DEF Taking, Writing, Refreshing
<1>6. ASSUME NEW j \in R, NEW e, e = calls[j]
      PROVE  CallInv(e)'
  <2>1. ~Taking(e) /\ ~Writing(e) /\ ~Refreshing(e) /\ Staged(e) /\ WriteInv(e) /\ ReadInv(e)
    BY <1>5, <1>6 DEF CallInv
  <2>2. Staged(e)'
    BY <2>1 DEF Staged, Shaped, Taking
  <2>3. WriteInv(e)'
    BY <2>1 DEF WriteInv, Writing
  <2>4. Past(e.shot.rows)'
    BY <2>1 DEF ReadInv, Past, Kept, Ids, Has
  <2>5. ReadInv(e)'
    BY <2>1, <2>4 DEF ReadInv, Taking, Changes, Refreshing
  <2> QED
    BY <2>2, <2>3, <2>5 DEF CallInv
<1>7. CallsInv'
  <2>1. \A a, b : ~Taking(a) /\ ~Writing(a) /\ ~Writing(b) => PairInv(a, b)'
    BY DEF PairInv, Taking, Writing
  <2>2. \A i1, j1 \in R : i1 < j1 => \A a, b : a = calls[i1] /\ b = calls[j1] => PairInv(a, b)'
    BY <2>1, <1>5
  <2>3. /\ \A x \in C : CallInv(x)'
        /\ \A j \in R : \A e : \A x \in C : e = calls[j] => PairInv(e, x)'
    OBVIOUS
  <2> HIDE DEF R, C
  <2> QED
    BY <1>2, <1>6, <2>2, <2>3, CallsKept
<1>8. ScreenInv'
  BY <1>4 DEF ScreenInv
<1>9. NothingLost'
  <2>1. ASSUME NEW m \in OnTheWay PROVE m \in deleted \union OnTheWay'
    <3>1. \E j \in DOMAIN calls : m \in calls[j].text
      BY <2>1, OnTheWayMarks
    <3>2. m \in c.text \/ \E j \in R : m \in calls[j].text
      BY <3>1
    <3> HIDE DEF R, C
    <3> QED
      BY <3>2, <1>2, RemainOnTheWay
  <2> QED
    BY <2>1, <1>1 DEF NothingLost
<1> QED
  BY <1>4, <1>7, <1>8, <1>9 DEF ControllerInv

(* An empty draft. *)
LEMMA DraftFits ==
  ASSUME TableInv, ShowDraft, job = "off", UNCHANGED <<rows, born>>
  PROVE  /\ job' = "off" /\ sel' = Draft /\ value' = {} /\ sel' \in Nat /\ session' \in Nat
         /\ value' \subseteq Mark /\ Fits(sel, value)' /\ value' \subseteq (Row(sel).text)'
BY DEF TableInv, ShowDraft, Draft, Fits

LEMMA ShowKeeps ==
  ASSUME Closed, ControllerInv, NEW i \in DOMAIN calls, Show(i)
  PROVE  ControllerInv'
<1>1. PICK c : c = calls[i]
  OBVIOUS
<1>2. Staged(c) /\ WriteInv(c) /\ ReadInv(c)
  BY <1>1, CallAt
<1>3. c.at = "show" /\ MayShow(i) /\ UNCHANGED <<rows, born, deleted, made, keys, pulls>>
  BY <1>1 DEF Show, counters, history
<1>4. c.then \in {"open", "draft"} /\ c.text = {} /\ Taking(c) /\ job = "off" /\ Shaped(c)
  BY <1>2, <1>3 DEF Staged, WriteInv, Taking
<1>5. calls' = RemoveAt(calls, i)
  <2>1. PICK d : d = [c EXCEPT !.at = "done"]
    OBVIOUS
  <2>2. Step(i, d) /\ d.at = "done"
    BY <1>1, <1>4, <2>1 DEF Show, Shaped
  <2> QED
    BY <2>2 DEF Step
<1>6. \A j \in DOMAIN calls \ {i} : ~Writing(calls[j]) /\ ~Refreshing(calls[j])
  BY <1>3, StaleClosed DEF MayShow, Writing, Refreshing
<1>7. TableInv /\ c.text \subseteq deleted
  BY <1>4 DEF ControllerInv
<1>8. CASE c.then = "draft"
  <2>1. ShowDraft
    BY <1>1, <1>8 DEF Show
  <2>2. /\ job' = "off" /\ sel' = Draft /\ value' = {} /\ sel' \in Nat /\ session' \in Nat
        /\ value' \subseteq Mark /\ Fits(sel, value)' /\ value' \subseteq (Row(sel).text)'
    BY <2>1, <1>3, <1>4, <1>7, DraftFits
  <2> QED
    BY <1>1, <1>3, <1>4, <1>5, <1>6, <1>7, <2>2, Cleared
<1>9. CASE c.then = "open"
  <2>1. sel' = c.arg /\ value' = c.shot.rows[c.arg].text /\ UNCHANGED <<session, job>>
    BY <1>1, <1>9 DEF Show
  <2>2. /\ Openable(c.arg) /\ Has(c.arg) /\ c.arg \in DOMAIN c.shot.rows
        /\ Past(c.shot.rows) /\ c.arg \in Nat
    BY <1>2, <1>3, <1>9 DEF ReadInv, Staged
  <2>3. /\ c.shot.rows[c.arg].text \subseteq Mark
        /\ \A mark \in c.shot.rows[c.arg].text : mark.home \in {c.arg, born[c.arg]}
        /\ c.shot.rows[c.arg].text \subseteq rows[c.arg].text
    BY <2>2 DEF Past, Kept, NoteRow
  <2>4. c.arg \in Ids /\ c.arg # Draft /\ Shown(rows[c.arg])
    BY <2>2 DEF Openable, Ids, Draft
  <2>5. /\ Fits(sel, value)' /\ Shown(Row(sel))' /\ value' \subseteq (Row(sel).text)'
        /\ value' \subseteq Mark
    BY <1>3, <2>1, <2>2, <2>3, <2>4 DEF Fits, Ids, Row, Has, Shown
  <2>6. sel' \in Nat /\ session' \in Nat /\ job' = "off"
    BY <1>4, <1>7, <2>1, <2>2 DEF TableInv
  <2> QED
    BY <1>1, <1>3, <1>4, <1>5, <1>6, <1>7, <2>5, <2>6, Cleared
<1> QED
  BY <1>4, <1>8, <1>9

----------------------------------------------------------------------------
(***************************************************************************)
(* A refresh selects and shows again what it read.                         *)
(***************************************************************************)
LEMMA RefreshFacts ==
  ASSUME ControllerInv, NEW i \in DOMAIN calls, NEW c, c = calls[i], Refreshing(c),
         Refreshed(c.shot), UNCHANGED <<rows, born>>
  PROVE  /\ sel' \in Nat /\ session' \in Nat /\ value' \subseteq Mark
         /\ c.text \subseteq deleted
         /\ Steady(c.shot) => UNCHANGED <<sel, session>>
         /\ job = "set" => UNCHANGED <<sel, session, value>> /\ ~Leaving
         /\ ~Leaving => /\ Steady(c.shot) /\ Fits(sel, value)'
                        /\ value' \subseteq Row(sel).text \union value
         /\ \A j \in DOMAIN calls \ {i} : Writing(calls[j]) => Leaving /\ Steady(c.shot)
<1>1. TableInv /\ ScreenInv /\ CallsInv /\ Staged(c) /\ WriteInv(c) /\ ReadInv(c)
  BY CallAt DEF ControllerInv
<1> DEFINE s == c.shot
<1>2. /\ sel' = SelAfter(s) /\ value' = ValueAfter(s)
      /\ session' = IF sel # Draft /\ sel' = Draft THEN session + 1 ELSE session
  BY DEF Refreshed
<1>3. s.id \in Nat /\ Past(s.rows) /\ (~Leaving => Steady(s)) /\ c.text \subseteq deleted
  BY <1>1 DEF ReadInv, Refreshing, WriteInv
<1>4. Found(s) => /\ s.id \in DOMAIN s.rows /\ s.id \in Ids /\ s.id # Draft
                  /\ s.rows[s.id].text \subseteq Mark
                  /\ \A mark \in s.rows[s.id].text : mark.home \in {s.id, born[s.id]}
                  /\ Has(s.id) => s.rows[s.id].text \subseteq rows[s.id].text
  BY <1>3 DEF Found, Listed, Past, Kept, NoteRow, Ids, Draft
<1> HIDE DEF s
<1>5. sel' \in Nat /\ session' \in Nat
  BY <1>1, <1>2, <1>3 DEF SelAfter, TableInv, Draft
<1>6. value' \subseteq Mark
  BY <1>1, <1>2, <1>4 DEF ValueAfter, ScreenInv
<1>7. Steady(s) => UNCHANGED <<sel, session>>
  BY <1>2 DEF Steady, SelAfter
<1>8. job = "set" => ~Leaving /\ UNCHANGED value
  BY <1>1, <1>2, SetStays DEF ValueAfter
<1>9. ASSUME ~Leaving
      PROVE  Fits(sel, value)' /\ value' \subseteq Row(sel).text \union value
  <2>1. Fits(sel, value) /\ (sel # Draft => Shown(Row(sel))) /\ Steady(s)
    BY <1>1, <1>3, <1>9 DEF ScreenInv
  <2>2. CASE Found(s) /\ job = "off"
    <3>1. s.id = sel /\ value' = s.rows[s.id].text
      BY <2>1, <2>2, <1>2, <1>4 DEF Steady, ValueAfter
    <3>2. Has(sel)
      BY <2>1, <3>1, <1>4, <2>2 DEF Row, Gone, Shown
    <3> QED
      BY <3>1, <3>2, <2>1, <2>2, <1>4, <1>7 DEF Fits, Ids, Row
  <2>3. CASE ~(Found(s) /\ job = "off")
    BY <2>1, <2>3, <1>2, <1>7 DEF Fits, Ids, ValueAfter
  <2> QED
    BY <2>2, <2>3
<1>10. ASSUME NEW j \in DOMAIN calls \ {i}, Writing(calls[j])
       PROVE  Leaving /\ Steady(s)
  <2>1. PICK S : calls \in Seq(S)
    BY <1>1 DEF TableInv
  <2>2. DOMAIN calls \subseteq Int
    BY <2>1
  <2>3. i < j \/ j < i
    BY <2>2
  <2> QED
    BY <2>3, <1>1, <1>10 DEF CallsInv, PairInv, s
<1> QED
  BY <1>3, <1>5, <1>6, <1>7, <1>8, <1>9, <1>10 DEF s

LEMMA RefreshTable ==
  ASSUME TableInv, UNCHANGED <<rows, born, keys, pulls>>, sel' \in Nat, session' \in Nat,
         NEW R, NEW C, Rearranged(R, C)
  PROVE  TableInv'
<1>1. Kept(rows)'
  BY DEF TableInv, Kept, Ids
<1> QED
  BY <1>1 DEF TableInv, Rearranged

LEMMA RefreshedKeeps ==
  ASSUME ControllerInv, NEW i \in DOMAIN calls, NEW c, c = calls[i], Refreshing(c),
         Refreshed(c.shot), UNCHANGED <<rows, born, deleted, made, keys, pulls>>,
         job' \in {job, "off"},
         NEW C, Rearranged(DOMAIN calls \ {i}, C), Leaving => Leaving',
         \A x \in C : CallInv(x)',
         \A j \in DOMAIN calls \ {i} : \A e : \A x \in C : e = calls[j] => PairInv(e, x)',
         job # job' => value' \subseteq Unwritten'
  PROVE  ControllerInv'
<1>1. TableInv /\ ScreenInv /\ CallsInv /\ NothingLost
  BY DEF ControllerInv
<1>2. /\ sel' \in Nat /\ session' \in Nat /\ value' \subseteq Mark
      /\ c.text \subseteq deleted
      /\ Steady(c.shot) => UNCHANGED <<sel, session>>
      /\ job = "set" => UNCHANGED <<sel, session, value>> /\ ~Leaving
      /\ ~Leaving => /\ Steady(c.shot) /\ Fits(sel, value)'
                     /\ value' \subseteq Row(sel).text \union value
      /\ \A j \in DOMAIN calls \ {i} : Writing(calls[j]) => Leaving /\ Steady(c.shot)
  BY RefreshFacts
<1> DEFINE R == DOMAIN calls \ {i}
<1>3. R \in SUBSET DOMAIN calls /\ Rearranged(R, C)
  OBVIOUS
<1>4. TableInv'
  BY <1>1, <1>2, <1>3, RefreshTable
<1>5. ASSUME NEW j \in R, NEW e, e = calls[j], Writing(e)
      PROVE  Leaving /\ UNCHANGED <<sel, session>>
  BY <1>2, <1>5
<1>6. ASSUME NEW j \in R, NEW e, e = calls[j]
      PROVE  CallInv(e)'
  <2>1. Staged(e) /\ WriteInv(e) /\ ReadInv(e)
    BY <1>6, CallAt
  <2>2. Staged(e)'
    BY <2>1 DEF Staged, Shaped, Taking
  <2>3. WriteInv(e)'
    <3>1. CASE Writing(e)
      <4>1. Leaving /\ UNCHANGED <<sel, session>>
        BY <3>1, <1>5, <1>6
      <4>2. Row(sel)' = Row(sel) /\ (Fits(sel, e.text) => Fits(sel, e.text)')
        BY <4>1 DEF Row, Has, Gone, Fits, Ids
      <4> QED
        BY <3>1, <4>1, <4>2, <2>1 DEF WriteInv, Writing, Shown
    <3>2. CASE ~Writing(e)
      BY <3>2, <2>1 DEF WriteInv, Writing
    <3> QED
      BY <3>1, <3>2
  <2>4. Past(e.shot.rows)'
    BY <2>1 DEF ReadInv, Past, Kept, Ids, Has
  <2>5. (Refreshing(e) /\ ~Leaving => Steady(e.shot))'
    BY <2>1, <1>2 DEF ReadInv, Refreshing, Steady, Found, Listed
  <2>6. ReadInv(e)'
    BY <2>1, <2>4, <2>5 DEF ReadInv, Openable, Ids, Has, Shown
  <2> QED
    BY <2>2, <2>3, <2>6 DEF CallInv
<1>7. ASSUME NEW k \in R, NEW l \in R, k < l, NEW a, NEW b, a = calls[k], b = calls[l]
      PROVE  PairInv(a, b)'
  <2>1. PairInv(a, b)
    BY <1>1, <1>7 DEF CallsInv
  <2>2. CASE ~Writing(a) /\ ~Writing(b)
    BY <2>1, <2>2 DEF PairInv, Taking, Writing
  <2>3. CASE Writing(a) \/ Writing(b)
    <3>1. UNCHANGED sel
      BY <2>3, <1>5, <1>7
    <3>2. (\A s : Steady(s) => Steady(s)') /\ (sel # Draft => sel' # Draft)
      BY <3>1 DEF Steady, Found, Listed
    <3> QED
      BY <2>1, <3>2, PairStays
  <2> QED
    BY <2>2, <2>3
<1>8. CallsInv'
  <2>1. \A k, l \in R : k < l => \A a, b : a = calls[k] /\ b = calls[l] => PairInv(a, b)'
    BY <1>7
  <2> HIDE DEF R
  <2> QED
    BY <1>3, <1>6, <2>1, CallsKept DEF R
<1>9. ~Leaving => Unwritten = {}
  <2>1. ASSUME ~Leaving, NEW m \in Unwritten PROVE FALSE
    <3>1. PICK j \in DOMAIN calls : Writing(calls[j])
      BY <2>1, UnwrittenMarks
    <3>2. j # i
      BY <3>1 DEF Writing, Refreshing
    <3> QED
      BY <3>1, <3>2, <2>1, <1>2
  <2> QED
    BY <2>1
<1>10. ScreenInv'
  <2>1. ~Leaving => Row(sel)' = Row(sel)
    BY <1>2 DEF Row, Has, Gone
  <2>2. ASSUME ~Leaving, job' = "off" PROVE value' \subseteq (Row(sel).text)' \union Unwritten'
    <3>1. CASE job = "off"
      BY <2>1, <2>2, <3>1, <1>1, <1>2, <1>9 DEF ScreenInv
    <3>2. CASE job = "set"
      BY <2>2, <3>2
    <3> QED
      BY <3>1, <3>2, <1>1 DEF ScreenInv
  <2> QED
    BY <2>1, <2>2, <1>1, <1>2 DEF ScreenInv, Shown
<1>11. NothingLost'
  <2>1. ASSUME NEW m \in OnTheWay PROVE m \in deleted \union OnTheWay'
    <3>1. CASE job = "set" /\ m \in value
      <4>1. CASE job' = "set"
        BY <3>1, <4>1, <1>2 DEF OnTheWay
      <4>2. CASE job' # "set"
        <5>1. m \in Unwritten'
          BY <3>1, <4>2, <1>2
        <5> QED
          BY <5>1 DEF Unwritten, OnTheWay
      <4> QED
        BY <4>1, <4>2
    <3>2. CASE \E j \in DOMAIN calls : m \in calls[j].text
      <4>1. m \in deleted \/ \E j \in R : m \in calls[j].text
        BY <3>2, <1>2
      <4> HIDE DEF R
      <4> QED
        BY <4>1, <1>3, RemainOnTheWay
    <3> QED
      BY <3>1, <3>2, OnTheWayMarks
  <2> QED
    BY <2>1, <1>1 DEF NothingLost
<1> QED
  BY <1>4, <1>8, <1>10, <1>11 DEF ControllerInv

LEMMA ReapplyKeeps ==
  ASSUME ControllerInv, NEW i \in DOMAIN calls, Reapply(i)
  PROVE  ControllerInv'
<1>1. PICK c : c = calls[i]
  OBVIOUS
<1>2. Staged(c) /\ WriteInv(c) /\ ReadInv(c)
  BY <1>1, CallAt
<1>3. PICK r : r = Resumed(c)
  OBVIOUS
<1>4. PICK d : d = [r EXCEPT !.shot = NoShot]
  OBVIOUS
<1>5. /\ c.at = "reapply" /\ Refreshed(c.shot) /\ Step(i, d)
      /\ UNCHANGED <<rows, born, deleted, made, keys, pulls, job>>
  BY <1>1, <1>3, <1>4 DEF Reapply, counters, history
<1>6. /\ Shaped(r) /\ r.then = c.then /\ r.arg = c.arg /\ r.note = Draft /\ r.text = {}
      /\ r.shot = c.shot /\ r.ok = c.ok /\ r.at = First(c.then)
      /\ r.at \in {"load", "show", "lock", "change", "done"}
      /\ r.at = "load" <=> c.then = "open"
      /\ r.at = "show" <=> c.then = "draft"
      /\ r.at = "lock" <=> c.then = "sync"
      /\ r.at = "done" <=> c.then = "save"
      /\ r.at = "change" => c.then \in Changes
  BY <1>2, <1>3, <1>5, ResumedFacts
<1>7. /\ Shaped(d) /\ d.then = c.then /\ d.arg = c.arg /\ d.note = Draft /\ d.text = {}
      /\ d.shot = NoShot /\ d.ok = c.ok /\ d.at = r.at
  BY <1>4, <1>6 DEF Shaped
<1>8. ~Writing(d) /\ ~Refreshing(d) /\ Refreshing(c) /\ (Taking(d) <=> Taking(c))
      /\ (Leaves(d) <=> Leaves(c)) /\ (Leaves(c) => d.at # "done")
  BY <1>2, <1>5, <1>6, <1>7 DEF Writing, Refreshing, Taking, Leaves, Staged
<1> DEFINE R == DOMAIN calls \ {i}
           C == IF d.at = "done" THEN {} ELSE {d}
<1>9. R \in SUBSET DOMAIN calls /\ Rearranged(R, C)
  <2>1. PICK S : calls \in Seq(S)
    BY DEF ControllerInv, TableInv
  <2> QED
    BY <2>1, <1>5, <1>8, Replaced
<1>10. Leaving => Leaving'
  <2>1. Leaving => (\E j \in R : Leaves(calls[j])) \/ (\E x \in C : Leaves(x))
    BY <1>1, <1>8 DEF Leaving
  <2> HIDE DEF R, C
  <2> QED
    BY <2>1, <1>9, LeavingAfter, Zenon
<1>11. CallInv(d)'
  <2>1. Staged(d)
    BY <1>2, <1>5, <1>6, <1>7 DEF Staged, Taking, Changes, Purposes
  <2>2. Staged(d)'
    BY <2>1, <1>5 DEF Staged, Shaped, Taking
  <2>3. WriteInv(d)'
    BY <1>6, <1>7 DEF WriteInv, Writing
  <2>4. d.shot.id = Draft /\ Past(d.shot.rows)'
    BY <1>7 DEF NoShot, Nothing, Past, Kept
  <2>5. (d.then = "open" => Openable(d.arg))'
    BY <1>2, <1>5, <1>7 DEF ReadInv, Openable, Ids, Has, Shown
  <2>6. ReadInv(d)'
    BY <2>4, <2>5, <1>6, <1>7 DEF ReadInv, Refreshing, Draft
  <2> QED
    BY <2>2, <2>3, <2>6 DEF CallInv
<1>12. ASSUME NEW j \in R, NEW e, NEW x \in C, e = calls[j]
       PROVE  PairInv(e, x)'
  <2>1. x = d /\ j \in DOMAIN calls /\ j # i
    OBVIOUS
  <2>2. ~(Taking(e) /\ Taking(d))
    BY <2>1, <1>1, <1>8, <1>12, OneTap
  <2> QED
    BY <2>1, <2>2, <1>8 DEF PairInv, Taking, Writing, Refreshing
<1>13. \A x \in C : CallInv(x)'
  BY <1>11
<1>14. \A j \in R : \A e : \A x \in C : e = calls[j] => PairInv(e, x)'
  BY <1>12
<1> HIDE DEF C
<1> QED
  BY <1>1, <1>5, <1>8, <1>9, <1>10, <1>13, <1>14, RefreshedKeeps

LEMMA ApplySyncKeeps ==
  ASSUME ControllerInv, NEW i \in DOMAIN calls, ApplySync(i)
  PROVE  ControllerInv'
<1>1. PICK c : c = calls[i]
  OBVIOUS
<1>2. Staged(c) /\ WriteInv(c) /\ ReadInv(c) /\ Shaped(c)
  BY <1>1, CallAt DEF Staged
<1>3. /\ c.at = "apply" /\ c.then = "sync" /\ Refreshed(c.shot)
      /\ UNCHANGED <<rows, born, deleted, made, keys, pulls, job>>
  BY <1>1 DEF ApplySync, counters, history
<1>4. \E d : /\ Step(i, d)
             /\ \/ d = [c EXCEPT !.at = "status", !.shot = NoShot]
                \/ d = [c EXCEPT !.at = "done"]
  BY <1>1 DEF ApplySync
<1>5. PICK d : /\ Step(i, d)
               /\ \/ d = [c EXCEPT !.at = "status", !.shot = NoShot]
                  \/ d = [c EXCEPT !.at = "done"]
  BY <1>4
<1>6. /\ Shaped(d) /\ d.then = "sync" /\ d.arg = c.arg /\ d.text = {}
      /\ d.at = "done" \/ (d.at = "status" /\ d.shot = NoShot)
  BY <1>2, <1>3, <1>5 DEF Shaped, WriteInv
<1>7. ~Writing(d) /\ ~Refreshing(d) /\ Refreshing(c) /\ ~Taking(d) /\ ~Leaves(c)
  BY <1>3, <1>6 DEF Writing, Refreshing, Taking, Leaves
<1> DEFINE R == DOMAIN calls \ {i}
           C == IF d.at = "done" THEN {} ELSE {d}
<1>8. R \in SUBSET DOMAIN calls /\ Rearranged(R, C)
  <2>1. PICK S : calls \in Seq(S)
    BY DEF ControllerInv, TableInv
  <2> QED
    BY <2>1, <1>5, <1>7, Replaced
<1>9. Leaving => Leaving'
  <2>1. Leaving => (\E j \in R : Leaves(calls[j]))
    BY <1>1, <1>7 DEF Leaving
  <2> HIDE DEF R, C
  <2> QED
    BY <2>1, <1>8, LeavingAfter, Zenon
<1>10. ASSUME d.at # "done" PROVE CallInv(d)'
  <2>1. Staged(d)
    BY <1>2, <1>6, <1>10 DEF Staged, Taking, Changes, Purposes
  <2>2. Staged(d)'
    BY <2>1, <1>3 DEF Staged, Shaped, Taking
  <2>3. WriteInv(d)'
    BY <1>6, <1>10 DEF WriteInv, Writing
  <2>4. d.shot.id = Draft /\ Past(d.shot.rows)'
    BY <1>6, <1>10 DEF NoShot, Nothing, Past, Kept
  <2>5. ReadInv(d)'
    BY <2>4, <1>6, <1>10 DEF ReadInv, Refreshing, Draft, Changes
  <2> QED
    BY <2>2, <2>3, <2>5 DEF CallInv
<1>11. \A j \in R : \A e : \A x \in C : e = calls[j] => PairInv(e, x)'
  BY <1>7 DEF PairInv, Taking, Writing, Refreshing
<1>12. \A x \in C : CallInv(x)'
  BY <1>10
<1> HIDE DEF C
<1> QED
  BY <1>1, <1>3, <1>7, <1>8, <1>9, <1>11, <1>12, RefreshedKeeps

(* The call ends with its refresh. *)
LEMMA RefreshedLast ==
  ASSUME ControllerInv, NEW i \in DOMAIN calls, NEW c, c = calls[i], Refreshing(c), ~Leaves(c),
         Refreshed(c.shot), UNCHANGED <<rows, born, deleted, made, keys, pulls, job>>,
         calls' = RemoveAt(calls, i)
  PROVE  ControllerInv'
<1> DEFINE R == DOMAIN calls \ {i}
           C == {}
<1>1. R \in SUBSET DOMAIN calls /\ Rearranged(R, C)
  <2>1. PICK S : calls \in Seq(S)
    BY DEF ControllerInv, TableInv
  <2> QED
    BY <2>1, Removed
<1>2. Leaving => Leaving'
  <2>1. Leaving => (\E j \in R : Leaves(calls[j]))
    BY DEF Leaving
  <2> HIDE DEF R, C
  <2> QED
    BY <2>1, <1>1, LeavingAfter, Zenon
<1>3. /\ \A x \in C : CallInv(x)'
      /\ \A j \in R : \A e : \A x \in C : e = calls[j] => PairInv(e, x)'
  OBVIOUS
<1> HIDE DEF C
<1> QED
  BY <1>1, <1>2, <1>3, RefreshedKeeps

(* The tap goes over into a call that begins with a flush. *)
LEMMA RefreshedFlush ==
  ASSUME ControllerInv, NEW i \in DOMAIN calls, NEW c, c = calls[i], Refreshing(c), Taking(c),
         Refreshed(c.shot), UNCHANGED <<rows, born, deleted, made, keys, pulls>>, job' = "off",
         NEW arg \in Nat,
         NEW n, n = Flushing(Call("open", arg), sel', value'),
         calls' = Append(RemoveAt(calls, i), n),
         Openable(arg)
  PROVE  ControllerInv'
<1>1. TableInv /\ ScreenInv /\ CallsInv /\ NothingLost
  BY DEF ControllerInv
<1>2. /\ sel' \in Nat /\ session' \in Nat /\ value' \subseteq Mark
      /\ job = "set" => UNCHANGED <<sel, session, value>> /\ ~Leaving
      /\ ~Leaving => /\ Steady(c.shot) /\ Fits(sel, value)'
                     /\ value' \subseteq Row(sel).text \union value
      /\ \A j \in DOMAIN calls \ {i} : Writing(calls[j]) => Leaving /\ Steady(c.shot)
  BY RefreshFacts
<1> DEFINE R == DOMAIN calls \ {i}
           C == {n}
<1>3. PICK s, v : s = sel' /\ v = value'
  OBVIOUS
<1>4. n = Flushing(Call("open", arg), s, v)
  BY <1>3
<1>5. R \in SUBSET DOMAIN calls /\ Rearranged(R, C)
  <2>1. PICK S : calls \in Seq(S)
    BY <1>1 DEF TableInv
  <2> QED
    BY <2>1, RemovedAndAdded
<1>6. /\ Shaped(n) /\ n.then = "open" /\ n.arg = arg /\ n.shot = NoShot /\ n.ok = "yes"
      /\ \/ /\ job # "off" /\ Saves(s, v)
            /\ n.at = "write" /\ n.note = s /\ n.text = v
         \/ /\ ~(job # "off" /\ Saves(s, v))
            /\ n.at = First("open") /\ n.note = Draft /\ n.text = {}
  BY <1>4, FlushedFacts
<1>7. n.at # "done" /\ Leaves(n) /\ "open" \in Flushers
  BY <1>6 DEF First, Leaves, Flushers
<1>8. Leaving => Leaving'
  <2>1. Leaving => (\E j \in R : Leaves(calls[j])) \/ (\E x \in C : Leaves(x))
    BY <1>7 DEF Leaving
  <2> HIDE DEF R, C
  <2> QED
    BY <2>1, <1>5, LeavingAfter, Zenon
<1>9. Leaving'
  <2>1. \E x \in C : Leaves(x)
    BY <1>7
  <2> HIDE DEF R, C
  <2> QED
    BY <2>1, <1>5, LeavingAfter, Zenon
<1>10. TableInv'
  BY <1>1, <1>2, <1>5, RefreshTable
<1>11. CallInv(n)'
  <2>1. job = "set" => /\ Fits(s, v)' /\ (Row(s).text)' \subseteq v
                       /\ s # Draft => Shown(Row(s))'
    <3>1. ASSUME job = "set"
          PROVE  Fits(sel, value)' /\ (Row(sel).text)' \subseteq value' /\ (sel' # Draft => Shown(Row(sel))')
      <4>1. Row(sel)' = Row(sel) /\ UNCHANGED <<sel, value>> /\ ~Leaving
        BY <3>1, <1>2 DEF Row, Has, Gone
      <4> QED
        BY <3>1, <4>1, <1>1, <1>2 DEF ScreenInv, Shown
    <3> QED
      BY <3>1, <1>3 DEF Fits, Row, Has, Gone, Ids, Shown
  <2>2. Openable(arg)'
    BY DEF Openable, Ids, Has, Shown
  <2>3. v \subseteq Mark
    BY <1>2, <1>3
  <2> QED
    BY <1>1, <1>7, <1>10, <1>3, <1>4, <2>1, <2>2, <2>3, FlushedCall
<1>12. ASSUME NEW j \in R, NEW e, e = calls[j]
       PROVE  PairInv(e, n)'
  <2>1. j \in DOMAIN calls /\ j # i
    OBVIOUS
  <2>2. ~Taking(e) /\ ReadInv(e)
    BY <2>1, <1>12, OneTap, CallAt
  <2>3. job = "set" => ~Writing(e)
    BY <2>1, <1>2, <1>12
  <2>4. job = "set" /\ Refreshing(e) => (Leaving /\ Steady(e.shot))'
    <3>1. ASSUME job = "set", Refreshing(e) PROVE Leaving' /\ Steady(e.shot)'
      <4>1. Steady(e.shot) /\ UNCHANGED sel
        BY <3>1, <1>2, <2>2 DEF ReadInv
      <4> QED
        BY <3>1, <4>1, <1>9 DEF Steady, Found, Listed
    <3> QED
      BY <3>1
  <2> QED
    BY <1>1, <1>7, <1>3, <1>4, <2>2, <2>3, <2>4, FlushedPair
<1>13. job # job' => value' \subseteq Unwritten'
  <2>1. ASSUME job = "set", NEW m \in v PROVE m \in Unwritten'
    <3>1. Saves(s, v)
      BY <2>1 DEF Saves
    <3>2. Writing(n) /\ m \in n.text /\ n \in C
      BY <1>6, <2>1, <3>1 DEF Writing
    <3> HIDE DEF R, C
    <3> QED
      BY <1>5, <3>2, RemainUnwritten
  <2> QED
    BY <2>1, <1>1, <1>3 DEF ScreenInv
<1>14. \A x \in C : CallInv(x)'
  BY <1>11
<1>15. \A j \in R : \A e : \A x \in C : e = calls[j] => PairInv(e, x)'
  BY <1>12
<1>16. job' \in {job, "off"}
  OBVIOUS
<1> HIDE DEF C
<1> QED
  BY <1>5, <1>8, <1>13, <1>14, <1>15, <1>16, RefreshedKeeps

LEMMA ApplyStartKeeps ==
  ASSUME ControllerInv, NEW i \in DOMAIN calls, ApplyStart(i)
  PROVE  ControllerInv'
<1>1. PICK c : c = calls[i]
  OBVIOUS
<1>2. Staged(c)
  BY <1>1, CallAt
<1>3. /\ c.at = "apply" /\ c.then = "start" /\ Refreshed(c.shot)
      /\ UNCHANGED <<rows, born, deleted, made, keys, pulls, job>>
      /\ SyncNow(RemoveAt(calls, i))
  BY <1>1 DEF ApplyStart, counters, history
<1>4. Refreshing(c) /\ Taking(c) /\ ~Leaves(c) /\ job = "off"
  BY <1>2, <1>3 DEF Refreshing, Taking, Leaves, Staged
<1>5. CASE calls' = RemoveAt(calls, i)
  BY <1>1, <1>3, <1>4, <1>5, RefreshedLast
<1>6. CASE calls' = Append(RemoveAt(calls, i), SyncCall)
  <2> DEFINE R == DOMAIN calls \ {i}
             C == {SyncCall}
  <2>1. R \in SUBSET DOMAIN calls /\ Rearranged(R, C)
    <3>1. PICK S : calls \in Seq(S)
      BY DEF ControllerInv, TableInv
    <3> QED
      BY <3>1, <1>6, RemovedAndAdded
  <2>2. Leaving => Leaving'
    <3>1. Leaving => (\E j \in R : Leaves(calls[j]))
      BY <1>1, <1>4 DEF Leaving
    <3> HIDE DEF R, C
    <3> QED
      BY <3>1, <2>1, LeavingAfter, Zenon
  <2>3. \A x \in C : CallInv(x)'
    BY SyncCallFacts
  <2>4. \A j \in R : \A e : \A x \in C : e = calls[j] => PairInv(e, x)'
    BY SyncCallFacts DEF PairInv, Taking, Writing, Refreshing
  <2> HIDE DEF C
  <2> QED
    BY <1>1, <1>3, <1>4, <2>1, <2>2, <2>3, <2>4, RefreshedKeeps
<1> QED
  BY <1>3, <1>5, <1>6 DEF SyncNow

LEMMA ApplyTapKeeps ==
  ASSUME Closed, ControllerInv, NEW i \in DOMAIN calls, ApplyTap(i)
  PROVE  ControllerInv'
<1>1. PICK c : c = calls[i]
  OBVIOUS
<1>2. Staged(c) /\ WriteInv(c) /\ ReadInv(c)
  BY <1>1, CallAt
<1> DEFINE leaves == \/ c.then = "trash" /\ SelAfter(c.shot) = c.arg
                     \/ c.then = "delete" /\ c.ok = "open"
           lists == {Listed(c.shot, "active"), Listed(c.shot, "active") \ {c.arg},
                     Listed(c.shot, "trashed")}
<1>3. c.at = "apply" /\ c.then \in Changes /\ c.text = {}
  BY <1>1, <1>2 DEF ApplyTap, Staged, WriteInv
<1>4. /\ UNCHANGED <<rows, born, deleted, made, keys, pulls>>
      /\ \/ /\ leaves
            /\ \E S \in lists :
                  \/ Refreshed(c.shot) /\ \E id \in S : Selects(i, id, sel', value')
                  \/ MayShow(i) /\ ShowDraft /\ calls' = RemoveAt(calls, i)
         \/ /\ ~leaves /\ Refreshed(c.shot)
            /\ \/ /\ c.arg \in Listed(c.shot, "active")
                  /\ Selects(i, c.arg, sel', value')
               \/ calls' = RemoveAt(calls, i) /\ UNCHANGED job
  BY <1>1 DEF ApplyTap, Others, counters, history
<1>5. /\ Refreshing(c) /\ Taking(c) /\ TableInv
      /\ leaves => job = "off"
      /\ ~leaves => ~Leaves(c)
  BY <1>2, <1>3 DEF Refreshing, Taking, Leaves, Staged, Changes, ControllerInv
<1>6. ASSUME NEW id \in Listed(c.shot, "active") \union Listed(c.shot, "trashed")
      PROVE  Openable(id) /\ id \in Nat
  <2>1. id \in DOMAIN c.shot.rows /\ Shown(c.shot.rows[id])
    BY <1>6 DEF Listed, Shown
  <2> QED
    BY <2>1, <1>2, <1>3 DEF ReadInv, Past, Kept, Openable, Ids
<1>7. ASSUME NEW id \in Listed(c.shot, "active") \union Listed(c.shot, "trashed"),
             Refreshed(c.shot), Selects(i, id, sel', value')
      PROVE  ControllerInv'
  <2> DEFINE n == Flushing(Call("open", id), sel', value')
  <2>1. calls' = Append(RemoveAt(calls, i), n) /\ job' = "off"
    BY <1>7 DEF Selects, Flushed
  <2> QED
    BY <1>1, <1>4, <1>5, <1>6, <1>7, <2>1, RefreshedFlush
<1>8. ASSUME leaves, MayShow(i), ShowDraft, calls' = RemoveAt(calls, i)
      PROVE  ControllerInv'
  <2>1. \A j \in DOMAIN calls \ {i} : ~Writing(calls[j]) /\ ~Refreshing(calls[j])
    BY <1>8, StaleClosed DEF MayShow, Writing, Refreshing
  <2>2. /\ job' = "off" /\ sel' = Draft /\ value' = {} /\ sel' \in Nat /\ session' \in Nat
        /\ value' \subseteq Mark /\ Fits(sel, value)' /\ value' \subseteq (Row(sel).text)'
    BY <1>4, <1>5, <1>8, DraftFits
  <2>3. c.text \subseteq deleted
    BY <1>3
  <2> HIDE DEF leaves
  <2> QED
    BY <1>1, <1>4, <1>5, <1>8, <2>1, <2>2, <2>3, Cleared
<1>9. ASSUME ~leaves, Refreshed(c.shot), calls' = RemoveAt(calls, i), UNCHANGED job
      PROVE  ControllerInv'
  BY <1>1, <1>4, <1>5, <1>9, RefreshedLast
<1> HIDE DEF leaves
<1> QED
  BY <1>4, <1>7, <1>8, <1>9

----------------------------------------------------------------------------
(***************************************************************************)
(* The activity is created anew: what the timer held is stored.            *)
(***************************************************************************)
LEMMA RecreateTable ==
  ASSUME ControllerInv, Recreate
  PROVE  /\ Grown /\ born' \in Seq(Int) /\ deleted' = deleted
         /\ DOMAIN rows \subseteq DOMAIN rows'
         /\ job = "set" => value \subseteq UNION {rows'[id].text : id \in DOMAIN rows'}
<1>1. TableInv /\ ScreenInv /\ CallsInv /\ deleted' = deleted
  BY DEF ControllerInv, Recreate
<1>2. CASE job = "set" /\ Saves(sel, value)
  <2>1. PICK note : note = IF sel = Draft THEN NextId ELSE sel
    OBVIOUS
  <2>2. /\ value \in SUBSET Mark /\ Fits(sel, value) /\ Row(sel).text \subseteq value
        /\ sel = Draft \/ Shown(Row(sel))
    BY <1>1, <1>2, SetStays DEF ScreenInv
  <2>3. /\ rows' = IF sel = Draft
                   THEN WithRow(note, [text |-> value, life |-> "active", pending |-> TRUE,
                                       known |-> FALSE])
                   ELSE WithRow(note, SavedRow(rows[note], value))
        /\ born' = IF sel = Draft THEN Append(born, -session) ELSE born
    BY <1>2, <2>1, <2>2 DEF Recreate
  <2> DEFINE text == value
  <2>4. text = value
    OBVIOUS
  <2> HIDE DEF text
  <2>5. /\ Grown /\ born' \in Seq(Int) /\ DOMAIN rows \subseteq DOMAIN rows'
        /\ note \in DOMAIN rows' /\ rows'[note].text = text
    BY <1>1, <2>1, <2>2, <2>3, <2>4, SavedTable
  <2> QED
    BY <1>1, <2>4, <2>5
<1>3. CASE ~(job = "set" /\ Saves(sel, value))
  <2>1. rows' = rows /\ born' = born
    BY <1>1, <1>3 DEF Recreate, ScreenInv
  <2>2. job = "set" => value = {}
    BY <1>3 DEF Saves
  <2>3. Grown
    BY <1>1, <2>1 DEF Grown, Ids, TableInv, Kept
  <2> QED
    BY <1>1, <2>1, <2>2, <2>3 DEF TableInv
<1> QED
  BY <1>2, <1>3

LEMMA RecreateKeeps ==
  ASSUME Closed, ControllerInv, Recreate
  PROVE  ControllerInv'
<1>1. TableInv /\ ScreenInv /\ CallsInv /\ NothingLost
  BY DEF ControllerInv
<1>2. /\ Grown /\ born' \in Seq(Int) /\ deleted' = deleted
      /\ DOMAIN rows \subseteq DOMAIN rows'
      /\ job = "set" => value \subseteq UNION {rows'[id].text : id \in DOMAIN rows'}
  BY RecreateTable
<1>3. PICK c : c = Call("start", Draft)
  OBVIOUS
<1>4. /\ Shaped(c) /\ c.then = "start" /\ c.arg = Draft /\ c.at = "read"
      /\ c.note = Draft /\ c.text = {} /\ c.shot = NoShot /\ c.ok = "yes"
  BY <1>3, CallFacts DEF First
<1>5. /\ calls' = <<c>> /\ sel' = Draft /\ value' = {} /\ session' = session + 1 /\ job' = "off"
      /\ UNCHANGED <<made, keys, pulls>>
  BY <1>3 DEF Recreate
<1>6. \A j \in DOMAIN calls : ~Writing(calls[j])
  BY StaleClosed DEF Recreate, Under, Writing
<1>7. /\ calls' \in Seq({c}) /\ DOMAIN calls' = {1} /\ calls'[1] = c
  <2>1. <<c>> \in Seq({c}) /\ Len(<<c>>) = 1 /\ <<c>>[1] = c /\ DOMAIN <<c>> = 1 .. 1
    OBVIOUS
  <2> QED
    BY <2>1, <1>5
<1>8. TableInv'
  <2>1. keys' \in Nat /\ pulls' \in Nat
    BY <1>5, CountersTyped
  <2>2. Kept(rows)'
    BY <1>2 DEF Grown
  <2>3. \E S : calls' \in Seq(S)
    BY <1>7
  <2> QED
    BY <1>1, <1>2, <1>5, <2>1, <2>2, <2>3 DEF TableInv, Draft
<1>9. CallInv(c)'
  <2>1. Staged(c)'
    BY <1>4, <1>5 DEF Staged, Shaped, Purposes, Changes, Taking, Draft
  <2>2. WriteInv(c)'
    BY <1>4 DEF WriteInv, Writing
  <2>3. c.shot.id = Draft /\ Past(c.shot.rows)'
    BY <1>4 DEF NoShot, Nothing, Past, Kept
  <2>4. ReadInv(c)'
    BY <2>3, <1>4 DEF ReadInv, Refreshing, Draft, Changes
  <2> QED
    BY <2>1, <2>2, <2>4 DEF CallInv
<1>10. CallsInv'
  <2>1. \A k \in DOMAIN calls' : \A d : d = calls'[k] => CallInv(d)'
    BY <1>7, <1>9
  <2>2. \A k, l \in DOMAIN calls' : ~(k < l)
    BY <1>7
  <2> QED
    BY <2>1, <2>2 DEF CallsInv
<1>11. ScreenInv'
  BY <1>5 DEF ScreenInv, Fits, Draft
<1>12. NothingLost'
  <2>1. ASSUME NEW m \in OnTheWay
        PROVE  m \in deleted \union UNION {rows'[id].text : id \in DOMAIN rows'}
    <3>1. CASE job = "set" /\ m \in value
      BY <3>1, <1>2
    <3>2. CASE \E j \in DOMAIN calls : m \in calls[j].text
      <4>1. PICK j \in DOMAIN calls : m \in calls[j].text
        BY <3>2
      <4>2. WriteInv(calls[j]) /\ ~Writing(calls[j])
        BY <4>1, <1>6, CallAt
      <4> QED
        BY <4>1, <4>2 DEF WriteInv, Writing
    <3> QED
      BY <3>1, <3>2, OnTheWayMarks
  <2>2. \A n \in DOMAIN rows : n \in DOMAIN rows' /\ rows[n].text \subseteq rows'[n].text
    BY <1>1, <1>2 DEF Grown, TableInv, Kept
  <2> QED
    BY <2>1, <2>2, <1>1, <1>2, <1>5 DEF NothingLost
<1> QED
  BY <1>8, <1>10, <1>11, <1>12 DEF ControllerInv

----------------------------------------------------------------------------
(***************************************************************************)
(* The invariant holds in every state.                                     *)
(***************************************************************************)
LEMMA InitInv ==
  ASSUME ControllerInit
  PROVE  ControllerInv
<1>1. Initial \in Nat
  BY ControllerAssumption
<1>2. /\ calls = <<>> /\ sel = Draft /\ session = 1 /\ value = {} /\ job = "off"
      /\ keys = 0 /\ pulls = 0 /\ made = {}
  BY DEF ControllerInit
<1>3. calls \in Seq({}) /\ DOMAIN calls = {}
  BY <1>2
<1>4. born \in Seq(Int) /\ Len(born) = Initial /\ DOMAIN born = 1 .. Initial
      /\ \A id \in 1 .. Initial : born[id] = id
  BY <1>1 DEF ControllerInit
<1>5. Kept(rows)
  <2>1. DOMAIN rows = 1 .. Initial /\ \A id \in 1 .. Initial : rows[id] \in NoteRow /\ rows[id].text = {}
    BY DEF ControllerInit, NoteRow
  <2> QED
    BY <2>1, <1>4 DEF Kept, Ids
<1>6. TableInv
  BY <1>2, <1>3, <1>4, <1>5 DEF TableInv, Draft
<1>7. Row(sel).text = {}
  BY <1>2, <1>6, DraftHasNoRow
<1> QED
  BY <1>2, <1>3, <1>6, <1>7 DEF ControllerInv, ScreenInv, CallsInv, NothingLost, Fits, Draft

LEMMA TapKeeps ==
  ASSUME Closed, ControllerInv, NEW id \in DOMAIN rows,
         \/ OpenNote(id) \/ TrashNote(id) \/ RestoreNote(id) \/ DeleteNote(id)
         \/ ToggleFavorite(id)
  PROVE  ControllerInv'
<1>1. id \in Ids /\ id \in Nat
  BY DEF ControllerInv, TableInv, Kept, Ids
<1>2. CASE OpenNote(id)
  <2>1. Tap("open", id) /\ Openable(id)
    BY <1>1, <1>2 DEF OpenNote, Openable, Row
  <2> QED
    BY <1>1, <2>1, FlushingTapKeeps
<1>3. CASE RestoreNote(id)
  BY <1>1, <1>3, OtherTapKeeps DEF RestoreNote
<1>4. CASE TrashNote(id)
  BY <1>1, <1>4, FlushingTapKeeps DEF TrashNote
<1>5. CASE DeleteNote(id)
  BY <1>1, <1>5, FlushingTapKeeps DEF DeleteNote
<1>6. CASE ToggleFavorite(id)
  BY <1>1, <1>6, FlushingTapKeeps DEF ToggleFavorite
<1> QED
  BY <1>2, <1>3, <1>4, <1>5, <1>6

LEMMA NextKeeps ==
  ASSUME Closed, ControllerInv, ControllerNext
  PROVE  ControllerInv'
<1>1. CASE SaveTimer \/ AutoSync
  BY <1>1, SaveTimerKeeps, AutoSyncKeeps
<1>2. CASE CallStep
  <2>1. PICK i \in DOMAIN calls :
            \/ Write(i) \/ LoadNote(i) \/ Show(i) \/ Change(i) \/ ReadWorkspace(i)
            \/ Reapply(i) \/ ApplyTap(i) \/ ApplyStart(i) \/ SyncBegins(i) \/ SyncStarts(i)
            \/ SyncRuns(i) \/ ApplySync(i) \/ Status(i)
    BY <1>2 DEF CallStep
  <2>2. CASE Write(i)
    BY <2>2, WriteKeeps, WriteGoneKeeps
  <2>3. CASE LoadNote(i) \/ Show(i) \/ Change(i) \/ ReadWorkspace(i)
    BY <2>3, LoadNoteKeeps, ShowKeeps, ChangeKeeps, ReadWorkspaceKeeps
  <2>4. CASE Reapply(i) \/ ApplyTap(i) \/ ApplyStart(i) \/ ApplySync(i)
    BY <2>4, ReapplyKeeps, ApplyTapKeeps, ApplyStartKeeps, ApplySyncKeeps
  <2>5. CASE SyncBegins(i) \/ SyncStarts(i) \/ SyncRuns(i) \/ Status(i)
    BY <2>5, SyncBeginsKeeps, SyncStepKeeps, SyncRunsKeeps
  <2> QED
    BY <2>1, <2>2, <2>3, <2>4, <2>5
<1>3. CASE WorkerStep
  BY <1>3, WorkerKeeps, WorkerRunsKeeps DEF WorkerStep
<1>4. CASE UserStep
  <2>1. CASE UpdateEditor \/ SignIn \/ Recreate
    BY <2>1, UpdateEditorKeeps, SignInKeeps, RecreateKeeps
  <2>2. CASE NewNote
    BY <2>2, FlushingTapKeeps DEF NewNote, Draft
  <2>3. CASE ImportMarkdown
    <3>1. NextId \in Nat
      BY DEF ControllerInv, TableInv, NextId
    <3> QED
      BY <2>3, <3>1, OtherTapKeeps DEF ImportMarkdown
  <2> QED
    BY <1>4, <2>1, <2>2, <2>3, TapKeeps DEF UserStep
<1>5. CASE OthersStep
  BY <1>5, PullChangeKeeps, PullDeleteKeeps, SyncStepKeeps, WorkerKeeps DEF OthersStep
<1> QED
  BY <1>1, <1>2, <1>3, <1>4, <1>5 DEF ControllerNext

LEMMA StepKeeps ==
  ASSUME Closed, ControllerInv, [ControllerNext]_controllerVars
  PROVE  ControllerInv'
<1>1. CASE UNCHANGED controllerVars
  <2>1. UNCHANGED <<rows, born, deleted, sel, session, value, job, calls, made, keys, pulls>>
    BY <1>1 DEF controllerVars, screen, counters, history
  <2> QED
    BY <2>1, CountersTyped, Unmoved
<1> QED
  BY <1>1, NextKeeps

(* The invariant that all theorems about the screen rest on. *)
THEOREM ControllerInvariant ==
  ASSUME Closed
  PROVE  ControllerSpec => []ControllerInv
BY InitInv, StepKeeps, PTL DEF ControllerSpec

(* No note ever holds what was typed in another note or in another draft: saves,
   refreshes and taps of NotesController may overlap in any way but those of the
   windows. *)
THEOREM OwnTextAlways ==
  ASSUME Closed
  PROVE  ControllerSpec => []OwnText
<1>1. ControllerInv => OwnText
  BY DEF ControllerInv, TableInv, Kept, OwnText
<1> QED
  BY <1>1, ControllerInvariant, PTL

(* Under the same assumption, every keystroke and every change of another device
   that the phone has taken is in the notes table, on its way there, or of a note deleted for good. *)
THEOREM NothingLostAlways ==
  ASSUME Closed
  PROVE  ControllerSpec => []NothingLost
<1>1. ControllerInv => NothingLost
  BY DEF ControllerInv
<1> QED
  BY <1>1, ControllerInvariant, PTL

(* When the coroutines and the timer of NotesController have come to rest, what is
   on screen is stored in the selected note. *)
THEOREM QuietScreenIsStoredAlways ==
  ASSUME Closed
  PROVE  ControllerSpec => []QuietScreenIsStored
<1>1. ASSUME ControllerInv, job # "set", calls = <<>>
      PROVE  IF sel = Draft THEN value = {} ELSE value \subseteq rows[sel].text
  <2>1. ScreenInv /\ TableInv /\ ~Leaving /\ Unwritten = {}
    BY <1>1 DEF ControllerInv, Leaving, Unwritten
  <2>2. value \subseteq Row(sel).text /\ (sel # Draft => Shown(Row(sel)))
    BY <1>1, <2>1 DEF ScreenInv
  <2>3. CASE sel = Draft
    BY <2>1, <2>2, <2>3, DraftHasNoRow
  <2>4. CASE sel # Draft
    BY <2>2, <2>4 DEF Row, Has, Gone, Shown
  <2> QED
    BY <2>3, <2>4
<1>2. ControllerInv => QuietScreenIsStored
  BY <1>1 DEF QuietScreenIsStored
<1> QED
  BY <1>2, ControllerInvariant, PTL
=============================================================================
