-------------------------- MODULE AccountsKeyringProofs --------------------------
(***************************************************************************)
(* Proofs about Accounts and about Keyring: the account rows of the two    *)
(* databases, then the keys that the browsers of an account hold.          *)
(***************************************************************************)
EXTENDS Accounts, Keyring, TLAPS

(***************************************************************************)
(* No order of requests, mirror runs, lost connections and crashes leaves  *)
(* the two databases in a state that stops every later run                 *)
(* (MirrorNeverBlocked), for any users, devices and numbers of requests,   *)
(* as long as no account appears on the remote between a run's copy of the *)
(* accounts and its list of owners (Closed).                               *)
(*                                                                         *)
(* A request looks at a row in one step and relies on it in the next, with *)
(* runs, other requests and deletions in between.  What it saw may have    *)
(* gone by then, but only together with a tombstone: Grows says that no    *)
(* step takes a row from an account that is still alive, so that a request *)
(* is ready for its step (RequestsInv) unless the account was deleted.     *)
(***************************************************************************)

(* No account appears on the remote where a run is not prepared for it. *)
Closed == Unguarded = {}

(***************************************************************************)
(* The invariant.                                                          *)
(***************************************************************************)
NatRow   == [cred : Nat, prof : Nat]
StepName == {"authenticate", "create", "enrolRemote", "read", "copy", "enrol",
             "session", "sync", "wait", "recheck", "change", "erase", "signOut",
             "write"}
RunStepName == {"idle", "tombs", "check", "list", "copy", "owners", "data"}

(* A step that relies on what the step before it has seen or done comes
   directly after it, in every route and in what is left of one. *)
Follows(a, b) ==
    /\ b = "enrolRemote" => a \in {"authenticate", "create"}
    /\ b = "copy" => a = "read"
    /\ b = "enrol" => a = "copy"
    /\ b = "session" => a \in {"copy", "enrol"}
    /\ b # "write"

Ordered(todo) == \A i \in 1 .. Len(todo) - 1 : Follows(todo[i], todo[i + 1])

Requests ==
    [kind : Kind \cup {"none"}, user : User \cup {NoUser}, todo : Seq(StepName), seen : NatRow]
Runs ==
    [step : RunStepName, pass : 0 .. 3, tombs : SUBSET (User \X Side),
     left : SUBSET (User \cup Side), users : SUBSET User, copy : [User -> NatRow],
     ok : BOOLEAN]

TypeInv ==
    /\ row \in [Side -> [User -> NatRow]]
    /\ tomb \in [Side -> SUBSET User]
    /\ data \in [Side -> SUBSET User]
    /\ sessionOf \in [Device -> User \cup {NoUser}]
    /\ req \in [Device -> Requests]
    /\ run \in Runs

(* A request with steps to take is somebody's, and its steps are in order. *)
Proper(r) == r.todo # <<>> => r.user \in User /\ Ordered(r.todo)
StepsInv ==
    \A d \in Device : Proper(req[d])

Alive(u) == u \notin tomb["local"] /\ u \notin tomb["remote"]

(* What the two sides hold of an account that was never deleted. *)
RowsInv ==
    \A u \in User : Alive(u) =>
        /\ \A s \in Side : u \in data[s] => Has(s, u)
        /\ Has("local", u) => Has("remote", u)

(* A deleted account is gone from the remote for good. *)
ErasedInv == \A u \in User : u \in tomb["remote"] => ~Has("remote", u)

SessionsInv ==
    \A d \in Device : sessionOf[d] \in User /\ Alive(sessionOf[d]) => Has("local", sessionOf[d])

(* The step a request is about to take finds the row it relies on. *)
Ready(r) ==
    r.todo # <<>> =>
        /\ Head(r.todo) = "enrolRemote" => Has("remote", r.user)
        /\ Head(r.todo) = "copy" => Has("remote", r.user)
        /\ Head(r.todo) \in {"enrol", "session", "write"} => Has("local", r.user)

(* A request that copies a row has read one. *)
ReadBefore(r) == r.todo # <<>> /\ Head(r.todo) = "copy" => r.seen # NoRow

RequestsInv ==
    \A d \in Device : /\ ReadBefore(req[d])
                      /\ Alive(req[d].user) => Ready(req[d])

(* A pass from the remote reaches the owners with every remote account copied. *)
Copied(u) == Has("local", u) \/ (run.step = "copy" /\ u \in run.left)

RunInv ==
    /\ run.step = "check" => run.left \subseteq Side
    /\ run.step \in {"copy", "data"} => run.left \subseteq User
    /\ run.step = "copy" => run.pass # 2
    /\ run.step = "copy" => \A u \in run.left : run.copy[u] # NoRow
    /\ run.step = "copy" => \A u \in run.left : Alive(u) => Has("remote", u)
    /\ run.step \in {"copy", "owners"} /\ run.pass # 2 =>
           \A u \in User : Alive(u) /\ Has("remote", u) => Copied(u)
    /\ run.step = "data" /\ run.pass # 2 =>
           \A u \in run.left : Alive(u) => Has("local", u)

AccountsInv ==
    /\ TypeInv /\ StepsInv /\ RowsInv /\ ErasedInv
    /\ SessionsInv /\ RequestsInv /\ RunInv

(***************************************************************************)
(* What is left of a route.                                                *)
(***************************************************************************)

(* After its first step the rest of a route is in order, and what comes next
   follows what was first. *)
LEMMA RestInOrder ==
  ASSUME NEW todo \in Seq(StepName), todo # <<>>, Ordered(todo)
  PROVE  /\ Tail(todo) \in Seq(StepName)
         /\ Ordered(Tail(todo))
         /\ Tail(todo) # <<>> => Follows(Head(todo), Head(Tail(todo)))
         /\ Len(todo) = 1 <=> Tail(todo) = <<>>
  <1> DEFINE remaining == Tail(todo)
  <1>1. remaining \in Seq(StepName) /\ Len(todo) \in Nat \ {0} /\ Len(remaining) = Len(todo) - 1
    OBVIOUS
  <1>2. \A i \in 1 .. Len(remaining) : remaining[i] = todo[i + 1]
    OBVIOUS
  <1>3. Ordered(remaining)
    <2> SUFFICES ASSUME NEW i \in 1 .. Len(remaining) - 1
                 PROVE  Follows(remaining[i], remaining[i + 1])
      BY DEF Ordered
    <2>1. remaining[i] = todo[i + 1] /\ remaining[i + 1] = todo[(i + 1) + 1]
      BY <1>1, <1>2
    <2>2. i + 1 \in 1 .. Len(todo) - 1
      BY <1>1
    <2> QED BY <2>1, <2>2 DEF Ordered
  <1>4. Len(todo) = 1 <=> remaining = <<>>
    <2>1. ASSUME NEW s \in Seq(StepName) PROVE s = <<>> <=> Len(s) = 0
      OBVIOUS
    <2>2. remaining = <<>> <=> Len(remaining) = 0
      BY <1>1, <2>1
    <2> QED BY <1>1, <2>2
  <1>5. ASSUME remaining # <<>> PROVE Follows(Head(todo), Head(remaining))
    <2>1. Len(todo) \in Nat /\ Len(todo) > 1 /\ 1 \in 1 .. Len(todo) - 1
      BY <1>1, <1>4, <1>5
    <2>2. Follows(todo[1], todo[2])
      BY <2>1 DEF Ordered
    <2>3. Head(remaining) = todo[2] /\ Head(todo) = todo[1]
      BY <1>1, <1>2, <1>5, <2>1
    <2> QED BY <2>2, <2>3
  <1> QED BY <1>1, <1>3, <1>4, <1>5

(* A request that waits for a run goes on as if it had asked for one. *)
LEMMA WaitInOrder ==
  ASSUME NEW todo \in Seq(StepName), todo # <<>>, Ordered(todo), Head(todo) = "sync",
         NEW wait, wait = <<"wait">> \o Tail(todo)
  PROVE  wait \in Seq(StepName) /\ wait # <<>> /\ Head(wait) = "wait" /\ Ordered(wait)
  <1>1. Len(todo) \in Nat \ {0} /\ Tail(todo) \in Seq(StepName) /\ Len(Tail(todo)) = Len(todo) - 1
    OBVIOUS
  <1>2. "wait" \in StepName
    BY DEF StepName
  <1>3. wait \in Seq(StepName) /\ Len(wait) = Len(todo) /\ wait # <<>> /\ Head(wait) = "wait"
    BY <1>1, <1>2
  <1>4. wait[1] = "wait" /\ todo[1] = "sync"
    BY <1>1, <1>2
  <1>5. \A i \in 2 .. Len(todo) : wait[i] = todo[i]
    BY <1>1, <1>2
  <1>6. ASSUME NEW i \in 1 .. Len(wait) - 1 PROVE Follows(wait[i], wait[i + 1])
    <2>1. i \in 1 .. Len(todo) - 1 /\ wait[i + 1] = todo[i + 1] /\ Follows(todo[i], todo[i + 1])
      BY <1>1, <1>3, <1>5 DEF Ordered
    <2>2. CASE i = 1
      BY <1>4, <2>1, <2>2 DEF Follows
    <2>3. CASE i # 1
      <3>1. i \in 2 .. Len(todo)
        BY <1>1, <2>1, <2>3
      <3> QED BY <1>5, <2>1, <3>1
    <2> QED BY <2>2, <2>3
  <1> QED BY <1>3, <1>6 DEF Ordered

(* Every route takes its steps in order, and begins with a step that relies on
   nothing but the session it was started with. *)
LEMMA RoutesInOrder ==
  ASSUME NEW kind \in Kind
  PROVE  /\ Plan[kind] \in Seq(StepName) /\ Plan[kind] # <<>> /\ Ordered(Plan[kind])
         /\ Head(Plan[kind]) \notin {"enrolRemote", "copy", "enrol", "session"}
         /\ Head(Plan[kind]) = "write" => kind = "push"
  <1> USE DEF StepName
  <1>1. CASE kind = "login"
    <2>1. Plan[kind] = LoginSteps
      BY <1>1 DEF Plan
    <2> QED BY <2>1, <1>1 DEF LoginSteps, Ordered, Follows
  <1>2. CASE kind = "signup"
    <2>1. Plan[kind] = SignupSteps
      BY <1>2 DEF Plan
    <2> QED BY <2>1, <1>2 DEF SignupSteps, Ordered, Follows
  <1>3. CASE kind = "profile"
    <2>1. Plan[kind] = ProfileSteps
      BY <1>3 DEF Plan
    <2> QED BY <2>1, <1>3 DEF ProfileSteps, Ordered, Follows
  <1>4. CASE kind = "keyring"
    <2>1. Plan[kind] = KeyringSteps
      BY <1>4 DEF Plan
    <2> QED BY <2>1, <1>4 DEF KeyringSteps, Ordered, Follows
  <1>5. CASE kind = "password"
    <2>1. Plan[kind] = PasswordSteps
      BY <1>5 DEF Plan
    <2> QED BY <2>1, <1>5 DEF PasswordSteps, Ordered, Follows
  <1>6. CASE kind = "totp"
    <2>1. Plan[kind] = TotpSteps
      BY <1>6 DEF Plan
    <2> QED BY <2>1, <1>6 DEF TotpSteps, Ordered, Follows
  <1>7. CASE kind = "delete"
    <2>1. Plan[kind] = DeleteSteps
      BY <1>7 DEF Plan
    <2> QED BY <2>1, <1>7 DEF DeleteSteps, Ordered, Follows
  <1>8. CASE kind = "push"
    <2>1. Plan[kind] = <<"write">>
      BY <1>8 DEF Plan
    <2> QED BY <2>1, <1>8 DEF Ordered, Follows
  <1> QED BY <1>1, <1>2, <1>3, <1>4, <1>5, <1>6, <1>7, <1>8 DEF Kind, Plan

(***************************************************************************)
(* What every step keeps.  Grows says what the two sides may lose: nothing *)
(* of an account that is still alive.                                      *)
(***************************************************************************)
Grows ==
    \A u \in User : /\ Alive(u)' => Alive(u)
                    /\ \A s \in Side : Alive(u)' /\ Has(s, u) => Has(s, u)'

(* New remote accounts appear only where a run is prepared for them. *)
RunPrepared ==
    \A u \in User : Alive(u)' /\ Has("remote", u)' /\ ~Has("remote", u)
                        => run.pass = 2 \/ run.step \notin {"copy", "owners"}

(* What is left of a request that took a step: nothing, or steps in order of the
   same user, the first of which may follow the one taken. *)
LEMMA NextRequest ==
  ASSUME TypeInv, StepsInv, NEW d \in Device, NEW a \in StepName, At(d, a)
  PROVE  \E r \in Requests :
            /\ r = AfterStep(d) /\ Proper(r) /\ req[d].user \in User
            /\ r.todo # <<>> => r.user = req[d].user /\ r.seen = req[d].seen /\ Follows(a, Head(r.todo))
  <1> DEFINE todo == req[d].todo
  <1>1. req[d] \in Requests /\ todo \in Seq(StepName) /\ todo # <<>> /\ Head(todo) = a
    BY DEF TypeInv, Requests, At
  <1>2. req[d].user \in User /\ Ordered(todo)
    BY <1>1 DEF StepsInv, Proper
  <1>3. /\ Tail(todo) \in Seq(StepName) /\ Ordered(Tail(todo))
        /\ Tail(todo) # <<>> => Follows(a, Head(Tail(todo)))
        /\ Len(todo) = 1 <=> Tail(todo) = <<>>
    BY <1>1, <1>2, RestInOrder
  <1>4. CASE Len(todo) = 1
    <2>1. AfterStep(d) = Idle
      BY <1>4 DEF AfterStep
    <2>2. Idle \in Requests /\ Idle.todo = <<>>
      BY DEF Idle, Requests, NoRow, NatRow
    <2> QED BY <1>2, <2>1, <2>2 DEF Proper
  <1>5. CASE Len(todo) # 1
    <2>1. PICK r : r = [req[d] EXCEPT !.todo = Tail(todo)]
      OBVIOUS
    <2>2. r = AfterStep(d)
      BY <1>5, <2>1 DEF AfterStep
    <2>3. r \in Requests /\ r.todo = Tail(todo) /\ r.user = req[d].user /\ r.seen = req[d].seen
      BY <1>1, <1>3, <2>1 DEF Requests
    <2> QED BY <1>2, <1>3, <2>2, <2>3 DEF Proper
  <1> QED BY <1>4, <1>5

(* A request that is over relies on nothing. *)
LEMMA IdleIsReady ==
  ASSUME TRUE
  PROVE  /\ Idle \in Requests /\ Proper(Idle) /\ ReadBefore(Idle)
         /\ Ready(Idle) /\ Ready(Idle)' /\ Idle.todo = <<>>
  <1>1. Idle.todo = <<>> /\ Idle \in Requests
    BY DEF Idle, Requests, NoRow, NatRow
  <1> QED BY <1>1 DEF Proper, ReadBefore, Ready

(* Requests stay as they were, or are replaced by ones that are ready. *)
LEMMA RequestsStayReady ==
  ASSUME AccountsInv, Grows, NEW q \in [Device -> Requests], req' = q,
         \A d \in Device :
             \/ q[d] = req[d]
             \/ Proper(q[d]) /\ ReadBefore(q[d]) /\ (Alive(q[d].user)' => Ready(q[d])')
  PROVE  (req \in [Device -> Requests])' /\ StepsInv' /\ RequestsInv'
  <1>1. ASSUME NEW d \in Device
        PROVE  Proper(q[d]) /\ ReadBefore(q[d]) /\ (Alive(q[d].user)' => Ready(q[d])')
    <2>1. CASE q[d] = req[d]
      <3>1. Proper(q[d]) /\ ReadBefore(q[d]) /\ (Alive(q[d].user) => Ready(q[d]))
        BY <2>1 DEF AccountsInv, StepsInv, RequestsInv
      <3>2. ASSUME Alive(q[d].user)', q[d].todo # <<>> PROVE Ready(q[d])'
        <4>1. q[d].user \in User
          BY <3>1, <3>2 DEF Proper
        <4>2. Alive(q[d].user) /\ \A s \in Side : Has(s, q[d].user) => Has(s, q[d].user)'
          BY <4>1, <3>2 DEF Grows
        <4>3. (Has("remote", q[d].user) => Has("remote", q[d].user)')
              /\ (Has("local", q[d].user) => Has("local", q[d].user)')
          BY <4>2 DEF Side
        <4> QED BY <4>2, <4>3, <3>1 DEF Ready
      <3>3. q[d].todo = <<>> => Ready(q[d])'
        BY DEF Ready
      <3> QED BY <3>1, <3>2, <3>3
    <2> QED BY <2>1
  <1>2. StepsInv'
    BY <1>1 DEF StepsInv
  <1>3. RequestsInv'
    BY <1>1 DEF RequestsInv
  <1> QED BY <1>2, <1>3

(* One request takes a step. *)
LEMMA OneRequestMoves ==
  ASSUME AccountsInv, Grows, NEW d \in Device, NEW r \in Requests,
         req' = [req EXCEPT ![d] = r],
         Proper(r), ReadBefore(r), Alive(r.user)' => Ready(r)'
  PROVE  (req \in [Device -> Requests])' /\ StepsInv' /\ RequestsInv'
  <1>1. PICK q : q = req'
    OBVIOUS
  <1>2. q \in [Device -> Requests] /\ \A e \in Device : q[e] = req[e] \/ q[e] = r
    BY <1>1 DEF AccountsInv, TypeInv
  <1> QED BY <1>1, <1>2, RequestsStayReady

(* Requests that a step leaves alone stay ready. *)
LEMMA RequestsUntouched ==
  ASSUME AccountsInv, Grows, req' = req
  PROVE  (req \in [Device -> Requests])' /\ StepsInv' /\ RequestsInv'
  <1>1. PICK q : q = req
    OBVIOUS
  <1>2. q \in [Device -> Requests]
    BY <1>1 DEF AccountsInv, TypeInv
  <1> QED BY <1>1, <1>2, RequestsStayReady

(* A request that is answered with an error relies on nothing any more. *)
LEMMA RequestDropped ==
  ASSUME AccountsInv, Grows, NEW d \in Device, Dropped(d)
  PROVE  (req \in [Device -> Requests])' /\ StepsInv' /\ RequestsInv'
  BY IdleIsReady, OneRequestMoves DEF Dropped

(* A request goes on to its next step, and what that step relies on is there. *)
LEMMA RequestAdvances ==
  ASSUME AccountsInv, Grows, NEW d \in Device, NEW a \in StepName, At(d, a), Advances(d),
         a # "read", NEW u, u = req[d].user,
         a \in {"authenticate", "create"} /\ Alive(u)' => Has("remote", u)',
         a \in {"copy", "enrol"} /\ Alive(u)' => Has("local", u)'
  PROVE  (req \in [Device -> Requests])' /\ StepsInv' /\ RequestsInv'
  <1>1. PICK r \in Requests :
            /\ r = AfterStep(d) /\ Proper(r) /\ req[d].user \in User
            /\ r.todo # <<>> => r.user = req[d].user /\ r.seen = req[d].seen /\ Follows(a, Head(r.todo))
    BY NextRequest DEF AccountsInv
  <1>2. ReadBefore(r)
    BY <1>1 DEF ReadBefore, Follows
  <1>3. ASSUME r.todo # <<>>, Alive(r.user)' PROVE Ready(r)'
    <2>1. r.user = u /\ Follows(a, Head(r.todo))
      BY <1>1, <1>3
    <2>2. Head(r.todo) = "enrolRemote" => Has("remote", r.user)'
      BY <1>3, <2>1 DEF Follows
    <2>3. Head(r.todo) # "copy"
      BY <2>1 DEF Follows
    <2>4. Head(r.todo) \in {"enrol", "session", "write"} => Has("local", r.user)'
      BY <1>3, <2>1 DEF Follows
    <2> QED BY <2>2, <2>3, <2>4 DEF Ready
  <1>4. Alive(r.user)' => Ready(r)'
    BY <1>3 DEF Ready
  <1>5. req' = [req EXCEPT ![d] = r]
    BY <1>1 DEF Advances
  <1> QED BY <1>1, <1>2, <1>4, <1>5, OneRequestMoves

(* Sessions that end, and sessions nobody touched. *)
LEMMA SessionsOnlyEnd ==
  ASSUME AccountsInv, Grows, NEW q \in [Device -> User \cup {NoUser}], sessionOf' = q,
         \A d \in Device : q[d] \in {sessionOf[d], NoUser}
  PROVE  SessionsInv'
  <1> SUFFICES ASSUME NEW d \in Device, q[d] \in User, Alive(q[d])' PROVE Has("local", q[d])'
    BY DEF SessionsInv
  <1>1. q[d] = sessionOf[d]
    BY AccountsBounds DEF NoUser
  <1>2. Alive(q[d]) /\ (Has("local", q[d]) => Has("local", q[d])')
    BY DEF Grows, Side
  <1> QED BY <1>1, <1>2 DEF AccountsInv, SessionsInv

(* Sessions that a step leaves alone keep their account. *)
LEMMA SessionsUntouched ==
  ASSUME AccountsInv, Grows, sessionOf' = sessionOf
  PROVE  SessionsInv'
  <1>1. PICK q : q = sessionOf
    OBVIOUS
  <1> QED BY <1>1, SessionsOnlyEnd DEF AccountsInv, TypeInv

(* The run stays where it is. *)
LEMMA RunUntouched ==
  ASSUME AccountsInv, Grows, RunPrepared, run' = run
  PROVE  RunInv'
  <1> USE DEF Side
  <1>1. RunInv /\ run \in Runs
    BY DEF AccountsInv, TypeInv
  <1>2. ASSUME NEW u \in User, Alive(u)'
        PROVE  /\ Alive(u)
               /\ Has("remote", u) => Has("remote", u)'
               /\ Has("local", u) => Has("local", u)'
    BY <1>2 DEF Grows
  <1>3. ASSUME run.step = "copy" PROVE \A u \in run.left : Alive(u)' => Has("remote", u)'
    BY <1>1, <1>2, <1>3 DEF RunInv
  <1>4. ASSUME run.step \in {"copy", "owners"}, run.pass # 2
        PROVE  \A u \in User : Alive(u)' /\ Has("remote", u)' => Copied(u)'
    <2> SUFFICES ASSUME NEW u \in User, Alive(u)', Has("remote", u)' PROVE Copied(u)'
      OBVIOUS
    <2>1. Has("remote", u)
      BY <1>4 DEF RunPrepared
    <2>2. Copied(u)
      BY <1>1, <1>2, <1>4, <2>1 DEF RunInv
    <2> QED BY <1>2, <2>2 DEF Copied
  <1>5. ASSUME run.step = "data", run.pass # 2
        PROVE  \A u \in run.left : Alive(u)' => Has("local", u)'
    BY <1>1, <1>2, <1>5 DEF RunInv
  <1>6. /\ run.step = "check" => run.left \subseteq Side
        /\ run.step \in {"copy", "data"} => run.left \subseteq User
        /\ run.step = "copy" => run.pass # 2
        /\ run.step = "copy" => \A u \in run.left : run.copy[u] # NoRow
    BY <1>1 DEF RunInv
  <1> QED BY <1>3, <1>4, <1>5, <1>6 DEF RunInv

(* Where rows and tombstones stay the same, nothing is lost and nothing is new. *)
LEMMA NothingChangedGrows ==
  ASSUME UNCHANGED <<row, tomb>>
  PROVE  Grows /\ RunPrepared
  BY DEF Grows, RunPrepared, Alive, Has

(* A step that leaves the rows, the tombstones and the data alone. *)
LEMMA RowsUntouched ==
  ASSUME AccountsInv, UNCHANGED <<row, tomb, data>>
  PROVE  RowsInv' /\ ErasedInv'
  BY DEF AccountsInv, RowsInv, ErasedInv, Alive, Has

(***************************************************************************)
(* The steps of the requests.                                              *)
(***************************************************************************)

(* Steps that only look at the two sides. *)
LEMMA NothingChangedKeepsAccounts ==
  ASSUME AccountsInv, UNCHANGED <<row, tomb, data, sessionOf, run>>,
         (req \in [Device -> Requests])', StepsInv', RequestsInv'
  PROVE  AccountsInv'
  <1>1. Grows /\ RunPrepared
    BY NothingChangedGrows
  <1>2. TypeInv'
    BY DEF AccountsInv, TypeInv
  <1> QED BY <1>1, <1>2, RowsUntouched, SessionsUntouched, RunUntouched DEF AccountsInv

(* A request starts; a push, which writes at once, has a session and so an account. *)
LEMMA StartKeepsAccounts ==
  ASSUME AccountsInv, NEW d \in Device, NEW kind \in Kind, NEW u \in User, Start(d, kind, u)
  PROVE  AccountsInv'
  <1>1. PICK r : r = [kind |-> kind, user |-> u, todo |-> Plan[kind], seen |-> NoRow]
    OBVIOUS
  <1>2. /\ Plan[kind] \in Seq(StepName) /\ Plan[kind] # <<>> /\ Ordered(Plan[kind])
        /\ Head(Plan[kind]) \notin {"enrolRemote", "copy", "enrol", "session"}
        /\ Head(Plan[kind]) = "write" => kind = "push"
    BY RoutesInOrder
  <1>3. r \in Requests /\ r.user = u /\ r.todo = Plan[kind]
    BY <1>1, <1>2 DEF Requests, NoRow, NatRow
  <1>4. Proper(r) /\ ReadBefore(r)
    BY <1>2, <1>3 DEF Proper, ReadBefore
  <1>5. Grows /\ RunPrepared
    BY NothingChangedGrows DEF Start
  <1>6. kind = "push" => sessionOf[d] = u
    BY DEF Start
  <1>7. ASSUME Alive(u)', Head(r.todo) = "write" PROVE Has("local", u)'
    <2>1. sessionOf[d] = u /\ Alive(u)
      BY <1>2, <1>3, <1>5, <1>6, <1>7 DEF Grows
    <2>2. Has("local", u)
      BY <2>1 DEF AccountsInv, SessionsInv
    <2> QED BY <2>2 DEF Start, Has
  <1>8. Alive(r.user)' => Ready(r)'
    BY <1>2, <1>3, <1>7 DEF Ready
  <1>9. req' = [req EXCEPT ![d] = r]
    BY <1>1 DEF Start
  <1>10. (req \in [Device -> Requests])' /\ StepsInv' /\ RequestsInv'
    BY <1>3, <1>4, <1>5, <1>8, <1>9, OneRequestMoves
  <1> QED BY <1>10, NothingChangedKeepsAccounts DEF Start

(* The sign-in goes on to enrol its device only if the account is there. *)
LEMMA AuthenticateKeepsAccounts ==
  ASSUME AccountsInv, NEW d \in Device, Authenticate(d)
  PROVE  AccountsInv'
  <1>1. Grows
    BY NothingChangedGrows DEF Authenticate
  <1>2. PICK u : u = req[d].user
    OBVIOUS
  <1>3. CASE Has("remote", u)
    <2>1. Has("remote", u)' /\ Advances(d) /\ At(d, "authenticate")
      BY <1>2, <1>3 DEF Authenticate, Has
    <2>2. (req \in [Device -> Requests])' /\ StepsInv' /\ RequestsInv'
      BY <1>1, <1>2, <2>1, RequestAdvances DEF StepName
    <2> QED BY <2>2, NothingChangedKeepsAccounts DEF Authenticate
  <1>4. CASE ~Has("remote", u)
    <2>1. Dropped(d)
      BY <1>2, <1>4 DEF Authenticate
    <2> QED BY <1>1, <2>1, RequestDropped, NothingChangedKeepsAccounts DEF Authenticate
  <1> QED BY <1>3, <1>4

(* A copy of the remote row follows only a row that was there. *)
LEMMA ReadRowKeepsAccounts ==
  ASSUME AccountsInv, NEW d \in Device, ReadRow(d)
  PROVE  AccountsInv'
  <1>1. Grows
    BY NothingChangedGrows DEF ReadRow
  <1>2. PICK u : u = req[d].user
    OBVIOUS
  <1>3. CASE Has("remote", u)
    <2>1. At(d, "read") /\ "read" \in StepName
      BY DEF ReadRow, StepName
    <2>2. PICK n \in Requests :
            /\ n = AfterStep(d) /\ Proper(n) /\ u \in User
            /\ n.todo # <<>> => n.user = req[d].user /\ n.seen = req[d].seen /\ Follows("read", Head(n.todo))
      BY <1>2, <2>1, NextRequest DEF AccountsInv
    <2>3. PICK r : r = [n EXCEPT !.seen = row["remote"][u]]
      OBVIOUS
    <2>4. row["remote"][u] \in NatRow /\ row["remote"][u] # NoRow
      BY <1>3, <2>2 DEF AccountsInv, TypeInv, Side, Has
    <2>5. r \in Requests /\ r.todo = n.todo /\ r.user = n.user /\ r.seen # NoRow
      BY <2>2, <2>3, <2>4 DEF Requests
    <2>6. Proper(r) /\ ReadBefore(r)
      BY <2>2, <2>5 DEF Proper, ReadBefore
    <2>7. Has("remote", u)'
      BY <1>3 DEF ReadRow, Has
    <2>8. Ready(r)'
      BY <1>2, <2>2, <2>5, <2>7 DEF Ready, Follows
    <2>9. req' = [req EXCEPT ![d] = r]
      BY <1>2, <1>3, <2>2, <2>3 DEF ReadRow
    <2>10. (req \in [Device -> Requests])' /\ StepsInv' /\ RequestsInv'
      BY <1>1, <2>5, <2>6, <2>8, <2>9, OneRequestMoves
    <2> QED BY <2>10, NothingChangedKeepsAccounts DEF ReadRow
  <1>4. CASE ~Has("remote", u)
    <2>1. Dropped(d)
      BY <1>2, <1>4 DEF ReadRow
    <2> QED BY <1>1, <2>1, RequestDropped, NothingChangedKeepsAccounts DEF ReadRow
  <1> QED BY <1>3, <1>4

(* The session is looked up again, or the request is refused. *)
LEMMA RecheckKeepsAccounts ==
  ASSUME AccountsInv, NEW d \in Device, Recheck(d)
  PROVE  AccountsInv'
  <1>1. Grows
    BY NothingChangedGrows DEF Recheck
  <1>2. CASE Advances(d)
    <2>1. At(d, "recheck")
      BY DEF Recheck
    <2>2. (req \in [Device -> Requests])' /\ StepsInv' /\ RequestsInv'
      BY <1>1, <1>2, <2>1, RequestAdvances DEF StepName
    <2> QED BY <2>2, NothingChangedKeepsAccounts DEF Recheck
  <1>3. CASE Dropped(d)
    BY <1>1, <1>3, RequestDropped, NothingChangedKeepsAccounts DEF Recheck
  <1> QED BY <1>2, <1>3 DEF Recheck

(* A handler that throws leaves what it had written. *)
LEMMA FailKeepsAccounts ==
  ASSUME AccountsInv, NEW d \in Device, Fail(d)
  PROVE  AccountsInv'
  <1>1. Grows
    BY NothingChangedGrows DEF Fail
  <1> QED BY <1>1, RequestDropped, NothingChangedKeepsAccounts DEF Fail

(* A new account has a name nobody deleted, and no run is between its copy of
   the accounts and its list of owners. *)
LEMMA CreateKeepsAccounts ==
  ASSUME AccountsInv, Closed, NEW d \in Device, Create(d)
  PROVE  AccountsInv'
  <1>1. PICK u : u = req[d].user
    OBVIOUS
  <1>2. CASE Has("remote", u) \/ u \in tomb["remote"]
    <2>1. Dropped(d) /\ UNCHANGED <<row, tomb, data, sessionOf, run>>
      BY <1>1, <1>2 DEF Create
    <2>2. Grows
      BY <2>1, NothingChangedGrows
    <2> QED BY <2>1, <2>2, RequestDropped, NothingChangedKeepsAccounts
  <1>3. CASE ~(Has("remote", u) \/ u \in tomb["remote"])
    <2> USE DEF Side
    <2>1. /\ row' = [row EXCEPT !["remote"][u] = FirstRow] /\ Advances(d)
          /\ UNCHANGED <<tomb, data, sessionOf, run>> /\ At(d, "create")
          /\ ~(run.pass # 2 /\ run.step \in {"copy", "owners"})
      BY <1>1, <1>3 DEF Create, Closed
    <2>2. u \in User
      BY <1>1, <2>1 DEF AccountsInv, StepsInv, Proper, At
    <2>3. row \in [Side -> [User -> NatRow]] /\ FirstRow \in NatRow /\ FirstRow # NoRow
      BY DEF AccountsInv, TypeInv, FirstRow, NoRow, NatRow
    <2>4. /\ row' \in [Side -> [User -> NatRow]]
          /\ row'["local"] = row["local"]
          /\ row'["remote"][u] = FirstRow
          /\ \A v \in User : v # u => row'["remote"][v] = row["remote"][v]
      BY <2>1, <2>2, <2>3
    <2>5. /\ Has("remote", u)'
          /\ \A v \in User : Has("local", v)' <=> Has("local", v)
          /\ \A v \in User : v # u => (Has("remote", v)' <=> Has("remote", v))
      BY <2>3, <2>4 DEF Has
    <2>6. \A v \in User : Alive(v)' <=> Alive(v)
      BY <2>1 DEF Alive
    <2>7. Grows
      BY <2>5, <2>6 DEF Grows
    <2>8. RunPrepared
      BY <2>1 DEF RunPrepared
    <2>9. (req \in [Device -> Requests])' /\ StepsInv' /\ RequestsInv'
      BY <1>1, <2>1, <2>5, <2>7, RequestAdvances DEF StepName
    <2>10. RowsInv'
      BY <2>1, <2>5, <2>6 DEF AccountsInv, RowsInv
    <2>11. ErasedInv'
      BY <1>3, <2>1, <2>5 DEF AccountsInv, ErasedInv
    <2>12. TypeInv'
      BY <2>1, <2>4, <2>9 DEF AccountsInv, TypeInv
    <2> QED BY <2>1, <2>7, <2>8, <2>9, <2>10, <2>11, <2>12, SessionsUntouched, RunUntouched
            DEF AccountsInv
  <1> QED BY <1>2, <1>3

(* A device is enrolled, or a push is written, on a side that has the account's
   row, or the account was deleted. *)
LEMMA EnrolKeepsAccounts ==
  ASSUME AccountsInv, NEW d \in Device, NEW a, NEW s,
         (a = "enrolRemote" /\ s = "remote") \/ (a \in {"enrol", "write"} /\ s = "local"),
         At(d, a), data' = [data EXCEPT ![s] = @ \cup {req[d].user}], Advances(d),
         UNCHANGED <<row, tomb, sessionOf, run>>
  PROVE  AccountsInv'
  <1> USE DEF Side
  <1>1. PICK u : u = req[d].user
    OBVIOUS
  <1>2. u \in User /\ a \in StepName /\ s \in Side
    BY <1>1 DEF AccountsInv, StepsInv, Proper, At, StepName
  <1>3. Grows /\ RunPrepared
    BY NothingChangedGrows
  <1>4. Alive(u) => Has(s, u)
    BY <1>1 DEF AccountsInv, RequestsInv, Ready, At
  <1>5. a = "enrol" /\ Alive(u)' => Has("local", u)'
    BY <1>4 DEF Alive, Has
  <1>6. a # "read" /\ a \notin {"authenticate", "create", "copy"}
    OBVIOUS
  <1>7. (req \in [Device -> Requests])' /\ StepsInv' /\ RequestsInv'
    BY <1>1, <1>2, <1>3, <1>5, <1>6, RequestAdvances
  <1>8. \A t \in Side : \A v \in User : v \in data'[t] => v \in data[t] \/ (v = u /\ t = s)
    BY <1>1, <1>2 DEF AccountsInv, TypeInv
  <1>9. (data \in [Side -> SUBSET User])'
    BY <1>1, <1>2 DEF AccountsInv, TypeInv
  <1>10. RowsInv'
    <2> SUFFICES ASSUME NEW v \in User, Alive(v)
                 PROVE  /\ \A t \in Side : v \in data'[t] => Has(t, v)
                        /\ Has("local", v) => Has("remote", v)
      BY DEF RowsInv, Alive, Has
    <2> QED BY <1>4, <1>8 DEF AccountsInv, RowsInv
  <1>11. ErasedInv'
    BY DEF AccountsInv, ErasedInv, Has
  <1>12. TypeInv'
    BY <1>7, <1>9 DEF AccountsInv, TypeInv
  <1> QED BY <1>3, <1>7, <1>10, <1>11, <1>12, SessionsUntouched, RunUntouched DEF AccountsInv

(* The copy that is written to the local side is of a row, and the account is
   still on the remote unless it was deleted. *)
LEMMA CopyRowKeepsAccounts ==
  ASSUME AccountsInv, NEW d \in Device, CopyRow(d)
  PROVE  AccountsInv'
  <1> USE DEF Side
  <1>1. PICK u, seen : u = req[d].user /\ seen = req[d].seen
    OBVIOUS
  <1>2. u \in User /\ seen \in NatRow /\ seen # NoRow
    BY <1>1 DEF CopyRow, AccountsInv, TypeInv, Requests, StepsInv, Proper, RequestsInv, ReadBefore, At
  <1>3. Alive(u) => Has("remote", u)
    BY <1>1 DEF CopyRow, AccountsInv, RequestsInv, Ready, At
  <1>4. /\ row' = [row EXCEPT !["local"][u] = seen] /\ Advances(d)
        /\ UNCHANGED <<tomb, data, run>> /\ At(d, "copy")
    BY <1>1 DEF CopyRow
  <1>5. /\ row' \in [Side -> [User -> NatRow]]
        /\ row'["remote"] = row["remote"]
        /\ row'["local"][u] = seen
        /\ \A v \in User : v # u => row'["local"][v] = row["local"][v]
    BY <1>2, <1>4 DEF AccountsInv, TypeInv
  <1>6. /\ Has("local", u)'
        /\ \A v \in User : Has("remote", v)' <=> Has("remote", v)
        /\ \A v \in User : v # u => (Has("local", v)' <=> Has("local", v))
    BY <1>2, <1>5 DEF Has
  <1>7. \A v \in User : Alive(v)' <=> Alive(v)
    BY <1>4 DEF Alive
  <1>8. Grows /\ RunPrepared
    BY <1>6, <1>7 DEF Grows, RunPrepared
  <1>9. (req \in [Device -> Requests])' /\ StepsInv' /\ RequestsInv'
    BY <1>1, <1>4, <1>6, <1>8, RequestAdvances DEF StepName
  <1>10. PICK q : q = sessionOf'
    OBVIOUS
  <1>11. q \in [Device -> User \cup {NoUser}] /\ \A e \in Device : q[e] \in {sessionOf[e], NoUser}
    BY <1>10 DEF CopyRow, SignedOut, AccountsInv, TypeInv
  <1>12. SessionsInv'
    BY <1>8, <1>10, <1>11, SessionsOnlyEnd
  <1>13. RowsInv'
    BY <1>3, <1>4, <1>6, <1>7 DEF AccountsInv, RowsInv
  <1>14. ErasedInv'
    BY <1>4, <1>6 DEF AccountsInv, ErasedInv
  <1>15. TypeInv'
    BY <1>4, <1>5, <1>9, <1>10, <1>11 DEF AccountsInv, TypeInv
  <1> QED BY <1>4, <1>8, <1>9, <1>12, <1>13, <1>14, <1>15, RunUntouched DEF AccountsInv

(* A session is made for an account whose row was copied, or which was deleted. *)
LEMMA CreateSessionKeepsAccounts ==
  ASSUME AccountsInv, NEW d \in Device, CreateSession(d)
  PROVE  AccountsInv'
  <1>1. PICK u : u = req[d].user
    OBVIOUS
  <1>2. Grows /\ RunPrepared
    BY NothingChangedGrows DEF CreateSession
  <1>3. At(d, "session") /\ Advances(d) /\ u \in User
    BY <1>1 DEF CreateSession, AccountsInv, StepsInv, Proper, At
  <1>4. Alive(u) => Has("local", u)
    BY <1>1, <1>3 DEF AccountsInv, RequestsInv, Ready, At
  <1>5. (req \in [Device -> Requests])' /\ StepsInv' /\ RequestsInv'
    BY <1>1, <1>2, <1>3, RequestAdvances DEF StepName
  <1>6. sessionOf' = [sessionOf EXCEPT ![d] = u]
    BY <1>1 DEF CreateSession
  <1>7. (sessionOf \in [Device -> User \cup {NoUser}])'
        /\ \A e \in Device : sessionOf'[e] = sessionOf[e] \/ sessionOf'[e] = u
    BY <1>3, <1>6 DEF AccountsInv, TypeInv
  <1>8. SessionsInv'
    <2> SUFFICES ASSUME NEW e \in Device, sessionOf'[e] \in User, Alive(sessionOf'[e])
                 PROVE  Has("local", sessionOf'[e])
      BY DEF SessionsInv, CreateSession, Alive, Has
    <2>1. CASE sessionOf'[e] = u
      BY <1>4, <2>1
    <2>2. CASE sessionOf'[e] = sessionOf[e]
      BY <2>2 DEF AccountsInv, SessionsInv
    <2> QED BY <1>7, <2>1, <2>2
  <1>9. TypeInv'
    BY <1>5, <1>7 DEF AccountsInv, TypeInv, CreateSession
  <1> QED BY <1>2, <1>5, <1>8, <1>9, RowsUntouched, RunUntouched DEF AccountsInv, CreateSession

(* The remote row changes and stays a row. *)
LEMMA ChangeKeepsAccounts ==
  ASSUME AccountsInv, NEW d \in Device, Change(d)
  PROVE  AccountsInv'
  <1> USE DEF Side
  <1>1. PICK u, kind : u = req[d].user /\ kind = req[d].kind
    OBVIOUS
  <1>2. CASE ~Has("remote", u)
    <2>1. Dropped(d) /\ UNCHANGED <<row, tomb, data, sessionOf, run>>
      BY <1>1, <1>2 DEF Change
    <2>2. Grows
      BY <2>1, NothingChangedGrows
    <2> QED BY <2>1, <2>2, RequestDropped, NothingChangedKeepsAccounts
  <1>3. CASE Has("remote", u)
    <2>1. PICK new : new = Changed(row["remote"][u], kind)
      OBVIOUS
    <2>2. /\ row' = [row EXCEPT !["remote"][u] = new] /\ Advances(d)
          /\ UNCHANGED <<tomb, data, sessionOf, run>> /\ At(d, "change")
      BY <1>1, <1>3, <2>1 DEF Change
    <2>3. u \in User
      BY <1>1, <2>2 DEF AccountsInv, StepsInv, Proper, At
    <2>4. row["remote"][u] \in NatRow /\ row \in [Side -> [User -> NatRow]]
      BY <2>3 DEF AccountsInv, TypeInv
    <2>5. ASSUME NEW r \in NatRow, NEW k
          PROVE  Changed(r, k) \in NatRow /\ Changed(r, k) # NoRow
      <3>1. /\ [r EXCEPT !.cred = @ + 1] \in NatRow /\ [r EXCEPT !.cred = @ + 1].cred # 0
            /\ [r EXCEPT !.prof = @ + 1] \in NatRow /\ [r EXCEPT !.prof = @ + 1].prof # 0
        BY DEF NatRow
      <3> QED BY <3>1 DEF Changed, NoRow
    <2>6. new \in NatRow /\ new # NoRow
      BY <2>1, <2>4, <2>5
    <2>7. /\ row' \in [Side -> [User -> NatRow]]
          /\ row'["local"] = row["local"]
          /\ row'["remote"][u] = new
          /\ \A v \in User : v # u => row'["remote"][v] = row["remote"][v]
      BY <2>2, <2>3, <2>4, <2>6
    <2>8. \A v \in User : \A s \in Side : Has(s, v)' <=> Has(s, v)
      BY <1>3, <2>6, <2>7 DEF Has
    <2>9. \A v \in User : Alive(v)' <=> Alive(v)
      BY <2>2 DEF Alive
    <2>10. Grows /\ RunPrepared
      BY <2>8, <2>9 DEF Grows, RunPrepared
    <2>11. (req \in [Device -> Requests])' /\ StepsInv' /\ RequestsInv'
      BY <1>1, <2>2, <2>10, RequestAdvances DEF StepName
    <2>12. RowsInv' /\ ErasedInv'
      BY <2>2, <2>8, <2>9 DEF AccountsInv, RowsInv, ErasedInv
    <2>13. TypeInv'
      BY <2>2, <2>7, <2>11 DEF AccountsInv, TypeInv
    <2> QED BY <2>2, <2>10, <2>11, <2>12, <2>13, SessionsUntouched, RunUntouched DEF AccountsInv
  <1> QED BY <1>2, <1>3

(* A deletion leaves the tombstone in the same transaction. *)
LEMMA EraseKeepsAccounts ==
  ASSUME AccountsInv, NEW d \in Device, Erase(d)
  PROVE  AccountsInv'
  <1> USE DEF Side
  <1>1. PICK u : u = req[d].user
    OBVIOUS
  <1>2. CASE ~Has("remote", u)
    <2>1. Dropped(d) /\ UNCHANGED <<row, tomb, data, sessionOf, run>>
      BY <1>1, <1>2 DEF Erase
    <2>2. Grows
      BY <2>1, NothingChangedGrows
    <2> QED BY <2>1, <2>2, RequestDropped, NothingChangedKeepsAccounts
  <1>3. CASE Has("remote", u)
    <2>1. /\ row' = [row EXCEPT !["remote"][u] = NoRow]
          /\ tomb' = [tomb EXCEPT !["remote"] = @ \cup {u}]
          /\ data' = [data EXCEPT !["remote"] = @ \ {u}]
          /\ Advances(d) /\ UNCHANGED <<sessionOf, run>> /\ At(d, "erase")
      BY <1>1, <1>3 DEF Erase
    <2>2. u \in User
      BY <1>1, <2>1 DEF AccountsInv, StepsInv, Proper, At
    <2>3. /\ row \in [Side -> [User -> NatRow]] /\ NoRow \in NatRow
          /\ tomb \in [Side -> SUBSET User] /\ data \in [Side -> SUBSET User]
      BY DEF AccountsInv, TypeInv, NoRow, NatRow
    <2>4. /\ row' \in [Side -> [User -> NatRow]]
          /\ row'["local"] = row["local"] /\ row'["remote"][u] = NoRow
          /\ \A v \in User : v # u => row'["remote"][v] = row["remote"][v]
      BY <2>1, <2>2, <2>3
    <2>5. /\ tomb' \in [Side -> SUBSET User] /\ data' \in [Side -> SUBSET User]
          /\ tomb'["local"] = tomb["local"] /\ tomb'["remote"] = tomb["remote"] \cup {u}
          /\ data'["local"] = data["local"] /\ data'["remote"] = data["remote"] \ {u}
      BY <2>1, <2>2, <2>3
    <2>6. \A v \in User : Alive(v)' => Alive(v) /\ v # u
      BY <2>5 DEF Alive
    <2>7. /\ \A v \in User : Has("local", v)' <=> Has("local", v)
          /\ \A v \in User : v # u => (Has("remote", v)' <=> Has("remote", v))
          /\ ~Has("remote", u)'
      BY <2>4 DEF Has
    <2>8. Grows /\ RunPrepared
      BY <2>6, <2>7 DEF Grows, RunPrepared
    <2>9. (req \in [Device -> Requests])' /\ StepsInv' /\ RequestsInv'
      BY <1>1, <2>1, <2>8, RequestAdvances DEF StepName
    <2>10. RowsInv'
      BY <2>5, <2>6, <2>7 DEF AccountsInv, RowsInv
    <2>11. ErasedInv'
      BY <2>5, <2>7 DEF AccountsInv, ErasedInv
    <2>12. TypeInv'
      BY <2>1, <2>4, <2>5, <2>9 DEF AccountsInv, TypeInv
    <2> QED BY <2>1, <2>8, <2>9, <2>10, <2>11, <2>12, SessionsUntouched, RunUntouched DEF AccountsInv
  <1> QED BY <1>2, <1>3

(* A browser signs out. *)
LEMMA SignOutKeepsAccounts ==
  ASSUME AccountsInv, NEW d \in Device, SignOut(d) \/ LogoutRoute(d)
  PROVE  AccountsInv'
  <1>1. sessionOf' = [sessionOf EXCEPT ![d] = NoUser] /\ UNCHANGED <<row, tomb, data, run>>
    BY DEF SignOut, LogoutRoute
  <1>2. Grows /\ RunPrepared
    BY <1>1, NothingChangedGrows
  <1>3. (req \in [Device -> Requests])' /\ StepsInv' /\ RequestsInv'
    <2>1. CASE SignOut(d)
      <3>1. At(d, "signOut") /\ Advances(d)
        BY <2>1 DEF SignOut
      <3> QED BY <1>2, <3>1, RequestAdvances DEF StepName
    <2>2. CASE LogoutRoute(d)
      BY <1>2, <2>2, RequestsUntouched DEF LogoutRoute
    <2> QED BY <2>1, <2>2
  <1>4. PICK q : q = sessionOf'
    OBVIOUS
  <1>5. q \in [Device -> User \cup {NoUser}] /\ \A e \in Device : q[e] \in {sessionOf[e], NoUser}
    BY <1>1, <1>4 DEF AccountsInv, TypeInv
  <1>6. SessionsInv'
    BY <1>2, <1>4, <1>5, SessionsOnlyEnd
  <1>7. TypeInv'
    BY <1>1, <1>3, <1>4, <1>5 DEF AccountsInv, TypeInv
  <1> QED BY <1>1, <1>2, <1>3, <1>6, <1>7, RowsUntouched, RunUntouched DEF AccountsInv

(***************************************************************************)
(* The steps of the runs.                                                  *)
(***************************************************************************)
(* A run that starts and a run that is over. *)
LEMMA FreshRun ==
  ASSUME TypeInv
  PROVE  /\ RunStarted \in Runs /\ RunStarted.step = "tombs"
         /\ \A ok \in BOOLEAN : /\ [NoRun EXCEPT !.ok = ok] \in Runs
                                /\ [NoRun EXCEPT !.ok = ok].step = "idle"
  <1>1. NoRun \in Runs
    BY DEF NoRun, Runs, RunStepName, NoRow, NatRow
  <1>2. Tombstones \in SUBSET (User \X Side)
    BY DEF Tombstones, TypeInv, Side
  <1>3. "tombs" \in RunStepName /\ NoRun.step = "idle"
    BY DEF RunStepName, NoRun
  <1> HIDE DEF NoRun
  <1> QED BY <1>1, <1>2, <1>3 DEF RunStarted, Runs

(* Before its first and between its passes a run relies on nothing. *)
LEMMA NoRunUnderWay ==
  ASSUME run'.step \in {"idle", "tombs", "list"}
  PROVE  RunInv'
  BY DEF RunInv

(* The queue's worker starts a run. *)
LEMMA QueueRunKeepsAccounts ==
  ASSUME AccountsInv, QueueRun
  PROVE  AccountsInv'
  <1>1. Grows
    BY NothingChangedGrows DEF QueueRun
  <1>2. run' \in Runs /\ run'.step = "tombs"
    BY FreshRun DEF QueueRun, AccountsInv
  <1>3. (req \in [Device -> Requests])' /\ StepsInv' /\ RequestsInv'
    BY <1>1, RequestsUntouched DEF QueueRun
  <1>4. TypeInv'
    BY <1>2, <1>3 DEF AccountsInv, TypeInv, QueueRun
  <1> QED BY <1>1, <1>2, <1>3, <1>4, NoRunUnderWay, RowsUntouched, SessionsUntouched
          DEF AccountsInv, QueueRun

(* A route asks for a run, or waits for the one in flight. *)
LEMMA SyncKeepsAccounts ==
  ASSUME AccountsInv, NEW d \in Device, SyncRoute(d)
  PROVE  AccountsInv'
  <1>1. Grows /\ RunPrepared
    BY NothingChangedGrows DEF SyncRoute
  <1>2. /\ req[d] \in Requests /\ req[d].todo \in Seq(StepName) /\ req[d].todo # <<>>
        /\ Head(req[d].todo) = "sync" /\ Proper(req[d])
    BY DEF SyncRoute, At, AccountsInv, TypeInv, StepsInv, Requests
  <1>3. PICK wait : wait = <<"wait">> \o Tail(req[d].todo)
    OBVIOUS
  <1>4. wait \in Seq(StepName) /\ wait # <<>> /\ Head(wait) = "wait" /\ Ordered(wait)
    BY <1>2, <1>3, WaitInOrder DEF Proper
  <1>5. PICK r : r = [req[d] EXCEPT !.todo = wait]
    OBVIOUS
  <1>6. r \in Requests /\ r.todo = wait /\ r.user = req[d].user
    BY <1>2, <1>4, <1>5 DEF Requests
  <1>7. Proper(r) /\ ReadBefore(r) /\ Ready(r)'
    BY <1>2, <1>4, <1>6 DEF Proper, ReadBefore, Ready
  <1>8. req' = [req EXCEPT ![d] = r]
    BY <1>3, <1>5 DEF SyncRoute
  <1>9. (req \in [Device -> Requests])' /\ StepsInv' /\ RequestsInv'
    BY <1>1, <1>6, <1>7, <1>8, OneRequestMoves
  <1>10. run' \in Runs /\ RunInv'
    <2>1. CASE run' = run
      BY <1>1, <2>1, RunUntouched DEF AccountsInv, TypeInv
    <2>2. CASE run' = RunStarted
      BY <2>2, FreshRun, NoRunUnderWay DEF AccountsInv
    <2> QED BY <2>1, <2>2 DEF SyncRoute
  <1>11. TypeInv'
    BY <1>9, <1>10 DEF AccountsInv, TypeInv, SyncRoute
  <1> QED BY <1>1, <1>9, <1>10, <1>11, RowsUntouched, SessionsUntouched DEF AccountsInv, SyncRoute

(* The requests that wait for a run go on, or are answered with an error. *)
LEMMA RunEndsKeepsAccounts ==
  ASSUME AccountsInv, NEW ok \in BOOLEAN, RunEnds(ok), UNCHANGED <<row, tomb, data, sessionOf>>
  PROVE  AccountsInv'
  <1>1. Grows
    BY NothingChangedGrows
  <1>2. PICK q : q = req'
    OBVIOUS
  <1>3. ASSUME NEW d \in Device
        PROVE  /\ q[d] \in Requests
               /\ \/ q[d] = req[d]
                  \/ Proper(q[d]) /\ ReadBefore(q[d]) /\ (Alive(q[d].user)' => Ready(q[d])')
    <2>1. q[d] = IF ~At(d, "wait") THEN req[d] ELSE IF ok THEN AfterStep(d) ELSE Idle
      BY <1>2 DEF RunEnds
    <2>2. CASE ~At(d, "wait")
      <3>1. q[d] = req[d]
        BY <2>1, <2>2
      <3> QED BY <3>1 DEF AccountsInv, TypeInv
    <2>3. CASE At(d, "wait") /\ ~ok
      <3>1. q[d] = Idle
        BY <2>1, <2>3
      <3> QED BY <3>1, IdleIsReady
    <2>4. CASE At(d, "wait") /\ ok
      <3>1. q[d] = AfterStep(d)
        BY <2>1, <2>4
      <3>2. PICK r \in Requests :
               /\ r = AfterStep(d) /\ Proper(r)
               /\ r.todo # <<>> => Follows("wait", Head(r.todo))
        BY <2>4, NextRequest DEF AccountsInv, StepName
      <3>3. ReadBefore(r) /\ Ready(r)'
        BY <3>2 DEF ReadBefore, Ready, Follows
      <3> QED BY <3>1, <3>2, <3>3
    <2> QED BY <2>2, <2>3, <2>4
  <1>4. q \in [Device -> Requests]
    BY <1>2, <1>3 DEF RunEnds
  <1>5. (req \in [Device -> Requests])' /\ StepsInv' /\ RequestsInv'
    BY <1>1, <1>2, <1>3, <1>4, RequestsStayReady
  <1>6. run' \in Runs /\ run'.step = "idle"
    BY FreshRun DEF RunEnds, AccountsInv
  <1>7. TypeInv'
    BY <1>5, <1>6 DEF AccountsInv, TypeInv
  <1> QED BY <1>1, <1>5, <1>6, <1>7, NoRunUnderWay, RowsUntouched, SessionsUntouched DEF AccountsInv

(* The process dies with its requests and its run. *)
LEMMA CrashKeepsAccounts ==
  ASSUME AccountsInv, Crash
  PROVE  AccountsInv'
  <1>1. Grows
    BY NothingChangedGrows DEF Crash
  <1>2. PICK q : q = req'
    OBVIOUS
  <1>3. q \in [Device -> Requests] /\ \A d \in Device : q[d] = Idle
    BY <1>2, IdleIsReady DEF Crash
  <1>4. (req \in [Device -> Requests])' /\ StepsInv' /\ RequestsInv'
    BY <1>1, <1>2, <1>3, IdleIsReady, RequestsStayReady
  <1>5. run' \in Runs /\ run'.step = "idle"
    BY FreshRun DEF Crash, AccountsInv
  <1>6. TypeInv'
    BY <1>4, <1>5 DEF AccountsInv, TypeInv, Crash
  <1> QED BY <1>1, <1>4, <1>5, <1>6, NoRunUnderWay, RowsUntouched, SessionsUntouched
          DEF AccountsInv, Crash

(* A run's steps that only move the run on. *)
LEMMA RunMovesOn ==
  ASSUME AccountsInv, UNCHANGED <<row, tomb, data, sessionOf, req>>, run' \in Runs, RunInv'
  PROVE  AccountsInv'
  <1>1. Grows
    BY NothingChangedGrows
  <1>2. (req \in [Device -> Requests])' /\ StepsInv' /\ RequestsInv'
    BY <1>1, RequestsUntouched
  <1>3. TypeInv'
    BY <1>2 DEF AccountsInv, TypeInv
  <1> QED BY <1>1, <1>2, <1>3, RowsUntouched, SessionsUntouched DEF AccountsInv

(* A tombstone takes the account away on one side and stays there. *)
LEMMA ApplyTombstoneKeepsAccounts ==
  ASSUME AccountsInv, NEW u \in User, NEW s \in Side, ApplyTombstone(u, s)
  PROVE  AccountsInv'
  <1> USE DEF Side
  <1>1. /\ row' = [row EXCEPT ![s][u] = NoRow] /\ tomb' = [tomb EXCEPT ![s] = @ \cup {u}]
        /\ data' = [data EXCEPT ![s] = @ \ {u}] /\ UNCHANGED req
        /\ run' = [run EXCEPT !.tombs = @ \ {<<u, s>>}] /\ run.step = "tombs"
    BY DEF ApplyTombstone
  <1>2. /\ row \in [Side -> [User -> NatRow]] /\ NoRow \in NatRow
        /\ tomb \in [Side -> SUBSET User] /\ data \in [Side -> SUBSET User] /\ run \in Runs
    BY DEF AccountsInv, TypeInv, NoRow, NatRow
  <1>3. /\ row' \in [Side -> [User -> NatRow]] /\ row'[s][u] = NoRow
        /\ \A t \in Side, v \in User : t # s \/ v # u => row'[t][v] = row[t][v]
    BY <1>1, <1>2
  <1>4. /\ tomb' \in [Side -> SUBSET User] /\ data' \in [Side -> SUBSET User]
        /\ tomb'[s] = tomb[s] \cup {u} /\ \A t \in Side : t # s => tomb'[t] = tomb[t]
        /\ \A t \in Side : data'[t] \subseteq data[t]
    BY <1>1, <1>2
  <1>5. \A v \in User : Alive(v)' => Alive(v) /\ v # u
    BY <1>4 DEF Alive
  <1>6. /\ ~Has(s, u)'
        /\ \A t \in Side, v \in User : t # s \/ v # u => (Has(t, v)' <=> Has(t, v))
    BY <1>3 DEF Has
  <1>7. Grows /\ RunPrepared
    BY <1>5, <1>6 DEF Grows, RunPrepared
  <1>8. (req \in [Device -> Requests])' /\ StepsInv' /\ RequestsInv'
    BY <1>1, <1>7, RequestsUntouched
  <1>9. PICK q : q = sessionOf'
    OBVIOUS
  <1>10. q \in [Device -> User \cup {NoUser}] /\ \A e \in Device : q[e] \in {sessionOf[e], NoUser}
    BY <1>9 DEF ApplyTombstone, SignedOut, AccountsInv, TypeInv
  <1>11. SessionsInv'
    BY <1>7, <1>9, <1>10, SessionsOnlyEnd
  <1>12. RowsInv'
    <2> SUFFICES ASSUME NEW v \in User, Alive(v)'
                 PROVE  /\ \A t \in Side : v \in data'[t] => Has(t, v)'
                        /\ Has("local", v)' => Has("remote", v)'
      BY DEF RowsInv
    <2>1. Alive(v) /\ v # u
      BY <1>5
    <2> QED BY <1>4, <1>6, <2>1 DEF AccountsInv, RowsInv
  <1>13. ErasedInv'
    BY <1>4, <1>6 DEF AccountsInv, ErasedInv
  <1>14. run' \in Runs /\ run'.step = "tombs"
    BY <1>1, <1>2 DEF Runs
  <1>15. TypeInv'
    BY <1>3, <1>4, <1>8, <1>9, <1>10, <1>14 DEF AccountsInv, TypeInv
  <1> QED BY <1>8, <1>11, <1>12, <1>13, <1>14, <1>15, NoRunUnderWay DEF AccountsInv

(* The run turns to its checks. *)
LEMMA TombstonesDoneKeepsAccounts ==
  ASSUME AccountsInv, TombstonesDone
  PROVE  AccountsInv'
  <1>1. run' = [run EXCEPT !.step = "check", !.left = Side] /\ run \in Runs
    BY DEF TombstonesDone, AccountsInv, TypeInv
  <1>2. run' \in Runs /\ run'.step = "check" /\ run'.left = Side
    BY <1>1 DEF Runs, RunStepName
  <1>3. RunInv'
    BY <1>2 DEF RunInv
  <1> QED BY <1>2, <1>3, RunMovesOn DEF TombstonesDone

(* A check passes, or the run ends with an error. *)
LEMMA CheckKeepsAccounts ==
  ASSUME AccountsInv, NEW s \in Side, Check(s)
  PROVE  AccountsInv'
  <1>1. run \in Runs /\ run.step = "check" /\ run.left \subseteq Side
    BY DEF Check, AccountsInv, TypeInv, RunInv
  <1>2. UNCHANGED <<row, tomb, data, sessionOf>>
    BY DEF Check
  <1>3. CASE RunEnds(FALSE)
    BY <1>2, <1>3, RunEndsKeepsAccounts
  <1>4. CASE run' = [run EXCEPT !.left = @ \ {s}, !.users = Users(s)] /\ UNCHANGED req
    <2>1. Users(s) \in SUBSET User
      BY DEF Users
    <2>2. run' \in Runs /\ run'.step = "check" /\ run'.left = run.left \ {s}
      BY <1>1, <1>4, <2>1 DEF Runs
    <2>3. RunInv'
      BY <1>1, <2>2 DEF RunInv
    <2> QED BY <1>2, <1>4, <2>2, <2>3, RunMovesOn
  <1>5. CASE run' = [run EXCEPT !.step = "list", !.pass = 1, !.left = {}, !.users = {}] /\ UNCHANGED req
    <2>1. PICK none : none = {}
      OBVIOUS
    <2>2. run' = [run EXCEPT !.step = "list", !.pass = 1, !.left = none, !.users = none]
      BY <1>5, <2>1
    <2>3. none \in SUBSET (User \cup Side) /\ none \in SUBSET User /\ 1 \in 0 .. 3
      BY <2>1
    <2>4. run' \in Runs /\ run'.step = "list"
      BY <1>1, <2>2, <2>3 DEF Runs, RunStepName
    <2> QED BY <1>2, <1>5, <2>4, NoRunUnderWay, RunMovesOn
  <1> QED BY <1>3, <1>4, <1>5 DEF Check

(* The pass copies every account the remote has at that moment. *)
LEMMA ListUsersKeepsAccounts ==
  ASSUME AccountsInv, ListUsers
  PROVE  AccountsInv'
  <1>1. run \in Runs /\ row \in [Side -> [User -> NatRow]]
    BY DEF AccountsInv, TypeInv
  <1>2. CASE run.pass = 2
    <2>1. run' = [run EXCEPT !.step = "owners"]
      BY <1>2 DEF ListUsers
    <2>2. run' \in Runs /\ run'.step = "owners" /\ run'.pass = 2
      BY <1>1, <1>2, <2>1 DEF Runs, RunStepName
    <2>3. RunInv'
      BY <2>2 DEF RunInv
    <2> QED BY <2>2, <2>3, RunMovesOn DEF ListUsers
  <1>3. CASE run.pass # 2
    <2>1. PICK copy, left : copy = row["remote"] /\ left = Users("remote")
      OBVIOUS
    <2>2. run' = [run EXCEPT !.step = "copy", !.copy = copy, !.left = left]
      BY <1>3, <2>1 DEF ListUsers
    <2>3. copy \in [User -> NatRow] /\ left \subseteq User
      BY <1>1, <2>1 DEF Users, Side
    <2>4. /\ run' \in Runs /\ run'.step = "copy" /\ run'.pass # 2
          /\ run'.copy = copy /\ run'.left = left
      BY <1>1, <1>3, <2>2, <2>3 DEF Runs, RunStepName
    <2>5. \A u \in User : u \in left <=> Has("remote", u)
      BY <2>1 DEF Users
    <2>6. \A u \in left : copy[u] # NoRow
      BY <2>1 DEF Users, Has
    <2>7. \A u \in User : Has("remote", u)' <=> Has("remote", u)
      BY DEF ListUsers, Has
    <2>8. RunInv'
      BY <2>3, <2>4, <2>5, <2>6, <2>7 DEF RunInv, Copied
    <2> QED BY <2>4, <2>8, RunMovesOn DEF ListUsers
  <1> QED BY <1>2, <1>3

(* A copied account gets a local row; its remote row is there, or it was deleted. *)
LEMMA CopyUserKeepsAccounts ==
  ASSUME AccountsInv, NEW u \in User, CopyUser(u)
  PROVE  AccountsInv'
  <1> USE DEF Side
  <1>1. PICK new : new = run.copy[u]
    OBVIOUS
  <1>2. /\ row' = [row EXCEPT !["local"][u] = new] /\ UNCHANGED <<tomb, data, req>>
        /\ run' = [run EXCEPT !.left = @ \ {u}] /\ run.step = "copy" /\ u \in run.left
    BY <1>1 DEF CopyUser, Written
  <1>3. /\ row \in [Side -> [User -> NatRow]] /\ run \in Runs /\ new \in NatRow /\ RunInv
    BY <1>1 DEF AccountsInv, TypeInv, Runs
  <1>4. new # NoRow /\ (Alive(u) => Has("remote", u)) /\ run.left \subseteq User /\ run.pass # 2
    BY <1>1, <1>2, <1>3 DEF RunInv
  <1>5. /\ row' \in [Side -> [User -> NatRow]]
        /\ row'["remote"] = row["remote"] /\ row'["local"][u] = new
        /\ \A v \in User : v # u => row'["local"][v] = row["local"][v]
    BY <1>2, <1>3
  <1>6. /\ Has("local", u)'
        /\ \A v \in User : Has("remote", v)' <=> Has("remote", v)
        /\ \A v \in User : v # u => (Has("local", v)' <=> Has("local", v))
    BY <1>4, <1>5 DEF Has
  <1>7. \A v \in User : Alive(v)' <=> Alive(v)
    BY <1>2 DEF Alive
  <1>8. Grows
    BY <1>6, <1>7 DEF Grows
  <1>9. (req \in [Device -> Requests])' /\ StepsInv' /\ RequestsInv'
    BY <1>2, <1>8, RequestsUntouched
  <1>10. PICK q : q = sessionOf'
    OBVIOUS
  <1>11. q \in [Device -> User \cup {NoUser}] /\ \A e \in Device : q[e] \in {sessionOf[e], NoUser}
    BY <1>10 DEF CopyUser, SignedOut, AccountsInv, TypeInv
  <1>12. SessionsInv'
    BY <1>8, <1>10, <1>11, SessionsOnlyEnd
  <1>13. RowsInv'
    BY <1>2, <1>4, <1>6, <1>7 DEF AccountsInv, RowsInv
  <1>14. ErasedInv'
    BY <1>2, <1>6 DEF AccountsInv, ErasedInv
  <1>15. /\ run' \in Runs /\ run'.step = "copy" /\ run'.pass = run.pass
         /\ run'.copy = run.copy /\ run'.left = run.left \ {u}
    BY <1>2, <1>3 DEF Runs
  <1>16. RunInv'
    <2>1. \A v \in run'.left : run'.copy[v] # NoRow
      BY <1>2, <1>3, <1>15 DEF RunInv
    <2>2. \A v \in run'.left : Alive(v)' => Has("remote", v)'
      BY <1>2, <1>3, <1>4, <1>6, <1>7, <1>15 DEF RunInv
    <2>3. \A v \in User : Alive(v)' /\ Has("remote", v)' => Copied(v)'
      <3> SUFFICES ASSUME NEW v \in User, Alive(v)', Has("remote", v)' PROVE Copied(v)'
        OBVIOUS
      <3>1. Copied(v)
        BY <1>2, <1>3, <1>4, <1>6, <1>7 DEF RunInv
      <3>2. CASE v = u
        BY <1>6, <3>2 DEF Copied
      <3>3. CASE v # u
        BY <1>6, <1>15, <3>1, <3>3 DEF Copied
      <3> QED BY <3>2, <3>3
    <2> QED BY <1>4, <1>15, <2>1, <2>2, <2>3 DEF RunInv
  <1>17. TypeInv'
    BY <1>2, <1>5, <1>9, <1>10, <1>11, <1>15 DEF AccountsInv, TypeInv
  <1> QED BY <1>9, <1>12, <1>13, <1>14, <1>16, <1>17 DEF AccountsInv

(* With nothing left to copy every remote account has its local row. *)
LEMMA UsersDoneKeepsAccounts ==
  ASSUME AccountsInv, UsersDone
  PROVE  AccountsInv'
  <1>1. run \in Runs /\ run.step = "copy" /\ run.left = {} /\ RunInv
    BY DEF UsersDone, AccountsInv, TypeInv
  <1>2. NoRun.copy \in [User -> NatRow]
    BY DEF NoRun, NoRow, NatRow
  <1>3. PICK copy : copy = NoRun.copy
    OBVIOUS
  <1>4. run' = [run EXCEPT !.step = "owners", !.copy = copy]
    BY <1>3 DEF UsersDone
  <1>5. run' \in Runs /\ run'.step = "owners" /\ run'.pass = run.pass
    BY <1>1, <1>2, <1>3, <1>4 DEF Runs, RunStepName
  <1>6. \A u \in User : Alive(u)' /\ Has("remote", u)' => Has("local", u)'
    BY <1>1 DEF RunInv, Copied, UsersDone, Alive, Has
  <1>7. RunInv'
    BY <1>5, <1>6 DEF RunInv, Copied
  <1> QED BY <1>5, <1>7, RunMovesOn DEF UsersDone

(* In a pass from the remote every owner listed has a local account. *)
LEMMA ListOwnersKeepsAccounts ==
  ASSUME AccountsInv, ListOwners
  PROVE  AccountsInv'
  <1>1. run \in Runs /\ run.step = "owners" /\ RunInv /\ RowsInv
    BY DEF ListOwners, AccountsInv, TypeInv
  <1>2. PICK left : left = Users("local") \cup Users("remote")
    OBVIOUS
  <1>3. run' = [run EXCEPT !.step = "data", !.left = left]
    BY <1>2 DEF ListOwners
  <1>4. left \subseteq User /\ \A u \in left : Has("local", u) \/ Has("remote", u)
    BY <1>2 DEF Users
  <1>5. run' \in Runs /\ run'.step = "data" /\ run'.pass = run.pass /\ run'.left = left
    BY <1>1, <1>3, <1>4 DEF Runs, RunStepName
  <1>6. ASSUME run.pass # 2 PROVE \A u \in left : Alive(u) => Has("local", u)
    BY <1>1, <1>4, <1>6 DEF RunInv, Copied
  <1>7. ASSUME run.pass # 2 PROVE \A u \in left : Alive(u)' => Has("local", u)'
    BY <1>6, <1>7 DEF ListOwners, Alive, Has
  <1>8. RunInv'
    BY <1>4, <1>5, <1>7 DEF RunInv
  <1> QED BY <1>5, <1>8, RunMovesOn DEF ListOwners

(* An owner's data reaches a side that has the owner's account. *)
LEMMA CopyDataKeepsAccounts ==
  ASSUME AccountsInv, NEW u \in User, CopyData(u)
  PROVE  AccountsInv'
  <1> USE DEF Side
  <1>1. run \in Runs /\ run.step = "data" /\ u \in run.left /\ RunInv /\ RowsInv
    BY DEF CopyData, AccountsInv, TypeInv
  <1>2. run' = [run EXCEPT !.left = @ \ {u}] /\ UNCHANGED <<row, tomb, sessionOf, req>>
    BY DEF CopyData
  <1>3. PICK from \in Side, to \in Side :
          /\ from = (IF run.pass = 2 THEN "local" ELSE "remote")
          /\ to = (IF run.pass = 2 THEN "remote" ELSE "local")
    OBVIOUS
  <1>4. data' = data \/ (u \in data[from] /\ data' = [data EXCEPT ![to] = @ \cup {u}])
    BY <1>3 DEF CopyData
  <1>5. ASSUME u \in data[from], Alive(u) PROVE Has(to, u)
    <2>1. CASE run.pass = 2
      BY <1>1, <1>3, <1>5, <2>1 DEF RowsInv
    <2>2. CASE run.pass # 2
      BY <1>1, <1>3, <1>5, <2>2 DEF RunInv
    <2> QED BY <2>1, <2>2
  <1>6. /\ data' \in [Side -> SUBSET User]
        /\ \A t \in Side, v \in User : v \in data'[t] =>
               v \in data[t] \/ (t = to /\ v = u /\ u \in data[from])
    BY <1>4 DEF AccountsInv, TypeInv
  <1>7. Grows /\ RunPrepared
    BY <1>2, NothingChangedGrows
  <1>8. (req \in [Device -> Requests])' /\ StepsInv' /\ RequestsInv'
    BY <1>2, <1>7, RequestsUntouched
  <1>9. RowsInv'
    <2> SUFFICES ASSUME NEW v \in User, Alive(v)
                 PROVE  /\ \A t \in Side : v \in data'[t] => Has(t, v)
                        /\ Has("local", v) => Has("remote", v)
      BY <1>2 DEF RowsInv, Alive, Has
    <2> QED BY <1>1, <1>5, <1>6 DEF RowsInv
  <1>10. ErasedInv'
    BY <1>2 DEF AccountsInv, ErasedInv, Has
  <1>11. /\ run' \in Runs /\ run'.step = "data" /\ run'.pass = run.pass
         /\ run'.left = run.left \ {u}
    BY <1>1, <1>2 DEF Runs
  <1>12. RunInv'
    BY <1>1, <1>2, <1>11 DEF RunInv, Alive, Has
  <1>13. TypeInv'
    BY <1>2, <1>6, <1>8, <1>11 DEF AccountsInv, TypeInv
  <1> QED BY <1>2, <1>7, <1>8, <1>9, <1>10, <1>12, <1>13, SessionsUntouched DEF AccountsInv

(* The next pass, or the end of the run. *)
LEMMA PassDoneKeepsAccounts ==
  ASSUME AccountsInv, PassDone
  PROVE  AccountsInv'
  <1>1. UNCHANGED <<row, tomb, data, sessionOf>> /\ run \in Runs
    BY DEF PassDone, AccountsInv, TypeInv
  <1>2. CASE run.pass < 3
    <2>1. run' = [run EXCEPT !.step = "list", !.pass = @ + 1] /\ UNCHANGED req
      BY <1>2 DEF PassDone
    <2>2. run.pass + 1 \in 0 .. 3
      BY <1>1, <1>2 DEF Runs
    <2>3. run' \in Runs /\ run'.step = "list"
      BY <1>1, <2>1, <2>2 DEF Runs, RunStepName
    <2> QED BY <1>1, <2>1, <2>3, NoRunUnderWay, RunMovesOn
  <1>3. CASE ~(run.pass < 3)
    <2>1. RunEnds(TRUE)
      BY <1>3 DEF PassDone
    <2> QED BY <1>1, <2>1, RunEndsKeepsAccounts
  <1> QED BY <1>2, <1>3

(***************************************************************************)
(* All steps together.                                                     *)
(***************************************************************************)
(* Two empty databases. *)
LEMMA AccountsInitially == ASSUME Init PROVE AccountsInv
  <1> USE DEF Side
  <1>1. /\ \A s \in Side, u \in User : ~Has(s, u) /\ u \notin data[s]
        /\ \A d \in Device : req[d] = Idle /\ sessionOf[d] = NoUser
    BY DEF Init, Has
  <1>2. TypeInv
    <2>1. row \in [Side -> [User -> NatRow]]
      BY DEF Init, NoRow, NatRow
    <2>2. tomb \in [Side -> SUBSET User] /\ data \in [Side -> SUBSET User]
      BY DEF Init
    <2>3. sessionOf \in [Device -> User \cup {NoUser}] /\ req \in [Device -> Requests]
      BY IdleIsReady DEF Init
    <2>4. run \in Runs
      BY DEF Init, NoRun, Runs, RunStepName, NoRow, NatRow
    <2> QED BY <2>1, <2>2, <2>3, <2>4 DEF TypeInv
  <1>3. StepsInv /\ RequestsInv
    BY <1>1, IdleIsReady DEF StepsInv, RequestsInv
  <1>4. RowsInv /\ ErasedInv
    BY <1>1 DEF RowsInv, ErasedInv
  <1>5. SessionsInv
    BY <1>1, AccountsBounds DEF SessionsInv, NoUser
  <1>6. RunInv
    BY DEF Init, NoRun, RunInv
  <1> QED BY <1>2, <1>3, <1>4, <1>5, <1>6 DEF AccountsInv

(* Every step of a request. *)
LEMMA HandlerKeepsAccounts ==
  ASSUME AccountsInv, Closed, NEW d \in Device, Handler(d)
  PROVE  AccountsInv'
  <1>1. CASE Authenticate(d) \/ Create(d) \/ ReadRow(d) \/ Recheck(d)
    BY <1>1, AuthenticateKeepsAccounts, CreateKeepsAccounts, ReadRowKeepsAccounts,
       RecheckKeepsAccounts
  <1>2. CASE Enrol(d, "enrolRemote", "remote")
    BY <1>2, EnrolKeepsAccounts DEF Enrol
  <1>3. CASE Enrol(d, "enrol", "local")
    BY <1>3, EnrolKeepsAccounts DEF Enrol
  <1>4. CASE Push(d)
    BY <1>4, EnrolKeepsAccounts DEF Push
  <1>5. CASE CopyRow(d) \/ CreateSession(d) \/ Change(d) \/ Erase(d)
    BY <1>5, CopyRowKeepsAccounts, CreateSessionKeepsAccounts, ChangeKeepsAccounts,
       EraseKeepsAccounts
  <1>6. CASE SignOut(d) \/ SyncRoute(d)
    BY <1>6, SignOutKeepsAccounts, SyncKeepsAccounts
  <1> QED BY <1>1, <1>2, <1>3, <1>4, <1>5, <1>6 DEF Handler

(* Every step of a run. *)
LEMMA RunStepKeepsAccounts ==
  ASSUME AccountsInv, RunStep
  PROVE  AccountsInv'
  <1>1. ASSUME NEW u \in User, NEW s \in Side, ApplyTombstone(u, s) PROVE AccountsInv'
    BY <1>1, ApplyTombstoneKeepsAccounts
  <1>2. ASSUME NEW u \in User, CopyUser(u) \/ CopyData(u) PROVE AccountsInv'
    BY <1>2, CopyUserKeepsAccounts, CopyDataKeepsAccounts
  <1>3. ASSUME NEW s \in Side, Check(s) PROVE AccountsInv'
    BY <1>3, CheckKeepsAccounts
  <1>4. CASE TombstonesDone \/ ListUsers \/ UsersDone \/ ListOwners \/ PassDone
    BY <1>4, TombstonesDoneKeepsAccounts, ListUsersKeepsAccounts, UsersDoneKeepsAccounts,
       ListOwnersKeepsAccounts, PassDoneKeepsAccounts
  <1> QED BY <1>1, <1>2, <1>3, <1>4 DEF RunStep

(* Every step. *)
LEMMA StepsKeepAccounts ==
  ASSUME AccountsInv, Closed, [Next]_accountVars
  PROVE  AccountsInv'
  <1>1. ASSUME NEW d \in Device, NEW kind \in Kind, NEW u \in User, Start(d, kind, u)
        PROVE  AccountsInv'
    BY <1>1, StartKeepsAccounts
  <1>2. ASSUME NEW d \in Device, Handler(d) PROVE AccountsInv'
    BY <1>2, HandlerKeepsAccounts
  <1>3. ASSUME NEW d \in Device, LogoutRoute(d) PROVE AccountsInv'
    BY <1>3, SignOutKeepsAccounts
  <1>4. ASSUME NEW d \in Device, Fail(d) PROVE AccountsInv'
    BY <1>4, FailKeepsAccounts
  <1>5. CASE QueueRun \/ RunStep \/ Crash
    BY <1>5, QueueRunKeepsAccounts, RunStepKeepsAccounts, CrashKeepsAccounts
  <1>6. CASE RunFails
    BY <1>6, RunEndsKeepsAccounts DEF RunFails
  <1>7. CASE UNCHANGED accountVars
    <2>1. UNCHANGED <<row, tomb, data, sessionOf, req, run>>
      BY <1>7 DEF accountVars
    <2>2. run' \in Runs /\ RunInv'
      BY <2>1, NothingChangedGrows, RunUntouched DEF AccountsInv, TypeInv
    <2> QED BY <2>1, <2>2, RunMovesOn
  <1> QED BY <1>1, <1>2, <1>3, <1>4, <1>5, <1>6, <1>7 DEF Next

(* The invariant of the accounts holds however the routes, the runs and the
   failures follow one another, but for the window "signup" (hono.ts, auth.ts,
   remote-sync.ts). *)
THEOREM AccountsInvariant == ASSUME Closed PROVE AccountsSpec => []AccountsInv
  <1>1. Init => AccountsInv
    BY AccountsInitially
  <1>2. AccountsInv /\ [Next]_accountVars => AccountsInv'
    BY StepsKeepAccounts
  <1> QED BY <1>1, <1>2, PTL DEF AccountsSpec

(* As long as no sign-up lands between a run's copy of the accounts and its list
   of owners (Closed; AccountsBlocked.cfg shows what happens then), nothing the
   routes and the runs do, in any order and cut off anywhere, leaves owner data without an account row or a local account the remote lacks, but
   under a name that was deleted: no later run is stopped by its own checks
   (assertNoOrphanedOwnerData and the user checks of syncDatabases). *)
THEOREM MirrorStaysOpen == ASSUME Closed PROVE AccountsSpec => []MirrorNeverBlocked
  <1>1. AccountsInv => MirrorNeverBlocked
    BY DEF AccountsInv, RowsInv, MirrorNeverBlocked, Alive
  <1> QED BY <1>1, AccountsInvariant, PTL

(* A deleted account never comes back on the remote, whatever requests and runs
   were under way when it was deleted, the window "signup" closed
   (deleteUserAccount, createUserAccount). *)
THEOREM DeletedForGood ==
  ASSUME Closed
  PROVE  AccountsSpec => [](\A u \in User : u \in tomb["remote"] => ~Has("remote", u))
  <1>1. AccountsInv => \A u \in User : u \in tomb["remote"] => ~Has("remote", u)
    BY DEF AccountsInv, ErasedInv
  <1> QED BY <1>1, AccountsInvariant, PTL

(***************************************************************************)
(* The promises of Keyring for any accounts, browsers, records and bounds. *)
(* The current password always unwraps the stored keyring, and an account  *)
(* keeps the data key it once has: whatever keyring material a browser     *)
(* stores, or has in hand during a sign-in, is the one the account's       *)
(* keyring holds.  Every note on the server opens with that keyring, and   *)
(* a browser's tables always open as a whole: this needs to know what      *)
(* sealed each envelope, and how far each adoption has got.                *)
(***************************************************************************)

(***************************************************************************)
(* The inductive invariant.                                                *)
(***************************************************************************)
Accounts == [Account -> [made : BOOLEAN, pw : Nat,
                         keyring : WrappedKeyring \union {None}]]
Prepared == {"prepare", "notes", "rest", "commit"}
Steps ==
    [at : {"idle"}]
    \union [at : {"migrate"}, user : Account, pw : Nat, next : KeyringKey]
    \union [at : {"prepare"}, user : Account, next : Material]
    \union [at : {"notes", "rest", "commit"}, user : Account,
            from : Material, next : Material]

KeysTyped ==
    /\ account \in Accounts
    /\ mat \in [Browser -> Material \union {None}]
    /\ sess \in [Browser -> Account \union {NoOne}]
    /\ step \in [Browser -> Steps]
    /\ keys \in Nat

(* Only an account that was made has a keyring, its own, under its password. *)
KeyringsFit(a) ==
    \A u \in Account : a[u].keyring # None =>
        /\ a[u].made
        /\ a[u].keyring.pw = a[u].pw
        /\ a[u].keyring.holds.of = u

(* Material of an account that was made is its password material, or what its
   keyring holds. *)
Belongs(a, u, m) ==
    /\ a[u].made /\ m.of = u
    /\ m.kind = "keyring" => a[u].keyring # None /\ a[u].keyring.holds = m

GoodMat(a, m) == m # None /\ m.of # NoOne => Belongs(a, m.of, m)
GoodSess(m, u) == u # NoOne => m # None /\ m.of = u
GoodStep(a, s) ==
    /\ s.at = "migrate" => a[s.user].made /\ s.next.of = s.user
    /\ s.at \in Prepared => Belongs(a, s.user, s.next)

KeysAgree ==
    /\ KeyringsFit(account)
    /\ \A d \in Browser : /\ GoodMat(account, mat[d])
                         /\ GoodSess(mat[d], sess[d])
                         /\ GoodStep(account, step[d])

KeysInv == KeysTyped /\ KeysAgree

(* What a step may do to the accounts: DataKeyKept, and no account unmade. *)
KeyringsKept(a, b) ==
    \A u \in Account :
        /\ a[u].made => b[u].made
        /\ a[u].keyring # None =>
              b[u].keyring # None /\ b[u].keyring.holds = a[u].keyring.holds

(***************************************************************************)
(* The initial state.                                                      *)
(***************************************************************************)
LEMMA UserOfType == \A d \in Browser : UserOf(d) \in Account \union {NoOne}
  <1> SUFFICES ASSUME NEW d \in Browser PROVE UserOf(d) \in Account \union {NoOne}
    OBVIOUS
  <1>1. CASE \E u \in Legacy : Upgraded[u] = d
    <2>1. (CHOOSE u \in Legacy : Upgraded[u] = d) \in Legacy
      BY <1>1
    <2> QED BY <1>1, <2>1, KeyringAssumption DEF UserOf
  <1>2. CASE ~\E u \in Legacy : Upgraded[u] = d
    BY <1>2 DEF UserOf
  <1> QED BY <1>1, <1>2

LEMMA KeysInitially == KeyringInit => KeysInv
  <1> SUFFICES ASSUME KeyringInit PROVE KeysInv
    OBVIOUS
  <1> USE UserOfType, KeyringAssumption, NoneAssumption
  <1>1. account \in Accounts
    BY DEF KeyringInit, Accounts
  <1>2. \A u \in Account : account[u].keyring = None
    BY DEF KeyringInit
  <1>3. \A d \in Browser : sess[d] = UserOf(d) /\ step[d] = [at |-> "idle"]
    BY DEF KeyringInit
  <1>4. \A d \in Browser :
            mat[d] = IF UserOf(d) = NoOne THEN None
                     ELSE [kind |-> "password", of |-> UserOf(d), pw |-> 1]
    BY DEF KeyringInit, PasswordMaterial
  <1>5. \A d \in Browser : UserOf(d) # NoOne =>
            [kind |-> "password", of |-> UserOf(d), pw |-> 1] \in PasswordKey
    BY DEF PasswordKey
  <1>6. KeysTyped
    <2>1. mat \in [Browser -> Material \union {None}]
      BY <1>4, <1>5 DEF KeyringInit, Material
    <2>2. sess \in [Browser -> Account \union {NoOne}]
      BY DEF KeyringInit
    <2>3. step \in [Browser -> Steps]
      BY DEF KeyringInit, Steps
    <2> QED BY <1>1, <2>1, <2>2, <2>3 DEF KeyringInit, KeysTyped
  <1>7. KeysAgree
    <2>1. KeyringsFit(account)
      BY <1>2 DEF KeyringsFit
    <2>2. ASSUME NEW d \in Browser
          PROVE  /\ GoodMat(account, mat[d])
                 /\ GoodSess(mat[d], sess[d])
      <3>1. CASE UserOf(d) = NoOne
        BY <3>1, <1>3, <1>4 DEF GoodMat, GoodSess
      <3>2. CASE UserOf(d) # NoOne
        <4> DEFINE m == [kind |-> "password", of |-> UserOf(d), pw |-> 1]
        <4>0. mat[d] = m
          BY <3>2, <1>4
        <4>1. mat[d] \in PasswordKey /\ mat[d].of = UserOf(d)
                /\ mat[d].kind = "password"
          <5>1. m.of = UserOf(d) /\ m.kind = "password"
            OBVIOUS
          <5>2. m \in PasswordKey
            BY <3>2, <1>5
          <5> HIDE DEF m
          <5> QED BY <4>0, <5>1, <5>2
        <4> HIDE DEF m
        <4>2. mat[d] # None
          BY <4>1 DEF Material
        <4>3. account[UserOf(d)].made
          BY <3>2 DEF KeyringInit, UserOf
        <4> QED BY <4>1, <4>2, <4>3, <1>3 DEF GoodMat, GoodSess, Belongs
      <3> QED BY <3>1, <3>2
    <2>3. \A d \in Browser : GoodStep(account, step[d])
      BY <1>3 DEF GoodStep, Prepared
    <2> QED BY <2>1, <2>2, <2>3 DEF KeysAgree
  <1> QED BY <1>6, <1>7 DEF KeysInv

(***************************************************************************)
(* One browser moves.  The accounts may change as KeyringsKept says; then  *)
(* what the other browsers hold still belongs, and only the new material,  *)
(* session and step of this one have to be looked at.                      *)
(***************************************************************************)
LEMMA StillBelongs ==
    ASSUME NEW a, NEW b, KeyringsKept(a, b),
           NEW u \in Account, NEW m, Belongs(a, u, m)
    PROVE  Belongs(b, u, m)
  BY DEF KeyringsKept, Belongs

LEMMA StillGood ==
    ASSUME NEW a, NEW b, KeyringsKept(a, b),
           NEW m \in Material \union {None}, NEW s \in Steps,
           GoodMat(a, m), GoodStep(a, s)
    PROVE  GoodMat(b, m) /\ GoodStep(b, s)
  <1>1. GoodMat(b, m)
    <2> SUFFICES ASSUME m # None, m.of # NoOne PROVE Belongs(b, m.of, m)
      BY DEF GoodMat
    <2>1. m.of \in Account
      BY DEF Material, PasswordKey, KeyringKey
    <2>2. Belongs(a, m.of, m)
      BY DEF GoodMat
    <2> QED BY <2>1, <2>2, StillBelongs
  <1>2. s.at # "idle" => s.user \in Account
    BY DEF Steps
  <1>3. s.at = "migrate" => b[s.user].made /\ s.next.of = s.user
    BY <1>2 DEF GoodStep, KeyringsKept
  <1>4. s.at \in Prepared => Belongs(b, s.user, s.next)
    BY <1>2, StillBelongs DEF GoodStep, Prepared
  <1> QED BY <1>1, <1>3, <1>4 DEF GoodStep

LEMMA OneBrowserMoves ==
    ASSUME KeysInv, KeysTyped',
           KeyringsFit(account'), KeyringsKept(account, account'),
           NEW d \in Browser,
           \A e \in Browser : e # d =>
             mat'[e] = mat[e] /\ sess'[e] = sess[e] /\ step'[e] = step[e],
           GoodMat(account', mat'[d]), GoodSess(mat'[d], sess'[d]),
           GoodStep(account', step'[d])
    PROVE  KeysInv'
  <1>1. ASSUME NEW e \in Browser
        PROVE  /\ GoodMat(account', mat'[e])
               /\ GoodSess(mat'[e], sess'[e])
               /\ GoodStep(account', step'[e])
    <2>1. CASE e = d
      BY <2>1
    <2>2. CASE e # d
      <3>1. mat'[e] = mat[e] /\ sess'[e] = sess[e] /\ step'[e] = step[e]
        BY <2>2
      <3>2. mat[e] \in Material \union {None} /\ step[e] \in Steps
        BY DEF KeysInv, KeysTyped
      <3>3. /\ GoodMat(account, mat[e]) /\ GoodSess(mat[e], sess[e])
            /\ GoodStep(account, step[e])
        BY DEF KeysInv, KeysAgree
      <3> QED BY <3>1, <3>2, <3>3, StillGood
    <2> QED BY <2>1, <2>2
  <1> QED BY <1>1 DEF KeysInv, KeysAgree

(* The usual case: the accounts stay. *)
LEMMA AccountsStay ==
    ASSUME KeysInv, UNCHANGED account
    PROVE  KeyringsFit(account') /\ KeyringsKept(account, account')
  BY DEF KeysInv, KeysTyped, KeysAgree, KeyringsKept

(* What the invariant says of one browser. *)
LEMMA Here ==
    ASSUME KeysInv, NEW d \in Browser
    PROVE  /\ mat[d] \in Material \union {None}
           /\ sess[d] \in Account \union {NoOne}
           /\ step[d] \in Steps
           /\ GoodMat(account, mat[d]) /\ GoodSess(mat[d], sess[d])
           /\ GoodStep(account, step[d])
  BY DEF KeysInv, KeysTyped, KeysAgree

(* A browser goes idle, and nothing else of it changes. *)
LEMMA IdleGood ==
    ASSUME NEW a
    PROVE  /\ [at |-> "idle"] \in Steps
           /\ GoodStep(a, [at |-> "idle"])
  BY DEF Steps, GoodStep, Prepared

(***************************************************************************)
(* One lemma per action.                                                   *)
(***************************************************************************)
Safe == KeysInv' /\ KeyringsKept(account, account')

(* Actions that touch nothing the invariant speaks of. *)
LEMMA UntouchedSafe ==
    ASSUME KeysInv, UNCHANGED <<account, mat, sess, step, keys>>
    PROVE  Safe
  BY DEF KeysInv, KeysTyped, KeysAgree, Safe, KeyringsKept

LEMMA SignupSafe ==
    ASSUME KeysInv, NEW d \in Browser, NEW u \in Account, Signup(d, u)
    PROVE  Safe
  <1> DEFINE m == KeyringMaterial(keys + 1, u, {})
             written == [made |-> TRUE, pw |-> 1, keyring |-> Wrap(1, m)]
             s == [at |-> "prepare", user |-> u, next |-> m]
  <1>1. /\ account' = [account EXCEPT ![u] = written]
        /\ step' = [step EXCEPT ![d] = s]
        /\ keys' = keys + 1
        /\ mat' = mat /\ sess' = sess
        /\ ~account[u].made
    BY DEF Signup
  <1>2. m \in KeyringKey /\ m.of = u /\ m.kind = "keyring"
    BY DEF KeyringMaterial, KeyringKey, KeysInv, KeysTyped
  <1> HIDE DEF m
  <1>3. Wrap(1, m) \in WrappedKeyring /\ Wrap(1, m) # None
          /\ Wrap(1, m).holds = m /\ Wrap(1, m).pw = 1
    BY <1>2, NoneAssumption DEF Wrap, WrappedKeyring
  <1>4. /\ written \in [made : BOOLEAN, pw : Nat,
                    keyring : WrappedKeyring \union {None}]
        /\ written.made /\ written.pw = 1 /\ written.keyring = Wrap(1, m)
    BY <1>3
  <1>5. s \in Steps /\ s.at = "prepare" /\ s.user = u /\ s.next = m
    BY <1>2 DEF Steps, Material
  <1> HIDE DEF written, s
  <1>6. account[u].keyring = None
    BY <1>1 DEF KeysInv, KeysAgree, KeyringsFit
  <1>7. /\ account'[u] = written
        /\ \A v \in Account : v # u => account'[v] = account[v]
    BY <1>1 DEF KeysInv, KeysTyped, Accounts
  <1>8. KeyringsKept(account, account')
    BY <1>4, <1>6, <1>7 DEF KeyringsKept
  <1>9. KeyringsFit(account')
    BY <1>2, <1>3, <1>4, <1>7 DEF KeyringsFit, KeysInv, KeysAgree
  <1>10. KeysTyped'
    BY <1>1, <1>4, <1>5 DEF KeysInv, KeysTyped, Accounts
  <1>11. GoodMat(account', mat'[d]) /\ GoodSess(mat'[d], sess'[d])
    BY <1>1, <1>8, Here, StillGood
  <1>12. GoodStep(account', step'[d])
    <2>1. step'[d] = s
      BY <1>1 DEF KeysInv, KeysTyped
    <2>2. Belongs(account', u, m)
      BY <1>2, <1>3, <1>4, <1>7 DEF Belongs
    <2> QED BY <1>5, <2>1, <2>2 DEF GoodStep
  <1>13. \A e \in Browser : e # d =>
             mat'[e] = mat[e] /\ sess'[e] = sess[e] /\ step'[e] = step[e]
    BY <1>1 DEF KeysInv, KeysTyped
  <1> QED BY <1>8, <1>9, <1>10, <1>11, <1>12, <1>13, OneBrowserMoves DEF Safe

(* A step of the sign-in alone. *)
LEMMA StepSafe ==
    ASSUME KeysInv, NEW d \in Browser, NEW s \in Steps,
           GoodStep(account, s), step' = [step EXCEPT ![d] = s],
           UNCHANGED <<account, mat, sess>>, keys' \in Nat
    PROVE  Safe
  <1>1. KeyringsFit(account') /\ KeyringsKept(account, account')
    BY AccountsStay
  <1>2. KeysTyped'
    BY DEF KeysInv, KeysTyped
  <1>3. step'[d] = s /\ \A e \in Browser : e # d =>
             mat'[e] = mat[e] /\ sess'[e] = sess[e] /\ step'[e] = step[e]
    BY DEF KeysInv, KeysTyped
  <1>4. GoodMat(account', mat'[d]) /\ GoodSess(mat'[d], sess'[d])
    BY Here
  <1> QED BY <1>1, <1>2, <1>3, <1>4, OneBrowserMoves DEF Safe

LEMMA SignInSafe ==
    ASSUME KeysInv, NEW d \in Browser, NEW u \in Account, SignIn(d, u)
    PROVE  Safe
  <1> DEFINE wrap == account[u].keyring
             pw == account[u].pw
             held == [at |-> "prepare", user |-> u, next |-> wrap.holds]
             m == KeyringMaterial(keys + 1, u, {PasswordMaterial(u, pw)})
             new == [at |-> "migrate", user |-> u, pw |-> pw, next |-> m]
  <1>0. keys \in Nat /\ pw \in Nat /\ wrap \in WrappedKeyring \union {None}
    BY DEF KeysInv, KeysTyped, Accounts
  <1>1. CASE wrap # None /\ step' = [step EXCEPT ![d] = held]
               /\ UNCHANGED keys
    <2>1. wrap.holds \in KeyringKey
      BY <1>0, <1>1 DEF WrappedKeyring
    <2>2. held \in Steps
      BY <2>1 DEF Steps, Material
    <2>3. Belongs(account, u, wrap.holds)
      BY <1>1 DEF Belongs, KeysInv, KeysAgree, KeyringsFit
    <2>4. GoodStep(account, held)
      BY <2>3 DEF GoodStep
    <2> QED BY <1>0, <1>1, <2>2, <2>4, StepSafe DEF SignIn
  <1>2. CASE UNCHANGED <<step, keys>>
    BY <1>2, UntouchedSafe DEF SignIn
  <1>3. CASE keys' = keys + 1 /\ step' = [step EXCEPT ![d] = new]
    <2>1. PasswordMaterial(u, pw) \in PasswordKey
      BY <1>0 DEF PasswordMaterial, PasswordKey
    <2>2. m \in KeyringKey /\ m.of = u
      BY <1>0, <2>1 DEF KeyringMaterial, KeyringKey
    <2> HIDE DEF m
    <2>3. new \in Steps
      BY <1>0, <2>2 DEF Steps
    <2>4. GoodStep(account, new)
      BY <2>2 DEF GoodStep, Prepared, SignIn
    <2>5. UNCHANGED <<account, mat, sess>>
      BY DEF SignIn
    <2>6. step' = [step EXCEPT ![d] = new] /\ keys' \in Nat
      BY <1>0, <1>3
    <2> HIDE DEF new
    <2> QED BY <2>3, <2>4, <2>5, <2>6, StepSafe
  <1> QED BY <1>1, <1>2, <1>3 DEF SignIn

LEMMA OtpSignInSafe ==
    ASSUME KeysInv, "otp" \notin Loose,
           NEW d \in Browser, NEW u \in Account, OtpSignIn(d, u)
    PROVE  Safe
  <1> DEFINE s == [at |-> "prepare", user |-> u, next |-> mat[d]]
  <1>1. mat[d] # None /\ mat[d].of = u
    BY DEF OtpSignIn, IsSync
  <1>2. s \in Steps
    BY <1>1, Here DEF Steps
  <1>3. Belongs(account, u, mat[d])
    BY <1>1, Here, KeyringAssumption DEF GoodMat
  <1>4. GoodStep(account, s)
    BY <1>3 DEF GoodStep
  <1>5. keys' \in Nat
    BY DEF OtpSignIn, KeysInv, KeysTyped
  <1> QED BY <1>2, <1>4, <1>5, StepSafe DEF OtpSignIn

LEMMA MigrateSafe ==
    ASSUME KeysInv, NEW d \in Browser, Migrate(d)
    PROVE  Safe
  <1> DEFINE s == step[d]
             u == s.user
             wrap == Wrap(s.pw, s.next)
             on == [at |-> "prepare", user |-> u, next |-> s.next]
  <1>1. /\ s \in Steps /\ s.at = "migrate"
        /\ u \in Account /\ s.pw \in Nat /\ s.next \in KeyringKey
        /\ account[u].made /\ s.next.of = u
    BY Here DEF Migrate, Steps, GoodStep
  <1>2. /\ UNCHANGED <<mat, sess, keys>>
        /\ keys \in Nat
    BY DEF Migrate, KeysInv, KeysTyped
  <1>3. CASE /\ KeyringUpdateAccepted(u, s.pw, None)
             /\ account' = [account EXCEPT ![u].keyring = wrap]
             /\ \/ step' = [step EXCEPT ![d] = on]
                \/ GoIdle(d)
    <2>1. account[u].keyring = None /\ account[u].pw = s.pw
      BY <1>3 DEF KeyringUpdateAccepted
    <2>2. wrap \in WrappedKeyring /\ wrap # None
            /\ wrap.pw = s.pw /\ wrap.holds = s.next
      BY <1>1, NoneAssumption DEF Wrap, WrappedKeyring
    <2> HIDE DEF wrap
    <2>3. account \in Accounts
      BY DEF KeysInv, KeysTyped
    <2>4. /\ account' \in Accounts
          /\ account'[u].keyring = wrap
          /\ account'[u].made = account[u].made
          /\ account'[u].pw = account[u].pw
          /\ \A v \in Account : v # u => account'[v] = account[v]
      BY <1>1, <1>3, <2>2, <2>3 DEF Accounts
    <2>5. KeyringsKept(account, account')
      BY <2>1, <2>4 DEF KeyringsKept
    <2>6. KeyringsFit(account')
      BY <1>1, <2>1, <2>2, <2>4 DEF KeyringsFit, KeysInv, KeysAgree
    <2>7. Belongs(account', u, s.next)
      BY <1>1, <2>2, <2>4 DEF Belongs
    <2>8. on \in Steps /\ GoodStep(account', on)
      BY <1>1, <2>7 DEF Steps, Material, GoodStep
    <2>9. /\ step' \in [Browser -> Steps]
          /\ GoodStep(account', step'[d])
          /\ \A e \in Browser : e # d => step'[e] = step[e]
      <3>1. step \in [Browser -> Steps]
        BY DEF KeysInv, KeysTyped
      <3>2. CASE step' = [step EXCEPT ![d] = on]
        <4> HIDE DEF on
        <4> QED BY <3>1, <3>2, <2>8
      <3>3. CASE GoIdle(d)
        BY <3>1, <3>3, IdleGood DEF GoIdle
      <3> QED BY <1>3, <3>2, <3>3
    <2>10. KeysTyped'
      BY <1>2, <2>4, <2>9 DEF KeysInv, KeysTyped
    <2>11. GoodMat(account', mat'[d]) /\ GoodSess(mat'[d], sess'[d])
      BY <1>1, <1>2, <2>5, Here, StillGood
    <2> QED BY <1>2, <2>5, <2>6, <2>9, <2>10, <2>11, OneBrowserMoves DEF Safe
  <1>4. CASE GoIdle(d) /\ UNCHANGED account
    BY <1>2, <1>4, IdleGood, StepSafe DEF GoIdle
  <1>5. QED
    BY <1>3, <1>4 DEF Migrate

(* Going idle, as a refused or stopped sign-in does. *)
LEMMA PrepareRefusedSafe ==
    ASSUME KeysInv, NEW d \in Browser, PrepareRefused(d)
    PROVE  Safe
  <1>1. UNCHANGED <<account, mat, sess>> /\ keys' \in Nat
    BY DEF PrepareRefused, KeysInv, KeysTyped
  <1> QED BY <1>1, IdleGood, StepSafe DEF PrepareRefused, GoIdle

(* The material a browser has, or generates when it has none. *)
LEMMA StoredGood ==
    ASSUME KeysInv, NEW d \in Browser
    PROVE  /\ Stored(d) \in Material
           /\ GoodMat(account, Stored(d))
           /\ GoodSess(Stored(d), sess[d])
  <1> DEFINE m == KeyringMaterial(keys + 1, NoOne, {})
  <1>1. m \in KeyringKey /\ m.of = NoOne
    BY DEF KeyringMaterial, KeyringKey, KeysInv, KeysTyped
  <1> HIDE DEF m
  <1>2. CASE mat[d] = None
    <2>1. Stored(d) = m
      BY <1>2 DEF Stored, m
    <2>2. sess[d] = NoOne
      BY <1>2, Here DEF GoodSess
    <2> QED BY <1>1, <2>1, <2>2 DEF Material, GoodMat, GoodSess
  <1>3. CASE mat[d] # None
    BY <1>3, Here DEF Stored
  <1> QED BY <1>2, <1>3

(* The browser stores its material, and its sign-in may move on. *)
LEMMA StoringSafe ==
    ASSUME KeysInv, NEW d \in Browser, NEW s \in Steps, MakeStored(d),
           GoodStep(account, s), step' = [step EXCEPT ![d] = s],
           UNCHANGED <<account, sess>>
    PROVE  Safe
  <1>1. mat' = [mat EXCEPT ![d] = Stored(d)] /\ keys' \in Nat
    BY DEF MakeStored, KeysInv, KeysTyped
  <1>2. KeysTyped'
    BY <1>1, StoredGood DEF KeysInv, KeysTyped
  <1>3. /\ mat'[d] = Stored(d) /\ step'[d] = s
        /\ \A e \in Browser : e # d =>
             mat'[e] = mat[e] /\ sess'[e] = sess[e] /\ step'[e] = step[e]
    BY <1>1 DEF KeysInv, KeysTyped
  <1>4. /\ GoodMat(account', mat'[d]) /\ GoodSess(mat'[d], sess'[d])
        /\ GoodStep(account', step'[d])
    BY <1>3, StoredGood
  <1> QED BY <1>2, <1>3, <1>4, AccountsStay, OneBrowserMoves DEF Safe

LEMMA PrepareClearsSafe ==
    ASSUME KeysInv, NEW d \in Browser, PrepareClears(d)
    PROVE  Safe
  <1> DEFINE old == step[d]
             s == [at |-> "notes", user |-> old.user,
                   from |-> old.next, next |-> old.next]
  <1>1. /\ old \in Steps /\ old.at = "prepare"
        /\ Belongs(account, old.user, old.next)
    BY Here DEF PrepareClears, GoodStep, Prepared
  <1>2. old.user \in Account /\ old.next \in Material
    BY <1>1 DEF Steps
  <1>3. s \in Steps /\ GoodStep(account, s)
    BY <1>1, <1>2 DEF Steps, GoodStep
  <1>4. step' = [step EXCEPT ![d] = s] /\ MakeStored(d)
          /\ UNCHANGED <<account, sess>>
    BY DEF PrepareClears
  <1> HIDE DEF s
  <1> QED BY <1>3, <1>4, StoringSafe

LEMMA PreflightSafe ==
    ASSUME KeysInv, NEW d \in Browser, Preflight(d)
    PROVE  Safe
  <1> DEFINE old == step[d]
             s == [at |-> "notes", user |-> old.user,
                   from |-> AdoptFrom(d), next |-> old.next]
  <1>1. /\ old \in Steps /\ old.at = "prepare"
        /\ Belongs(account, old.user, old.next)
    BY Here DEF Preflight, GoodStep, Prepared
  <1>2. old.user \in Account /\ old.next \in Material
    BY <1>1 DEF Steps
  <1>3. MakeStored(d) /\ UNCHANGED <<account, sess>>
    BY DEF Preflight, server
  <1>4. AdoptFrom(d) \in Material \union {None}
    BY <1>2, StoredGood DEF AdoptFrom
  <1>5. CASE AdoptFrom(d) = None
    BY <1>3, <1>5, IdleGood, StoringSafe DEF Preflight, GoIdle
  <1>6. CASE AdoptFrom(d) # None
    <2>1. s \in Steps /\ GoodStep(account, s)
      BY <1>1, <1>2, <1>4, <1>6 DEF Steps, GoodStep
    <2>2. step' = [step EXCEPT ![d] = s]
      BY <1>6 DEF Preflight
    <2> HIDE DEF s
    <2> QED BY <1>3, <2>1, <2>2, StoringSafe
  <1> QED BY <1>5, <1>6

(* The two steps over the tables only move the sign-in on. *)
LEMMA ReencryptSafe ==
    ASSUME KeysInv, NEW d \in Browser, ReencryptNotes(d) \/ ReencryptRest(d)
    PROVE  Safe
  <1> DEFINE old == step[d]
  <1>1. PICK at \in {"rest", "commit"} : step' = [step EXCEPT ![d].at = at]
    BY DEF ReencryptNotes, ReencryptRest
  <1> DEFINE s == [old EXCEPT !.at = at]
  <1>2. /\ old \in Steps /\ old.at \in {"notes", "rest"}
        /\ Belongs(account, old.user, old.next)
    BY Here DEF ReencryptNotes, ReencryptRest, GoodStep, Prepared
  <1>3. s \in Steps /\ GoodStep(account, s)
    BY <1>2 DEF Steps, GoodStep
  <1>4. step' = [step EXCEPT ![d] = s] /\ UNCHANGED <<account, sess, mat>>
          /\ keys' \in Nat
    BY <1>1 DEF ReencryptNotes, ReencryptRest, server, KeysInv, KeysTyped
  <1> HIDE DEF s
  <1> QED BY <1>3, <1>4, StepSafe

(* The browser's material, session and step change and the accounts stay. *)
LEMMA BrowserSafe ==
    ASSUME KeysInv, NEW d \in Browser, NEW m \in Material \union {None},
           NEW u \in Account \union {NoOne}, NEW s \in Steps,
           mat' = [mat EXCEPT ![d] = m], sess' = [sess EXCEPT ![d] = u],
           step' = [step EXCEPT ![d] = s], UNCHANGED <<account, keys>>,
           GoodMat(account, m), GoodSess(m, u), GoodStep(account, s)
    PROVE  Safe
  <1>1. KeysTyped'
    BY DEF KeysInv, KeysTyped
  <1>2. /\ mat'[d] = m /\ sess'[d] = u /\ step'[d] = s
        /\ \A e \in Browser : e # d =>
             mat'[e] = mat[e] /\ sess'[e] = sess[e] /\ step'[e] = step[e]
    BY DEF KeysInv, KeysTyped
  <1> QED BY <1>1, <1>2, AccountsStay, OneBrowserMoves DEF Safe

LEMMA CommitSafe ==
    ASSUME KeysInv, NEW d \in Browser, Commit(d)
    PROVE  Safe
  <1> DEFINE old == step[d]
  <1>1. /\ old \in Steps /\ old.at = "commit"
        /\ Belongs(account, old.user, old.next)
    BY Here DEF Commit, GoodStep, Prepared
  <1>2. old.user \in Account /\ old.next \in Material
    BY <1>1 DEF Steps
  <1>3. GoodMat(account, old.next) /\ GoodSess(old.next, old.user)
    BY <1>1, <1>2, NoneAssumption DEF GoodMat, GoodSess, Belongs
  <1>4. /\ mat' = [mat EXCEPT ![d] = old.next]
        /\ sess' = [sess EXCEPT ![d] = old.user]
        /\ step' = [step EXCEPT ![d] = [at |-> "idle"]]
        /\ UNCHANGED <<account, keys>>
    BY DEF Commit, GoIdle, server
  <1> QED BY <1>2, <1>3, <1>4, IdleGood, BrowserSafe

LEMMA EditSafe ==
    ASSUME KeysInv, NEW d \in Browser, Edit(d)
    PROVE  Safe
  <1>1. step' = [step EXCEPT ![d] = step[d]]
    BY DEF Edit, KeysInv, KeysTyped
  <1>2. MakeStored(d) /\ UNCHANGED <<account, sess>>
    BY DEF Edit, server
  <1> QED BY <1>1, <1>2, Here, StoringSafe

(* The new wrapper holds what the account's keyring held before. *)
LEMMA ChangePasswordSafe ==
    ASSUME KeysInv, NEW d \in Browser, ChangePassword(d)
    PROVE  Safe
  <1> DEFINE u == sess[d]
             pw == account[u].pw + 1
             wrap == Wrap(pw, mat[d])
  <1>1. /\ u \in Account /\ mat[d] \in Material /\ mat[d].kind = "keyring"
        /\ mat[d].of = u
    BY Here DEF ChangePassword, IsSync, GoodSess
  <1>2. account[u].keyring # None /\ account[u].keyring.holds = mat[d]
    <2>1. mat[d] # None /\ u # NoOne
      BY <1>1, KeyringAssumption, NoneAssumption
    <2>2. Belongs(account, u, mat[d])
      BY <1>1, <2>1, Here DEF GoodMat
    <2> QED BY <1>1, <2>2 DEF Belongs
  <1>3. account \in Accounts /\ account[u].pw \in Nat /\ account[u].made
    BY <1>1, <1>2 DEF KeysInv, KeysTyped, KeysAgree, KeyringsFit, Accounts
  <1>4. mat[d] \in KeyringKey
    BY <1>1 DEF Material, PasswordKey
  <1>5. wrap \in WrappedKeyring /\ wrap.pw = pw /\ wrap.holds = mat[d]
          /\ wrap # None
    BY <1>3, <1>4, NoneAssumption DEF Wrap, WrappedKeyring
  <1>6. account' = [account EXCEPT ![u].pw = pw, ![u].keyring = wrap]
    BY DEF ChangePassword, NewCredentials, Rewrapped
  <1> HIDE DEF wrap
  <1>7. /\ account' \in Accounts
        /\ account'[u].keyring = wrap /\ account'[u].pw = pw
        /\ account'[u].made = account[u].made
        /\ \A v \in Account : v # u => account'[v] = account[v]
    <2>1. pw \in Nat
      BY <1>3
    <2> HIDE DEF pw, u
    <2>2. account'[u] = [account[u] EXCEPT !.pw = pw, !.keyring = wrap]
      BY <1>1, <1>3, <1>6 DEF Accounts
    <2>3. account[u] \in [made : BOOLEAN, pw : Nat,
                          keyring : WrappedKeyring \union {None}]
      BY <1>1, <1>3 DEF Accounts
    <2>4. /\ account'[u] \in [made : BOOLEAN, pw : Nat,
                              keyring : WrappedKeyring \union {None}]
          /\ account'[u].keyring = wrap /\ account'[u].pw = pw
          /\ account'[u].made = account[u].made
      BY <1>5, <2>1, <2>2, <2>3
    <2>5. \A v \in Account : v # u => account'[v] = account[v]
      BY <1>1, <1>3, <1>6 DEF Accounts
    <2>6. account' = [v \in Account |-> account'[v]]
      BY <1>3, <1>6 DEF Accounts
    <2>7. account' \in Accounts
      BY <1>3, <2>4, <2>5, <2>6 DEF Accounts
    <2> QED BY <2>4, <2>5, <2>7
  <1>8. KeyringsKept(account, account')
    BY <1>2, <1>5, <1>7 DEF KeyringsKept
  <1>9. KeyringsFit(account')
    <2>1. KeyringsFit(account)
      BY DEF KeysInv, KeysAgree
    <2>2. wrap.holds.of = u
      BY <1>1, <1>5
    <2> HIDE DEF pw, u
    <2> QED BY <1>3, <1>5, <1>7, <2>1, <2>2 DEF KeyringsFit
  <1>10. UNCHANGED <<mat, sess, step, keys>>
    BY DEF ChangePassword
  <1>11. KeysTyped'
    BY <1>7, <1>10 DEF KeysInv, KeysTyped
  <1>12. /\ GoodMat(account', mat'[d]) /\ GoodSess(mat'[d], sess'[d])
         /\ GoodStep(account', step'[d])
    BY <1>8, <1>10, Here, StillGood
  <1> QED BY <1>8, <1>9, <1>10, <1>11, <1>12, OneBrowserMoves DEF Safe

LEMMA LeavingSafe ==
    ASSUME KeysInv, NEW d \in Browser, ExpireSession(d) \/ Logout(d)
    PROVE  Safe
  <1>1. PICK m \in {mat[d], None} : mat' = [mat EXCEPT ![d] = m]
    BY DEF ExpireSession, Logout, KeysInv, KeysTyped
  <1>2. m \in Material \union {None} /\ GoodMat(account, m)
    BY Here DEF GoodMat
  <1>3. /\ sess' = [sess EXCEPT ![d] = NoOne]
        /\ step' = [step EXCEPT ![d] = step[d]]
        /\ UNCHANGED <<account, keys>>
    BY DEF ExpireSession, Logout, server, KeysInv, KeysTyped
  <1>4. GoodSess(m, NoOne)
    BY DEF GoodSess
  <1> QED BY <1>1, <1>2, <1>3, <1>4, Here, BrowserSafe

(* A restarted browser keeps its session only with the material. *)
LEMMA RestartSafe ==
    ASSUME KeysInv, NEW d \in Browser, Restart(d)
    PROVE  Safe
  <1> DEFINE m == IF d \in session /\ IsSync(mat[d]) THEN None ELSE mat[d]
             u == IF IsSync(m) THEN sess[d] ELSE NoOne
  <1>1. m \in Material \union {None} /\ GoodMat(account, m)
    BY Here DEF GoodMat
  <1>2. u \in Account \union {NoOne} /\ GoodSess(m, u)
    <2>1. IsSync(m) => m = mat[d]
      BY DEF IsSync
    <2> QED BY <2>1, Here DEF GoodSess
  <1>3. mat' = [mat EXCEPT ![d] = m] /\ mat'[d] = m
    BY DEF Restart, KeysInv, KeysTyped
  <1> HIDE DEF m
  <1>4. /\ sess' = [sess EXCEPT ![d] = u]
        /\ step' = [step EXCEPT ![d] = [at |-> "idle"]]
        /\ UNCHANGED <<account, keys>>
    BY <1>3 DEF Restart, GoIdle, server, IsSync
  <1> HIDE DEF u
  <1> QED BY <1>1, <1>2, <1>3, <1>4, IdleGood, BrowserSafe

(***************************************************************************)
(* Every step, and the theorems.                                           *)
(***************************************************************************)
LEMMA KeysStep ==
    ASSUME KeysInv, "otp" \notin Loose, [KeyringNext]_vars
    PROVE  Safe
  <1>1. CASE UNCHANGED vars
    BY <1>1, UntouchedSafe DEF vars
  <1>2. ASSUME NEW d \in Browser, DeviceStep(d)
        PROVE  Safe
    <2>1. ASSUME NEW u \in Account, Signup(d, u) PROVE Safe
      BY <2>1, SignupSafe
    <2>2. ASSUME NEW u \in Account, SignIn(d, u) PROVE Safe
      BY <2>2, SignInSafe
    <2>3. ASSUME NEW u \in Account, OtpSignIn(d, u) PROVE Safe
      BY <2>3, OtpSignInSafe
    <2>4. ASSUME NEW u \in Account, SessionEnds(u, d) PROVE Safe
      BY <2>4, UntouchedSafe DEF SessionEnds
    <2>5. CASE Migrate(d)
      BY <2>5, MigrateSafe
    <2>6. CASE PrepareRefused(d)
      BY <2>6, PrepareRefusedSafe
    <2>7. CASE PrepareClears(d)
      BY <2>7, PrepareClearsSafe
    <2>8. CASE Preflight(d)
      BY <2>8, PreflightSafe
    <2>9. CASE ReencryptNotes(d) \/ ReencryptRest(d)
      BY <2>9, ReencryptSafe
    <2>10. CASE Commit(d)
      BY <2>10, CommitSafe
    <2>11. CASE Edit(d)
      BY <2>11, EditSafe
    <2>12. CASE Sync(d)
      BY <2>12, UntouchedSafe DEF Sync
    <2>13. CASE ChangePassword(d)
      BY <2>13, ChangePasswordSafe
    <2>14. CASE SetStorageMode(d)
      BY <2>14, UntouchedSafe DEF SetStorageMode, server
    <2>15. CASE ExpireSession(d) \/ Logout(d)
      BY <2>15, LeavingSafe
    <2>16. CASE Restart(d)
      BY <2>16, RestartSafe
    <2> QED BY <1>2, <2>1, <2>2, <2>3, <2>4, <2>5, <2>6, <2>7, <2>8, <2>9,
               <2>10, <2>11, <2>12, <2>13, <2>14, <2>15, <2>16 DEF DeviceStep
  <1> QED BY <1>1, <1>2 DEF KeyringNext

(* With the window "otp" closed, the invariant holds throughout. *)
THEOREM KeysAlwaysAgree ==
    ASSUME "otp" \notin Loose
    PROVE  KeyringSpec => []KeysInv
  <1>1. KeyringInit => KeysInv
    BY KeysInitially
  <1>2. KeysInv /\ [KeyringNext]_vars => KeysInv'
    BY KeysStep DEF Safe
  <1> QED BY <1>1, <1>2, PTL DEF KeyringSpec

(* The password that signs in unwraps the stored keyring, however many
   migrations, password changes and sign-ins of however many browsers overlap,
   but for the sign-in by code that "otp" names (updateUserE2eeKeyring and
   setUserPasswordVerifier in auth.ts). *)
THEOREM PasswordAlwaysUnwraps ==
    ASSUME "otp" \notin Loose
    PROVE  KeyringSpec => []PasswordUnwraps
  <1>1. KeysInv => PasswordUnwraps
    BY DEF KeysInv, KeysAgree, KeyringsFit, PasswordUnwraps, Unwraps
  <1> QED BY <1>1, KeysAlwaysAgree, PTL

(* An account that has a data key keeps it: no race of migrations, password
   changes or sign-ins by password replaces it.  The sign-in by code of a browser
   that still has another account's keyring is assumed away ("otp"). *)
THEOREM DataKeyAlwaysKept ==
    ASSUME "otp" \notin Loose
    PROVE  KeyringSpec => DataKeyKept
  <1>1. KeysInv /\ [KeyringNext]_vars =>
          [\A u \in Account : account[u].keyring # None =>
             account'[u].keyring # None
               /\ account'[u].keyring.holds = account[u].keyring.holds]_vars
    BY KeysStep DEF Safe, KeyringsKept
  <1> QED BY <1>1, KeysAlwaysAgree, PTL DEF KeyringSpec, DataKeyKept


(***************************************************************************)
(* What is readable.  The promises about envelopes, NotesOpen and          *)
(* WorkspaceOpens, need to know of every envelope, on the server and in a  *)
(* browser, by which material it was sealed, and of every adoption, which  *)
(* tables are already under the next material.  The operators below take   *)
(* the state they speak of as arguments: the accounts a, and of a browser  *)
(* its material m, session u, owner ow, notes n, other tables s and        *)
(* sign-in st.                                                             *)
(***************************************************************************)
Note == [env : Envelope, status : {"synced", "pending"}, base : Nat]
Row == [env : Envelope \union {None}, ver : Nat]

TablesTyped ==
    /\ notes \in [Browser -> [Record -> Note \union {None}]]
    /\ rest \in [Browser -> Envelope \union {None}]
    /\ owner \in [Browser -> Account \union {NoOne}]
    /\ shelf \in [Account -> [Record -> Row]]

(* What signing in to an account brings. *)
Key(a, u) ==
    IF a[u].keyring # None THEN a[u].keyring.holds
    ELSE KeyringMaterial(0, u, {PasswordMaterial(u, a[u].pw)})

(* What a browser still on password material wrote: no keyring opens it. With
   the window "touch" closed there is none. *)
Touched(e) == "touch" \in Loose /\ e.ver = 4 /\ e.by \in PasswordKey
Reads(m, e) == Opens(m, e) \/ Touched(e)
Sealing == {m \in Material : m \in KeyringKey \/ "touch" \in Loose}

(* Envelopes are of a password that the account's key remembers, or of a
   keyring that is local or the account's, or touched. *)
GoodEnv(a, e) ==
    \/ /\ e.ver = 3 /\ e.by \in PasswordKey
       /\ a[e.by.of].made /\ e.by \in Key(a, e.by.of).legacy
    \/ e.ver = 4 /\ e.by \in KeyringKey /\ GoodMat(a, e.by)
    \/ Touched(e)

Sound(a, n, s) ==
    /\ \A r \in Record : n[r] # None => GoodEnv(a, n[r].env)
    /\ s # None => GoodEnv(a, s)
OpenedBy(n, s, m) ==
    /\ \A r \in Record : n[r] # None => Reads(m, n[r].env)
    /\ s # None => Reads(m, s)
Empty(n, s) == s = None /\ \A r \in Record : n[r] = None

Reachable(a, ow, e) ==
    \E u \in Account : a[u].made /\ ow \in {u, NoOne} /\ Reads(Key(a, u), e)
AtHand(a, m, ow, e) == (m # None /\ Reads(m, e)) \/ Reachable(a, ow, e)
OpenNow(a, m, ow, n, s) ==
    /\ \A r \in Record : n[r] # None => AtHand(a, m, ow, n[r].env)
    /\ s # None => AtHand(a, m, ow, s)

Fits(m, ow) == m # None /\ m.of # NoOne => ow \in {m.of, NoOne}
InSession(u, ow, st) == u # NoOne => st.at = "idle" /\ ow = u
Migrating(st) ==
    st.at = "migrate" => st.next.legacy = {PasswordMaterial(st.user, st.pw)}

(* An adoption never seals by a password: it is then from and to the same
   material. Between the two steps the notes are under the next material and
   the other tables still under the one before, which the browser has. *)
Adopting(m, ow, n, s, st) ==
    /\ st.at \in Prepared /\ st.next.kind = "password" => m = st.next
    /\ st.at \in {"notes", "rest", "commit"} =>
          /\ Empty(n, s) \/ ow \in {st.user, NoOne}
          /\ st.from \in {m, st.next}
    /\ st.at = "notes" => OpenedBy(n, s, st.from)
    /\ st.at = "rest" =>
          OpenedBy(n, None, st.next) /\ (s # None => Reads(st.from, s))
    /\ st.at = "commit" => OpenedBy(n, s, st.next)

BrowserInv(a, m, u, ow, n, s, st) ==
    /\ Sound(a, n, s)
    /\ Fits(m, ow)
    /\ InSession(u, ow, st)
    /\ Migrating(st)
    /\ Adopting(m, ow, n, s, st)
    /\ st.at \notin {"rest", "commit"} => OpenNow(a, m, ow, n, s)

GoodShelf(a, sh) ==
    \A u \in Account, r \in Record : sh[u][r].ver > 0 =>
        /\ a[u].made
        /\ sh[u][r].env \in Envelope
        /\ GoodEnv(a, sh[u][r].env)
        /\ Reads(Key(a, u), sh[u][r].env)

Readable ==
    /\ GoodShelf(account, shelf)
    /\ \A d \in Browser :
          BrowserInv(account, mat[d], sess[d], owner[d], notes[d], rest[d], step[d])

OpenInv == TablesTyped /\ Readable
(***************************************************************************)
(* Accounts move on: nothing that was readable stops being readable.       *)
(***************************************************************************)
AccountsGrow(a, b) ==
    /\ KeyringsKept(a, b)
    /\ \A u \in Account : a[u].made /\ a[u].keyring = None =>
          PasswordMaterial(u, a[u].pw) \in Key(b, u).legacy

(* The key of an account is keyring material of that account. *)
LEMMA KeyType ==
    ASSUME NEW a \in Accounts, NEW u \in Account
    PROVE  Key(a, u) \in KeyringKey /\ Key(a, u).kind = "keyring"
  <1>1. CASE a[u].keyring = None
    <2>1. PasswordMaterial(u, a[u].pw) \in PasswordKey
      BY DEF Accounts, PasswordMaterial, PasswordKey
    <2>2. KeyringMaterial(0, u, {PasswordMaterial(u, a[u].pw)}) \in KeyringKey
      BY <2>1 DEF KeyringMaterial, KeyringKey
    <2> QED BY <1>1, <2>2 DEF Key, KeyringKey
  <1>2. CASE a[u].keyring # None
    BY <1>2 DEF Key, Accounts, WrappedKeyring, KeyringKey
  <1> QED BY <1>1, <1>2

(* Before an account has a keyring, its key remembers the password material
   only, and no envelope was sealed by the key itself. *)
LEMMA KeyWithoutKeyring ==
    ASSUME NEW a \in Accounts, NEW u \in Account, a[u].keyring = None,
           NEW e \in Envelope, GoodEnv(a, e), Opens(Key(a, u), e)
    PROVE  e.ver = 3 /\ e.by = PasswordMaterial(u, a[u].pw)
  <1> DEFINE k == Key(a, u)
  <1>1. k = KeyringMaterial(0, u, {PasswordMaterial(u, a[u].pw)})
    BY DEF Key
  <1>2. k.of = u /\ k.legacy = {PasswordMaterial(u, a[u].pw)}
    BY <1>1 DEF KeyringMaterial
  <1>3. k \in KeyringKey /\ k.kind = "keyring"
    BY KeyType
  <1>4. ASSUME e.by = k PROVE FALSE
    <2>1. e.by \notin PasswordKey
      BY <1>3, <1>4 DEF PasswordKey
    <2>2. GoodMat(a, k) /\ k # None
      BY <1>3, <1>4, <2>1, NoneAssumption DEF GoodEnv, Touched, Material
    <2> QED BY <1>2, <1>3, <2>2, KeyringAssumption DEF GoodMat, Belongs
  <1>5. e.by \in k.legacy /\ e.ver = 3
    BY <1>4 DEF Opens
  <1> QED BY <1>2, <1>5

LEMMA EnvGrows ==
    ASSUME NEW a \in Accounts, NEW b \in Accounts, AccountsGrow(a, b),
           NEW e \in Envelope, GoodEnv(a, e)
    PROVE  GoodEnv(b, e)
  <1>1. CASE /\ e.ver = 3 /\ e.by \in PasswordKey
             /\ a[e.by.of].made /\ e.by \in Key(a, e.by.of).legacy
    <2> DEFINE u == e.by.of
    <2>1. u \in Account
      BY <1>1 DEF PasswordKey
    <2>2. b[u].made
      BY <1>1, <2>1 DEF AccountsGrow, KeyringsKept
    <2>3. e.by \in Key(b, u).legacy
      <3>1. CASE a[u].keyring = None
        <4>1. e.by = PasswordMaterial(u, a[u].pw)
          BY <1>1, <3>1 DEF Key, KeyringMaterial
        <4> QED BY <1>1, <2>1, <3>1, <4>1 DEF AccountsGrow
      <3>2. CASE a[u].keyring # None
        BY <1>1, <2>1, <3>2 DEF AccountsGrow, KeyringsKept, Key
      <3> QED BY <3>1, <3>2
    <2> QED BY <1>1, <2>2, <2>3 DEF GoodEnv
  <1>2. CASE e.ver = 4 /\ e.by \in KeyringKey /\ GoodMat(a, e.by)
    <2> DEFINE m == e.by
    <2>1. m.of \in Account \union {NoOne}
      BY <1>2 DEF KeyringKey
    <2>2. GoodMat(b, m)
      <3> SUFFICES ASSUME m # None, m.of # NoOne PROVE Belongs(b, m.of, m)
        BY DEF GoodMat
      <3> QED BY <1>2, <2>1, StillBelongs DEF GoodMat, AccountsGrow
    <2> QED BY <1>2, <2>2 DEF GoodEnv
  <1>3. CASE Touched(e)
    BY <1>3 DEF GoodEnv
  <1> QED BY <1>1, <1>2, <1>3 DEF GoodEnv

LEMMA OpensGrows ==
    ASSUME NEW a \in Accounts, NEW b \in Accounts, AccountsGrow(a, b),
           NEW u \in Account, a[u].made,
           NEW e \in Envelope, GoodEnv(a, e), Reads(Key(a, u), e)
    PROVE  Reads(Key(b, u), e)
  <1> SUFFICES ASSUME Opens(Key(a, u), e) PROVE Opens(Key(b, u), e)
    BY DEF Reads
  <1>1. CASE a[u].keyring = None
    <2>1. e.ver = 3 /\ e.by = PasswordMaterial(u, a[u].pw)
      BY <1>1, KeyWithoutKeyring
    <2>2. e.by \in Key(b, u).legacy
      BY <1>1, <2>1 DEF AccountsGrow
    <2> QED BY <2>1, <2>2, KeyType DEF Opens
  <1>2. CASE a[u].keyring # None
    BY <1>2 DEF AccountsGrow, KeyringsKept, Key
  <1> QED BY <1>1, <1>2

LEMMA SoundGrows ==
    ASSUME NEW a \in Accounts, NEW b \in Accounts, AccountsGrow(a, b),
           NEW n \in [Record -> Note \union {None}],
           NEW s \in Envelope \union {None}, Sound(a, n, s)
    PROVE  Sound(b, n, s)
  <1>1. \A r \in Record : n[r] # None => n[r].env \in Envelope
    BY DEF Note
  <1> QED BY <1>1, EnvGrows DEF Sound

LEMMA AtHandGrows ==
    ASSUME NEW a \in Accounts, NEW b \in Accounts, AccountsGrow(a, b),
           NEW e \in Envelope, GoodEnv(a, e),
           NEW m, NEW ow, AtHand(a, m, ow, e)
    PROVE  AtHand(b, m, ow, e)
  <1>1. CASE m # None /\ Reads(m, e)
    BY <1>1 DEF AtHand
  <1>2. CASE Reachable(a, ow, e)
    <2>1. PICK u \in Account :
            a[u].made /\ ow \in {u, NoOne} /\ Reads(Key(a, u), e)
      BY <1>2 DEF Reachable
    <2>2. b[u].made
      BY <2>1 DEF AccountsGrow, KeyringsKept
    <2>3. Reads(Key(b, u), e)
      BY <2>1, OpensGrows
    <2> QED BY <2>1, <2>2, <2>3 DEF AtHand, Reachable
  <1> QED BY <1>1, <1>2 DEF AtHand

LEMMA BrowserGrows ==
    ASSUME NEW a \in Accounts, NEW b \in Accounts, AccountsGrow(a, b),
           NEW n \in [Record -> Note \union {None}],
           NEW s \in Envelope \union {None},
           NEW m, NEW u, NEW ow, NEW st, BrowserInv(a, m, u, ow, n, s, st)
    PROVE  BrowserInv(b, m, u, ow, n, s, st)
  <1>1. Sound(b, n, s)
    BY SoundGrows DEF BrowserInv
  <1>2. OpenNow(a, m, ow, n, s) => OpenNow(b, m, ow, n, s)
    <2>1. \A r \in Record : n[r] # None =>
            n[r].env \in Envelope /\ GoodEnv(a, n[r].env)
      BY DEF Note, BrowserInv, Sound
    <2>2. s # None => s \in Envelope /\ GoodEnv(a, s)
      BY DEF BrowserInv, Sound
    <2> QED BY <2>1, <2>2, AtHandGrows DEF OpenNow
  <1> QED BY <1>1, <1>2 DEF BrowserInv

LEMMA ShelfGrows ==
    ASSUME NEW a \in Accounts, NEW b \in Accounts, AccountsGrow(a, b),
           NEW sh, GoodShelf(a, sh)
    PROVE  GoodShelf(b, sh)
  <1> SUFFICES ASSUME NEW u \in Account, NEW r \in Record, sh[u][r].ver > 0
               PROVE  /\ b[u].made
                      /\ sh[u][r].env \in Envelope
                      /\ GoodEnv(b, sh[u][r].env)
                      /\ Reads(Key(b, u), sh[u][r].env)
    BY DEF GoodShelf
  <1>1. /\ a[u].made
        /\ sh[u][r].env \in Envelope
        /\ GoodEnv(a, sh[u][r].env)
        /\ Reads(Key(a, u), sh[u][r].env)
    BY DEF GoodShelf
  <1>2. b[u].made
    BY <1>1 DEF AccountsGrow, KeyringsKept
  <1> QED BY <1>1, <1>2, EnvGrows, OpensGrows

(* What material of an account opens the account's key opens as well, so a
   browser that lost its material gets it back by signing in. *)
LEMMA KeyReads ==
    ASSUME NEW a \in Accounts, KeyringsFit(a), NEW u \in Account,
           NEW m \in Material, Belongs(a, u, m),
           NEW e \in Envelope, GoodEnv(a, e), Reads(m, e)
    PROVE  Reads(Key(a, u), e)
  <1>1. CASE m.kind = "keyring"
    <2>1. Key(a, u) = m
      BY <1>1 DEF Belongs, Key, KeyringsFit
    <2> QED BY <2>1
  <1>2. CASE m.kind # "keyring" /\ Opens(m, e)
    <2>1. e.by = m /\ m.of = u /\ e.by \notin KeyringKey
      BY <1>2 DEF Opens, Belongs, KeyringKey
    <2>2. CASE e.ver = 3 /\ e.by \in Key(a, u).legacy
      BY <2>2, KeyType DEF Opens, Reads
    <2>3. CASE Touched(e)
      BY <2>3 DEF Reads
    <2> QED BY <2>1, <2>2, <2>3 DEF GoodEnv
  <1> QED BY <1>1, <1>2 DEF Reads

LEMMA Recover ==
    ASSUME NEW a \in Accounts, KeyringsFit(a), NEW u \in Account,
           NEW m \in Material, Belongs(a, u, m),
           NEW e \in Envelope, GoodEnv(a, e), Reads(m, e),
           NEW ow, ow \in {u, NoOne}
    PROVE  Reachable(a, ow, e)
  BY KeyReads DEF Reachable, Belongs

LEMMA Forgotten ==
    ASSUME NEW a \in Accounts, KeyringsFit(a), NEW u \in Account,
           NEW m \in Material, Belongs(a, u, m), NEW ow, ow \in {u, NoOne},
           NEW n \in [Record -> Note \union {None}],
           NEW s \in Envelope \union {None},
           Sound(a, n, s), OpenNow(a, m, ow, n, s)
    PROVE  OpenNow(a, None, ow, n, s)
  <1>1. ASSUME NEW e \in Envelope, GoodEnv(a, e), AtHand(a, m, ow, e)
        PROVE  AtHand(a, None, ow, e)
    BY <1>1, Recover DEF AtHand
  <1>2. \A r \in Record : n[r] # None => n[r].env \in Envelope
    BY DEF Note
  <1> QED BY <1>1, <1>2 DEF OpenNow, Sound

(* The model's view of a browser's tables, and the one of this proof. *)
LEMMA HeldOpens ==
    ASSUME NEW d \in Browser, NEW m
    PROVE  AllOpen(d, m) => OpenedBy(notes[d], rest[d], m)
  BY DEF AllOpen, Held, OpenedBy, Reads

LEMMA HeldEmpty ==
    ASSUME NEW d \in Browser
    PROVE  ~HasUserData(d) <=> Empty(notes[d], rest[d])
  BY DEF HasUserData, Held, Empty

(* What material of an account seals is sound and opens. *)
LEMMA SealGood ==
    ASSUME NEW a, NEW m \in Sealing, GoodMat(a, m)
    PROVE  Seal(m) \in Envelope /\ GoodEnv(a, Seal(m)) /\ Reads(m, Seal(m))
  <1> DEFINE e == [by |-> m, ver |-> 4]
  <1>1. e \in Envelope /\ e.by = m /\ e.ver = 4
    BY DEF Envelope, Sealing
  <1> HIDE DEF e
  <1>2. Seal(m) = e
    BY DEF Seal, e
  <1>3. GoodEnv(a, e)
    BY <1>1 DEF GoodEnv, Touched, Sealing, Material
  <1> QED BY <1>1, <1>2, <1>3 DEF Reads, Opens

LEMMA ResealedGood ==
    ASSUME NEW a, NEW m \in Sealing, GoodMat(a, m),
           NEW n \in Note \union {None}
    PROVE  /\ Resealed(n, m) \in Note \union {None}
           /\ Resealed(n, m) # None =>
                GoodEnv(a, Resealed(n, m).env) /\ Reads(m, Resealed(n, m).env)
  <1>1. CASE n = None
    BY <1>1 DEF Resealed
  <1>2. CASE n # None /\ Primary(m, n.env)
    BY <1>2, SealGood DEF Resealed, Primary
  <1>3. CASE n # None /\ ~Primary(m, n.env)
    <2> DEFINE e == Seal(m)
               k == [n EXCEPT !.env = e, !.status = "pending"]
    <2>1. e \in Envelope /\ GoodEnv(a, e) /\ Reads(m, e)
      BY SealGood
    <2> HIDE DEF e
    <2>2. k \in Note /\ k.env = e
      BY <1>3, <2>1 DEF Note
    <2>3. Resealed(n, m) = k
      BY <1>3 DEF Resealed, e
    <2> HIDE DEF k
    <2> QED BY <2>1, <2>2, <2>3
  <1> QED BY <1>1, <1>2, <1>3

(***************************************************************************)
(* One browser moves; the accounts may grow.                               *)
(***************************************************************************)
LEMMA HereOpen ==
    ASSUME OpenInv, NEW d \in Browser
    PROVE  /\ notes[d] \in [Record -> Note \union {None}]
           /\ rest[d] \in Envelope \union {None}
           /\ owner[d] \in Account \union {NoOne}
           /\ BrowserInv(account, mat[d], sess[d], owner[d], notes[d], rest[d],
                      step[d])
  BY DEF OpenInv, TablesTyped, Readable

LEMMA SameAccounts ==
    ASSUME NEW a \in Accounts
    PROVE  AccountsGrow(a, a)
  <1>1. KeyringsKept(a, a)
    BY DEF KeyringsKept
  <1>2. \A u \in Account : a[u].keyring = None =>
            PasswordMaterial(u, a[u].pw) \in Key(a, u).legacy
    BY DEF Key, KeyringMaterial
  <1> QED BY <1>1, <1>2 DEF AccountsGrow

LEMMA OneOpens ==
    ASSUME KeysInv, OpenInv, KeysInv', TablesTyped',
           AccountsGrow(account, account'), GoodShelf(account', shelf'),
           NEW d \in Browser,
           \A e \in Browser : e # d =>
             /\ mat'[e] = mat[e] /\ sess'[e] = sess[e] /\ step'[e] = step[e]
             /\ owner'[e] = owner[e] /\ notes'[e] = notes[e]
             /\ rest'[e] = rest[e],
           BrowserInv(account', mat'[d], sess'[d], owner'[d], notes'[d],
                   rest'[d], step'[d])
    PROVE  OpenInv'
  <1>1. account \in Accounts /\ account' \in Accounts
    BY DEF KeysInv, KeysTyped
  <1>2. ASSUME NEW e \in Browser
        PROVE  BrowserInv(account', mat'[e], sess'[e], owner'[e], notes'[e],
                       rest'[e], step'[e])
    <2>1. CASE e = d
      BY <2>1
    <2>2. CASE e # d
      <3>1. /\ mat'[e] = mat[e] /\ sess'[e] = sess[e] /\ step'[e] = step[e]
            /\ owner'[e] = owner[e] /\ notes'[e] = notes[e]
            /\ rest'[e] = rest[e]
        BY <2>2
      <3> QED BY <1>1, <3>1, HereOpen, BrowserGrows
    <2> QED BY <2>1, <2>2
  <1> QED BY <1>2 DEF OpenInv, Readable

(* The usual case: accounts and shelves stay. *)
LEMMA BrowserOpens ==
    ASSUME KeysInv, OpenInv, KeysInv', TablesTyped',
           UNCHANGED <<account, shelf>>,
           NEW d \in Browser,
           \A e \in Browser : e # d =>
             /\ mat'[e] = mat[e] /\ sess'[e] = sess[e] /\ step'[e] = step[e]
             /\ owner'[e] = owner[e] /\ notes'[e] = notes[e]
             /\ rest'[e] = rest[e],
           BrowserInv(account, mat'[d], sess'[d], owner'[d], notes'[d],
                   rest'[d], step'[d])
    PROVE  OpenInv'
  <1>1. AccountsGrow(account, account')
    BY SameAccounts DEF KeysInv, KeysTyped
  <1>2. GoodShelf(account', shelf')
    BY DEF OpenInv, Readable
  <1> QED BY <1>1, <1>2, OneOpens

(* A sign-in that has not touched the tables yet moves on or ends. *)
LEMMA NewStep ==
    ASSUME NEW a, NEW m, NEW u, NEW ow, NEW n, NEW s, NEW st, NEW to,
           BrowserInv(a, m, u, ow, n, s, st),
           u = NoOne, st.at \notin {"rest", "commit"},
           to.at \in {"idle", "migrate", "prepare"}, Migrating(to),
           to.at = "prepare" /\ to.next.kind = "password" => m = to.next
    PROVE  BrowserInv(a, m, u, ow, n, s, to)
  BY DEF BrowserInv, InSession, Adopting, Prepared

(***************************************************************************)
(* One lemma per action.                                                   *)
(***************************************************************************)
LEMMA TablesStay ==
    ASSUME OpenInv, UNCHANGED <<notes, rest, owner, shelf>>
    PROVE  TablesTyped'
  BY DEF OpenInv, TablesTyped

LEMMA UntouchedOpens ==
    ASSUME OpenInv,
           UNCHANGED <<account, shelf, mat, sess, owner, notes, rest, step>>
    PROVE  OpenInv'
  BY DEF OpenInv, TablesTyped, Readable

(* Only the sign-in moves on, and the accounts may grow with it. *)
LEMMA StepOpens ==
    ASSUME KeysInv, OpenInv, KeysInv', AccountsGrow(account, account'),
           UNCHANGED <<shelf, mat, sess, owner, notes, rest>>,
           NEW d \in Browser, NEW to, step' = [step EXCEPT ![d] = to],
           sess[d] = NoOne, step[d].at \notin {"rest", "commit"},
           to.at \in {"idle", "migrate", "prepare"}, Migrating(to),
           to.at = "prepare" /\ to.next.kind = "password" => mat[d] = to.next
    PROVE  OpenInv'
  <1>1. TablesTyped'
    BY TablesStay
  <1>2. account \in Accounts /\ account' \in Accounts
    BY DEF KeysInv, KeysTyped
  <1>3. GoodShelf(account', shelf')
    BY <1>2, ShelfGrows DEF OpenInv, Readable
  <1>4. step'[d] = to /\ \A e \in Browser : e # d => step'[e] = step[e]
    BY DEF KeysInv, KeysTyped
  <1>5. BrowserInv(account', mat[d], sess[d], owner[d], notes[d], rest[d],
                step[d])
    BY <1>2, HereOpen, BrowserGrows
  <1>6. BrowserInv(account', mat[d], sess[d], owner[d], notes[d], rest[d], to)
    BY <1>5, NewStep
  <1> QED BY <1>1, <1>3, <1>4, <1>6, OneOpens

LEMMA SignupOpens ==
    ASSUME KeysInv, OpenInv, KeysInv', Safe,
           NEW d \in Browser, NEW u \in Account, Signup(d, u)
    PROVE  OpenInv'
  <1> DEFINE m == KeyringMaterial(keys + 1, u, {})
             written == [made |-> TRUE, pw |-> 1, keyring |-> Wrap(1, m)]
             to == [at |-> "prepare", user |-> u, next |-> m]
  <1>1. m.kind = "keyring"
    BY DEF KeyringMaterial
  <1>2. to.at = "prepare" /\ to.next = m
    OBVIOUS
  <1>3. /\ account' = [account EXCEPT ![u] = written]
        /\ step' = [step EXCEPT ![d] = to]
        /\ UNCHANGED <<shelf, mat, sess, owner, notes, rest>>
        /\ ~account[u].made /\ sess[d] = NoOne /\ step[d].at = "idle"
    BY DEF Signup, workspace, AtRest
  <1> HIDE DEF m, written, to
  <1>4. \A v \in Account : v # u => account'[v] = account[v]
    BY <1>3 DEF KeysInv, KeysTyped, Accounts
  <1>5. AccountsGrow(account, account')
    <2>1. account \in Accounts
      BY DEF KeysInv, KeysTyped
    <2>2. ASSUME NEW v \in Account, account[v].made, account[v].keyring = None
          PROVE  PasswordMaterial(v, account[v].pw) \in Key(account', v).legacy
      BY <1>3, <1>4, <2>2 DEF Key, KeyringMaterial
    <2> QED BY <2>2 DEF Safe, AccountsGrow
  <1>6. Migrating(to)
    BY <1>2 DEF Migrating
  <1> QED BY <1>1, <1>2, <1>3, <1>5, <1>6, StepOpens

LEMMA SignInOpens ==
    ASSUME KeysInv, OpenInv, KeysInv',
           NEW d \in Browser, NEW u \in Account, SignIn(d, u)
    PROVE  OpenInv'
  <1> DEFINE wrap == account[u].keyring
             pw == account[u].pw
             held == [at |-> "prepare", user |-> u, next |-> wrap.holds]
             m == KeyringMaterial(keys + 1, u, {PasswordMaterial(u, pw)})
             new == [at |-> "migrate", user |-> u, pw |-> pw, next |-> m]
  <1>0. /\ sess[d] = NoOne /\ step[d].at = "idle"
        /\ UNCHANGED <<account, shelf, mat, sess, owner, notes, rest>>
        /\ account \in Accounts
    BY DEF SignIn, workspace, AtRest, KeysInv, KeysTyped
  <1>1. AccountsGrow(account, account')
    BY <1>0, SameAccounts
  <1>2. CASE wrap # None /\ step' = [step EXCEPT ![d] = held]
    <2>1. wrap.holds.kind = "keyring"
      BY <1>0, <1>2 DEF Accounts, WrappedKeyring, KeyringKey
    <2>2. Migrating(held)
      BY DEF Migrating
    <2> QED BY <1>0, <1>1, <1>2, <2>1, <2>2, StepOpens
  <1>3. CASE UNCHANGED step
    BY <1>0, <1>3, UntouchedOpens
  <1>4. CASE step' = [step EXCEPT ![d] = new]
    <2>1. Migrating(new) /\ new.at = "migrate"
      BY DEF Migrating, KeyringMaterial
    <2> HIDE DEF new
    <2> QED BY <1>0, <1>1, <1>4, <2>1, StepOpens
  <1> QED BY <1>2, <1>3, <1>4 DEF SignIn

LEMMA OtpSignInOpens ==
    ASSUME KeysInv, OpenInv, KeysInv',
           NEW d \in Browser, NEW u \in Account, OtpSignIn(d, u)
    PROVE  OpenInv'
  <1> DEFINE to == [at |-> "prepare", user |-> u, next |-> mat[d]]
  <1>0. /\ sess[d] = NoOne /\ step[d].at = "idle"
        /\ UNCHANGED <<account, shelf, mat, sess, owner, notes, rest>>
        /\ account \in Accounts
        /\ step' = [step EXCEPT ![d] = to]
    BY DEF OtpSignIn, workspace, AtRest, KeysInv, KeysTyped
  <1>1. AccountsGrow(account, account')
    BY <1>0, SameAccounts
  <1>2. Migrating(to) /\ to.at = "prepare" /\ to.next = mat[d]
    BY DEF Migrating
  <1> HIDE DEF to
  <1> QED BY <1>0, <1>1, <1>2, StepOpens

(* The stored keyring remembers the password material it replaces. *)
LEMMA MigrateOpens ==
    ASSUME KeysInv, OpenInv, KeysInv', Safe, NEW d \in Browser, Migrate(d)
    PROVE  OpenInv'
  <1> DEFINE s == step[d]
             u == s.user
             wrap == Wrap(s.pw, s.next)
             on == [at |-> "prepare", user |-> u, next |-> s.next]
             idle == [at |-> "idle"]
  <1>1. /\ s \in Steps /\ s.at = "migrate"
        /\ u \in Account /\ s.next \in KeyringKey
    BY Here DEF Migrate, Steps
  <1>2. UNCHANGED <<shelf, mat, sess, owner, notes, rest>>
    BY DEF Migrate, workspace
  <1>3. Migrating(s) /\ sess[d] = NoOne
    BY <1>1, HereOpen DEF BrowserInv, InSession
  <1>4. account \in Accounts
    BY DEF KeysInv, KeysTyped
  <1>5. AccountsGrow(account, account')
    <2>1. CASE UNCHANGED account
      BY <1>4, <2>1, SameAccounts
    <2>2. CASE /\ KeyringUpdateAccepted(u, s.pw, None)
               /\ account' = [account EXCEPT ![u].keyring = wrap]
      <3>1. account[u].pw = s.pw
        BY <2>2 DEF KeyringUpdateAccepted
      <3>2. wrap.holds = s.next
        BY DEF Wrap
      <3> HIDE DEF wrap
      <3>3. s.next.legacy = {PasswordMaterial(u, s.pw)}
        BY <1>1, <1>3 DEF Migrating
      <3>4. /\ account'[u].keyring = wrap /\ account'[u].pw = account[u].pw
            /\ \A v \in Account : v # u => account'[v] = account[v]
        BY <1>1, <1>4, <2>2 DEF Accounts
      <3>5. PasswordMaterial(u, account[u].pw) \in Key(account', u).legacy
        <4>1. CASE wrap = None
          BY <3>4, <4>1 DEF Key, KeyringMaterial
        <4>2. CASE wrap # None
          BY <3>1, <3>2, <3>3, <3>4, <4>2 DEF Key
        <4> QED BY <4>1, <4>2
      <3>6. ASSUME NEW v \in Account, account[v].keyring = None, v # u
            PROVE  PasswordMaterial(v, account[v].pw) \in Key(account', v).legacy
        BY <3>4, <3>6 DEF Key, KeyringMaterial
      <3> QED BY <3>5, <3>6 DEF Safe, AccountsGrow
    <2> QED BY <2>1, <2>2 DEF Migrate
  <1>6. CASE step' = [step EXCEPT ![d] = on]
    <2>1. s.next.kind = "keyring"
      BY <1>1 DEF KeyringKey
    <2>2. on.at = "prepare" /\ on.next = s.next /\ Migrating(on)
      BY DEF Migrating
    <2> HIDE DEF on
    <2> QED BY <1>1, <1>2, <1>3, <1>5, <1>6, <2>1, <2>2, StepOpens
  <1>7. CASE step' = [step EXCEPT ![d] = idle]
    <2>1. idle.at = "idle" /\ Migrating(idle)
      BY DEF Migrating
    <2> HIDE DEF idle
    <2> QED BY <1>1, <1>2, <1>3, <1>5, <1>7, <2>1, StepOpens
  <1> QED BY <1>6, <1>7 DEF Migrate, GoIdle

LEMMA PrepareRefusedOpens ==
    ASSUME KeysInv, OpenInv, KeysInv', NEW d \in Browser, PrepareRefused(d)
    PROVE  OpenInv'
  <1> DEFINE idle == [at |-> "idle"]
  <1>1. /\ step[d].at = "prepare"
        /\ UNCHANGED <<account, shelf, mat, sess, owner, notes, rest>>
        /\ step' = [step EXCEPT ![d] = idle]
        /\ account \in Accounts
    BY DEF PrepareRefused, workspace, GoIdle, KeysInv, KeysTyped
  <1>2. sess[d] = NoOne
    BY <1>1, HereOpen DEF BrowserInv, InSession
  <1>3. idle.at = "idle" /\ Migrating(idle)
    BY DEF Migrating
  <1> HIDE DEF idle
  <1> QED BY <1>1, <1>2, <1>3, SameAccounts, StepOpens

LEMMA PrepareClearsOpens ==
    ASSUME KeysInv, OpenInv, KeysInv', NEW d \in Browser, PrepareClears(d)
    PROVE  OpenInv'
  <1> DEFINE old == step[d]
             to == [at |-> "notes", user |-> old.user,
                    from |-> old.next, next |-> old.next]
             none == [r \in Record |-> None]
  <1>1. /\ old.at = "prepare" /\ old \in Steps
        /\ BrowserInv(account, mat[d], sess[d], owner[d], notes[d], rest[d], old)
    BY Here, HereOpen DEF PrepareClears
  <1>2. old.next \in Material
    BY <1>1 DEF Steps
  <1>3. /\ to.at = "notes" /\ to.from = old.next /\ to.next = old.next
        /\ to.user = old.user
    OBVIOUS
  <1>4. /\ notes' = [notes EXCEPT ![d] = none]
        /\ owner' = [owner EXCEPT ![d] = NoOne]
        /\ mat' = [mat EXCEPT ![d] = Stored(d)]
        /\ step' = [step EXCEPT ![d] = to]
        /\ UNCHANGED <<account, shelf, sess, rest>>
    BY DEF PrepareClears, MakeStored
  <1> HIDE DEF to
  <1>5. /\ none \in [Record -> Note \union {None}]
        /\ rest[d] = None
        /\ Empty(none, rest[d])
    BY DEF PrepareClears, HasUnsynced, Empty
  <1>6. \A m : OpenedBy(none, rest[d], m) /\ OpenedBy(none, None, m)
    BY <1>5 DEF OpenedBy
  <1>7. Sound(account, none, rest[d])
    BY <1>5 DEF Sound
  <1> HIDE DEF none
  <1>8. TablesTyped'
    BY <1>4, <1>5 DEF OpenInv, TablesTyped
  <1>9. /\ mat'[d] = Stored(d) /\ sess'[d] = sess[d] /\ owner'[d] = NoOne
        /\ notes'[d] = none /\ rest'[d] = rest[d] /\ step'[d] = to
        /\ \A e \in Browser : e # d =>
             /\ mat'[e] = mat[e] /\ sess'[e] = sess[e] /\ step'[e] = step[e]
             /\ owner'[e] = owner[e] /\ notes'[e] = notes[e]
             /\ rest'[e] = rest[e]
    BY <1>4 DEF OpenInv, TablesTyped, KeysInv, KeysTyped
  <1>10. BrowserInv(account, Stored(d), sess[d], NoOne, none, rest[d], to)
    <2>1. sess[d] = NoOne
      BY <1>1 DEF BrowserInv, InSession
    <2>2. old.next.kind = "password" => Stored(d) = old.next
      BY <1>1, <1>2, NoneAssumption
        DEF BrowserInv, Adopting, Prepared, Stored
    <2>3. Adopting(Stored(d), NoOne, none, rest[d], to)
      BY <1>3, <1>5, <1>6, <2>2 DEF Adopting
    <2>4. Fits(Stored(d), NoOne)
      BY DEF Fits
    <2>5. OpenNow(account, Stored(d), NoOne, none, rest[d])
      BY <1>5 DEF OpenNow, Empty
    <2> QED BY <1>3, <1>7, <2>1, <2>3, <2>4, <2>5
            DEF BrowserInv, InSession, Migrating
  <1> QED BY <1>4, <1>8, <1>9, <1>10, BrowserOpens

LEMMA PreflightOpens ==
    ASSUME KeysInv, OpenInv, KeysInv', NEW d \in Browser, Preflight(d)
    PROVE  OpenInv'
  <1> DEFINE old == step[d]
             idle == [at |-> "idle"]
             to == [at |-> "notes", user |-> old.user,
                    from |-> AdoptFrom(d), next |-> old.next]
  <1>1. /\ old.at = "prepare" /\ old \in Steps
        /\ BrowserInv(account, mat[d], sess[d], owner[d], notes[d], rest[d], old)
    BY Here, HereOpen DEF Preflight
  <1>2. old.next \in Material
    BY <1>1 DEF Steps
  <1>3. /\ mat' = [mat EXCEPT ![d] = Stored(d)]
        /\ UNCHANGED <<account, shelf, sess, owner, notes, rest>>
    BY DEF Preflight, MakeStored, server, workspace
  <1>4. TablesTyped'
    BY <1>3, TablesStay
  <1>5. sess[d] = NoOne
    BY <1>1 DEF BrowserInv, InSession
  <1>6. Fits(Stored(d), owner[d])
    BY <1>1 DEF BrowserInv, Fits, Stored, KeyringMaterial
  <1>7. OpenNow(account, Stored(d), owner[d], notes[d], rest[d])
    <2>1. OpenNow(account, mat[d], owner[d], notes[d], rest[d])
      BY <1>1 DEF BrowserInv
    <2> QED BY <2>1 DEF OpenNow, AtHand, Stored
  <1>8. /\ mat'[d] = Stored(d)
        /\ \A e \in Browser : e # d => mat'[e] = mat[e]
    BY <1>3 DEF KeysInv, KeysTyped
  <1>9. CASE step' = [step EXCEPT ![d] = idle]
    <2>1. step'[d] = idle /\ \A e \in Browser : e # d => step'[e] = step[e]
      BY <1>9 DEF KeysInv, KeysTyped
    <2>2. idle.at = "idle"
      OBVIOUS
    <2> HIDE DEF idle
    <2>3. BrowserInv(account, Stored(d), sess[d], owner[d], notes[d], rest[d],
                  idle)
      BY <1>1, <1>5, <1>6, <1>7, <2>2
        DEF BrowserInv, InSession, Migrating, Adopting, Prepared
    <2> QED BY <1>3, <1>4, <1>8, <2>1, <2>3, BrowserOpens
  <1>10. CASE AdoptFrom(d) # None /\ step' = [step EXCEPT ![d] = to]
    <2>1. step'[d] = to /\ \A e \in Browser : e # d => step'[e] = step[e]
      BY <1>10 DEF KeysInv, KeysTyped
    <2>2. /\ to.at = "notes" /\ to.from = AdoptFrom(d) /\ to.next = old.next
          /\ to.user = old.user
      OBVIOUS
    <2> HIDE DEF to
    <2>3. /\ AdoptFrom(d) \in {Stored(d), old.next}
          /\ AllOpen(d, AdoptFrom(d))
      BY <1>10 DEF AdoptFrom
    <2>4. Empty(notes[d], rest[d]) \/ owner[d] \in {old.user, NoOne}
      <3> SUFFICES ASSUME HasUserData(d) PROVE owner[d] \in {old.user, NoOne}
        BY HeldEmpty
      <3> QED BY DEF Preflight, Foreign
    <2>5. old.next.kind = "password" => Stored(d) = old.next
      BY <1>1, <1>2, NoneAssumption
        DEF BrowserInv, Adopting, Prepared, Stored
    <2>6. Adopting(Stored(d), owner[d], notes[d], rest[d], to)
      BY <2>2, <2>3, <2>4, <2>5, HeldOpens DEF Adopting
    <2>7. BrowserInv(account, Stored(d), sess[d], owner[d], notes[d], rest[d],
                  to)
      BY <1>1, <1>5, <1>6, <1>7, <2>2, <2>6 DEF BrowserInv, InSession, Migrating
    <2> QED BY <1>3, <1>4, <1>8, <2>1, <2>7, BrowserOpens
  <1> QED BY <1>9, <1>10 DEF Preflight, GoIdle

(* The notes table goes under the next material; the other tables follow. *)
LEMMA ReencryptNotesOpens ==
    ASSUME KeysInv, OpenInv, KeysInv', NEW d \in Browser, ReencryptNotes(d)
    PROVE  OpenInv'
  <1> DEFINE old == step[d]
             to == [old EXCEPT !.at = "rest"]
             n == IF old.from = old.next THEN notes[d]
                  ELSE [r \in Record |-> Resealed(notes[d][r], old.next)]
  <1>1. /\ old.at = "notes" /\ old \in Steps
        /\ Belongs(account, old.user, old.next)
        /\ BrowserInv(account, mat[d], sess[d], owner[d], notes[d], rest[d], old)
        /\ notes[d] \in [Record -> Note \union {None}]
    BY Here, HereOpen DEF ReencryptNotes, GoodStep, Prepared
  <1>2. old.next \in Material /\ old.user \in Account
    BY <1>1 DEF Steps
  <1>3. /\ to.at = "rest" /\ to.from = old.from /\ to.next = old.next
        /\ to.user = old.user
    BY <1>1 DEF Steps
  <1>4. /\ notes' = [notes EXCEPT ![d] = n]
        /\ step' = [step EXCEPT ![d] = to]
        /\ UNCHANGED <<account, shelf, sess, mat, owner, rest>>
    BY DEF ReencryptNotes, server, OpenInv, TablesTyped
  <1> HIDE DEF to
  <1>5. /\ n \in [Record -> Note \union {None}]
        /\ Sound(account, n, rest[d])
        /\ OpenedBy(n, None, old.next)
        /\ \A r \in Record : notes[d][r] = None => n[r] = None
    <2>1. CASE old.from = old.next
      BY <1>1, <2>1 DEF BrowserInv, Adopting, OpenedBy
    <2>2. CASE old.from # old.next
      <3>1. old.next.kind # "password"
        BY <1>1, <2>2 DEF BrowserInv, Adopting, Prepared
      <3>2. old.next \in Sealing
        BY <1>2, <3>1 DEF Sealing, Material, PasswordKey
      <3>3. GoodMat(account, old.next)
        BY <1>1 DEF Belongs, GoodMat
      <3>4. \A r \in Record :
              /\ n[r] \in Note \union {None}
              /\ n[r] # None =>
                   GoodEnv(account, n[r].env) /\ Reads(old.next, n[r].env)
        BY <1>1, <2>2, <3>2, <3>3, ResealedGood
      <3>5. \A r \in Record : notes[d][r] = None => n[r] = None
        BY <2>2 DEF Resealed
      <3>6. n \in [Record -> Note \union {None}]
        <4>1. n = [r \in Record |-> n[r]]
          BY <2>2
        <4> QED BY <3>4, <4>1
      <3> HIDE DEF n
      <3>7. Sound(account, n, rest[d])
        BY <1>1, <3>4 DEF BrowserInv, Sound
      <3>8. OpenedBy(n, None, old.next)
        BY <3>4 DEF OpenedBy
      <3> QED BY <2>2, <3>5, <3>6, <3>7, <3>8
    <2> QED BY <2>1, <2>2
  <1> HIDE DEF n
  <1>6. TablesTyped'
    BY <1>4, <1>5 DEF OpenInv, TablesTyped
  <1>7. /\ notes'[d] = n /\ step'[d] = to
        /\ \A e \in Browser : e # d =>
             notes'[e] = notes[e] /\ step'[e] = step[e]
    BY <1>4 DEF OpenInv, TablesTyped, KeysInv, KeysTyped
  <1>8. BrowserInv(account, mat[d], sess[d], owner[d], n, rest[d], to)
    <2>1. sess[d] = NoOne /\ Fits(mat[d], owner[d])
      BY <1>1 DEF BrowserInv, InSession
    <2>2. Empty(notes[d], rest[d]) => Empty(n, rest[d])
      BY <1>5 DEF Empty
    <2>3. rest[d] # None => Reads(old.from, rest[d])
      BY <1>1 DEF BrowserInv, Adopting, OpenedBy
    <2>4. Adopting(mat[d], owner[d], n, rest[d], to)
      BY <1>1, <1>3, <1>5, <2>2, <2>3 DEF BrowserInv, Adopting, Prepared
    <2> QED BY <1>3, <1>5, <2>1, <2>4 DEF BrowserInv, InSession, Migrating
  <1> QED BY <1>4, <1>6, <1>7, <1>8, BrowserOpens

LEMMA ReencryptRestOpens ==
    ASSUME KeysInv, OpenInv, KeysInv', NEW d \in Browser, ReencryptRest(d)
    PROVE  OpenInv'
  <1> DEFINE old == step[d]
             to == [old EXCEPT !.at = "commit"]
             s == IF old.from = old.next \/ rest[d] = None THEN rest[d]
                  ELSE Seal(old.next)
  <1>1. /\ old.at = "rest" /\ old \in Steps
        /\ Belongs(account, old.user, old.next)
        /\ BrowserInv(account, mat[d], sess[d], owner[d], notes[d], rest[d], old)
        /\ rest[d] \in Envelope \union {None}
    BY Here, HereOpen DEF ReencryptRest, GoodStep, Prepared
  <1>2. old.next \in Material /\ old.user \in Account
    BY <1>1 DEF Steps
  <1>3. /\ to.at = "commit" /\ to.from = old.from /\ to.next = old.next
        /\ to.user = old.user
    BY <1>1 DEF Steps
  <1>4. /\ rest' = [rest EXCEPT ![d] = s]
        /\ step' = [step EXCEPT ![d] = to]
        /\ UNCHANGED <<account, shelf, sess, mat, owner, notes>>
    BY DEF ReencryptRest, server, OpenInv, TablesTyped
  <1> HIDE DEF to
  <1>5. /\ s \in Envelope \union {None}
        /\ Sound(account, notes[d], s)
        /\ OpenedBy(notes[d], s, old.next)
        /\ rest[d] = None => s = None
    <2>1. CASE old.from = old.next \/ rest[d] = None
      BY <1>1, <2>1 DEF BrowserInv, Adopting, OpenedBy
    <2>2. CASE old.from # old.next /\ rest[d] # None
      <3>1. old.next.kind # "password"
        BY <1>1, <2>2 DEF BrowserInv, Adopting, Prepared
      <3>2. old.next \in Sealing
        BY <1>2, <3>1 DEF Sealing, Material, PasswordKey
      <3>3. GoodMat(account, old.next)
        BY <1>1 DEF Belongs, GoodMat
      <3>4. s \in Envelope /\ GoodEnv(account, s) /\ Reads(old.next, s)
        BY <2>2, <3>2, <3>3, SealGood
      <3> HIDE DEF s
      <3>5. Sound(account, notes[d], s)
        BY <1>1, <3>4 DEF BrowserInv, Sound
      <3>6. OpenedBy(notes[d], s, old.next)
        BY <1>1, <3>4 DEF BrowserInv, Adopting, OpenedBy
      <3> QED BY <2>2, <3>4, <3>5, <3>6
    <2> QED BY <2>1, <2>2
  <1> HIDE DEF s
  <1>6. TablesTyped'
    BY <1>4, <1>5 DEF OpenInv, TablesTyped
  <1>7. /\ rest'[d] = s /\ step'[d] = to
        /\ \A e \in Browser : e # d =>
             rest'[e] = rest[e] /\ step'[e] = step[e]
    BY <1>4 DEF OpenInv, TablesTyped, KeysInv, KeysTyped
  <1>8. BrowserInv(account, mat[d], sess[d], owner[d], notes[d], s, to)
    <2>1. sess[d] = NoOne /\ Fits(mat[d], owner[d])
      BY <1>1 DEF BrowserInv, InSession
    <2>2. Empty(notes[d], rest[d]) => Empty(notes[d], s)
      BY <1>5 DEF Empty
    <2>3. Adopting(mat[d], owner[d], notes[d], s, to)
      BY <1>1, <1>3, <1>5, <2>2 DEF BrowserInv, Adopting, Prepared
    <2> QED BY <1>3, <1>5, <2>1, <2>3 DEF BrowserInv, InSession, Migrating
  <1> QED BY <1>4, <1>6, <1>7, <1>8, BrowserOpens

LEMMA CommitOpens ==
    ASSUME KeysInv, OpenInv, KeysInv', NEW d \in Browser, Commit(d)
    PROVE  OpenInv'
  <1> DEFINE old == step[d]
             idle == [at |-> "idle"]
  <1>1. /\ old.at = "commit" /\ old \in Steps
        /\ Belongs(account, old.user, old.next)
        /\ BrowserInv(account, mat[d], sess[d], owner[d], notes[d], rest[d], old)
    BY Here, HereOpen DEF Commit, GoodStep, Prepared
  <1>2. old.next \in Material /\ old.user \in Account
    BY <1>1 DEF Steps
  <1>3. /\ owner' = [owner EXCEPT ![d] = old.user]
        /\ mat' = [mat EXCEPT ![d] = old.next]
        /\ sess' = [sess EXCEPT ![d] = old.user]
        /\ step' = [step EXCEPT ![d] = idle]
        /\ UNCHANGED <<account, shelf, notes, rest>>
    BY DEF Commit, GoIdle, server
  <1>4. TablesTyped'
    BY <1>2, <1>3 DEF OpenInv, TablesTyped
  <1>5. idle.at = "idle"
    OBVIOUS
  <1> HIDE DEF idle
  <1>6. /\ mat'[d] = old.next /\ sess'[d] = old.user /\ owner'[d] = old.user
        /\ step'[d] = idle
        /\ \A e \in Browser : e # d =>
             /\ mat'[e] = mat[e] /\ sess'[e] = sess[e] /\ step'[e] = step[e]
             /\ owner'[e] = owner[e]
    BY <1>3 DEF OpenInv, TablesTyped, KeysInv, KeysTyped
  <1>7. BrowserInv(account, old.next, old.user, old.user, notes[d], rest[d], idle)
    <2>1. OpenedBy(notes[d], rest[d], old.next)
      BY <1>1 DEF BrowserInv, Adopting
    <2>2. old.next # None /\ Fits(old.next, old.user)
      BY <1>1, <1>2, NoneAssumption DEF Fits, Belongs
    <2>3. OpenNow(account, old.next, old.user, notes[d], rest[d])
      BY <2>1, <2>2 DEF OpenNow, OpenedBy, AtHand
    <2> QED BY <1>1, <1>5, <2>2, <2>3
            DEF BrowserInv, InSession, Migrating, Adopting, Prepared
  <1> QED BY <1>3, <1>4, <1>6, <1>7, BrowserOpens

(* A saved note, and the copies beside it, are sealed by the material stored. *)
LEMMA EditOpens ==
    ASSUME KeysInv, OpenInv, KeysInv', NEW d \in Browser, Edit(d)
    PROVE  OpenInv'
  <1> DEFINE m == Stored(d)
  <1>1. /\ step[d].at = "idle" /\ AllOpen(d, m)
        /\ BrowserInv(account, mat[d], sess[d], owner[d], notes[d], rest[d],
                   step[d])
        /\ notes[d] \in [Record -> Note \union {None}]
        /\ rest[d] \in Envelope \union {None}
    BY HereOpen DEF Edit, AtRest
  <1>2. m \in Sealing /\ GoodMat(account, m)
    <2>1. m.kind # "password" \/ "touch" \in Loose
      BY DEF Edit, MayWrite, OnPassword, Stored, KeyringMaterial
    <2> QED BY <2>1, StoredGood DEF Sealing, Material, PasswordKey
  <1>3. Fits(m, owner[d])
    BY <1>1 DEF BrowserInv, Fits, Stored, KeyringMaterial
  <1>4. sess[d] # NoOne => owner[d] = sess[d]
    BY <1>1 DEF BrowserInv, InSession
  <1>5. /\ mat' = [mat EXCEPT ![d] = m]
        /\ UNCHANGED <<account, shelf, sess, owner, step>>
    BY DEF Edit, MakeStored, server
  <1> HIDE DEF m
  <1>6. Seal(m) \in Envelope /\ GoodEnv(account, Seal(m)) /\ Reads(m, Seal(m))
    BY <1>2, SealGood
  <1>7. OpenedBy(notes[d], rest[d], m)
    BY <1>1, HeldOpens
  <1>8. ASSUME NEW r \in Record
        PROVE  /\ Ensured(d, m)[r] \in Note \union {None}
               /\ Ensured(d, m)[r] # None =>
                    /\ GoodEnv(account, Ensured(d, m)[r].env)
                    /\ Reads(m, Ensured(d, m)[r].env)
    <2>1. CASE audit[d]
      BY <1>1, <1>7, <2>1 DEF Ensured, BrowserInv, Sound, OpenedBy
    <2>2. CASE ~audit[d]
      BY <1>1, <1>2, <2>2, ResealedGood DEF Ensured
    <2> QED BY <2>1, <2>2
  <1>9. PICK r \in Record :
          notes' = [notes EXCEPT ![d] = [Ensured(d, m) EXCEPT ![r] =
            [env |-> Seal(m), status |-> "pending",
             base |-> IF notes[d][r] = None THEN 0 ELSE notes[d][r].base]]]
    BY DEF Edit, m
  <1> DEFINE new == [env |-> Seal(m), status |-> "pending",
               base |-> IF notes[d][r] = None THEN 0 ELSE notes[d][r].base]
             n == [Ensured(d, m) EXCEPT ![r] = new]
  <1>10. new \in Note /\ new.env = Seal(m)
    <2>1. (IF notes[d][r] = None THEN 0 ELSE notes[d][r].base) \in Nat
      BY <1>1 DEF Note
    <2> QED BY <1>6, <2>1 DEF Note
  <1> HIDE DEF new
  <1>11. \A q \in Record : n[q] = IF q = r THEN new ELSE Ensured(d, m)[q]
    BY DEF Ensured
  <1>12. n \in [Record -> Note \union {None}]
    <2>1. n = [q \in Record |-> IF q = r THEN new ELSE Ensured(d, m)[q]]
      BY DEF Ensured
    <2> QED BY <1>8, <1>10, <2>1
  <1>13. notes' = [notes EXCEPT ![d] = n]
    BY <1>9 DEF new
  <1> HIDE DEF n
  <1>14. PICK s \in {rest[d], Seal(m)} : rest' = [rest EXCEPT ![d] = s]
    BY DEF Edit, OpenInv, TablesTyped, m
  <1>15. s \in Envelope \union {None}
    BY <1>1, <1>6, <1>14
  <1>16. Sound(account, n, s)
    BY <1>1, <1>6, <1>8, <1>10, <1>11, <1>14 DEF Sound, BrowserInv
  <1>17. OpenedBy(n, s, m)
    BY <1>6, <1>7, <1>8, <1>10, <1>11, <1>14 DEF OpenedBy
  <1>18. TablesTyped'
    BY <1>5, <1>12, <1>13, <1>15, <1>14 DEF OpenInv, TablesTyped
  <1>19. /\ mat'[d] = m /\ notes'[d] = n /\ rest'[d] = s
         /\ \A e \in Browser : e # d =>
             /\ mat'[e] = mat[e] /\ notes'[e] = notes[e] /\ rest'[e] = rest[e]
    BY <1>5, <1>13, <1>14 DEF OpenInv, TablesTyped, KeysInv, KeysTyped
  <1>20. BrowserInv(account, m, sess[d], owner[d], n, s, step[d])
    <2>1. m # None
      BY <1>2, NoneAssumption DEF Sealing
    <2>2. OpenNow(account, m, owner[d], n, s)
      BY <1>17, <2>1 DEF OpenNow, OpenedBy, AtHand
    <2> QED BY <1>1, <1>3, <1>4, <1>16, <2>2
            DEF BrowserInv, InSession, Migrating, Adopting, Prepared
  <1> QED BY <1>5, <1>18, <1>19, <1>20, BrowserOpens

(* What a pass pushes and what it takes opens with the account's key; the
   browser's own material is that key, or a password the key remembers. *)
LEMMA SyncOpens ==
    ASSUME KeysInv, OpenInv, KeysInv', NEW d \in Browser, Sync(d)
    PROVE  OpenInv'
  <1> DEFINE u == sess[d]
             m == mat[d]
             mine == Ensured(d, m)
             Accepted(r) == mine[r] # None /\ mine[r].status = "pending"
                              /\ mine[r].base = shelf[u][r].ver
             after == [r \in Record |->
               IF Accepted(r)
               THEN [env |-> mine[r].env, ver |-> shelf[u][r].ver + 1]
               ELSE shelf[u][r]]
             Takes(r) == after[r].ver > 0
               /\ (mine[r] = None \/ mine[r].status = "synced" \/ Accepted(r))
             n == [r \in Record |->
               IF Takes(r) THEN [env |-> after[r].env, status |-> "synced",
                                 base |-> after[r].ver]
               ELSE mine[r]]
  <1>1. /\ shelf' = [shelf EXCEPT ![u] = after]
        /\ notes' = [notes EXCEPT ![d] = n]
        /\ UNCHANGED <<account, mat, sess, owner, rest, step>>
        /\ step[d].at = "idle" /\ u # NoOne
    BY DEF Sync, AtRest
  <1>2. /\ BrowserInv(account, m, u, owner[d], notes[d], rest[d], step[d])
        /\ notes[d] \in [Record -> Note \union {None}]
        /\ rest[d] \in Envelope \union {None}
        /\ account \in Accounts
        /\ shelf[u] \in [Record -> Row]
        /\ GoodShelf(account, shelf)
        /\ u \in Account
    BY <1>1, HereOpen, Here DEF OpenInv, TablesTyped, Readable, KeysInv, KeysTyped
  <1>3. m # None /\ m \in Material /\ m.of = u
    BY <1>1, Here DEF GoodSess
  <1>4. m \in Sealing
    <2>1. m.kind # "password" \/ "touch" \in Loose
      BY <1>3 DEF Sync, MayWrite, OnPassword
    <2> QED BY <1>3, <2>1 DEF Sealing, Material, PasswordKey
  <1>5. Belongs(account, u, m) /\ GoodMat(account, m) /\ KeyringsFit(account)
    BY <1>1, <1>3, Here DEF GoodMat, KeysInv, KeysAgree
  <1> DEFINE k == Key(account, u)
  <1>6. account[u].made /\ owner[d] = u
    BY <1>1, <1>2, <1>5 DEF Belongs, BrowserInv, InSession
  <1>7. ASSUME NEW e \in Envelope, GoodEnv(account, e),
               AtHand(account, m, owner[d], e) \/ Reads(m, e)
        PROVE  Reads(k, e)
    <2>1. CASE Reads(m, e)
      BY <1>2, <1>3, <1>5, <1>7, <2>1, KeyReads
    <2>2. CASE Reachable(account, owner[d], e)
      BY <1>1, <1>6, <2>2 DEF Reachable
    <2> QED BY <1>7, <2>1, <2>2 DEF AtHand
  <1>8. ASSUME NEW r \in Record
        PROVE  /\ mine[r] \in Note \union {None}
               /\ mine[r] # None =>
                    GoodEnv(account, mine[r].env) /\ Reads(k, mine[r].env)
    <2>1. CASE audit[d]
      <3>1. mine[r] = notes[d][r]
        BY <2>1 DEF Ensured
      <3>2. notes[d][r] # None => notes[d][r].env \in Envelope
        BY <1>2 DEF Note
      <3>3. OpenNow(account, m, owner[d], notes[d], rest[d])
              /\ Sound(account, notes[d], rest[d])
        BY <1>1, <1>2 DEF BrowserInv
      <3> QED BY <1>2, <1>7, <3>1, <3>2, <3>3 DEF Sound, OpenNow
    <2>2. CASE ~audit[d]
      <3>1. mine[r] = Resealed(notes[d][r], m)
        BY <2>2 DEF Ensured
      <3>2. /\ mine[r] \in Note \union {None}
            /\ mine[r] # None =>
                 GoodEnv(account, mine[r].env) /\ Reads(m, mine[r].env)
        BY <1>2, <1>4, <1>5, <3>1, ResealedGood
      <3>3. mine[r] # None => mine[r].env \in Envelope
        BY <3>2 DEF Note
      <3> QED BY <1>7, <3>2, <3>3
    <2> QED BY <2>1, <2>2
  <1> HIDE DEF mine, m, u, k
  <1>9. ASSUME NEW r \in Record
        PROVE  /\ after[r] \in Row
               /\ after[r].ver > 0 =>
                    /\ after[r].env \in Envelope
                    /\ GoodEnv(account, after[r].env)
                    /\ Reads(k, after[r].env)
    <2>1. CASE Accepted(r)
      <3>1. /\ mine[r] \in Note /\ mine[r].env \in Envelope
            /\ shelf[u][r].ver \in Nat
        BY <1>2, <1>8, <2>1 DEF Note, Row
      <3>2. after[r] = [env |-> mine[r].env, ver |-> shelf[u][r].ver + 1]
        BY <2>1
      <3>3. after[r] \in Row /\ after[r].env = mine[r].env
        BY <3>1, <3>2 DEF Row
      <3> HIDE DEF after
      <3> QED BY <1>8, <2>1, <3>1, <3>3
    <2>2. CASE ~Accepted(r)
      <3>1. after[r] = shelf[u][r]
        BY <2>2
      <3> HIDE DEF after
      <3> QED BY <1>2, <3>1 DEF GoodShelf, k
    <2> QED BY <2>1, <2>2
  <1>10. after \in [Record -> Row]
    <2>1. after = [r \in Record |-> after[r]]
      OBVIOUS
    <2> QED BY <1>9, <2>1
  <1>11. ASSUME NEW r \in Record
         PROVE  /\ n[r] \in Note \union {None}
                /\ n[r] # None =>
                     GoodEnv(account, n[r].env) /\ Reads(k, n[r].env)
    <2>1. CASE Takes(r)
      <3>1. n[r] = [env |-> after[r].env, status |-> "synced",
                    base |-> after[r].ver]
        BY <2>1
      <3>2. after[r].env \in Envelope /\ after[r].ver \in Nat
        BY <1>9, <2>1 DEF Row
      <3>3. n[r] \in Note /\ n[r].env = after[r].env
        BY <3>1, <3>2 DEF Note
      <3> QED BY <1>9, <2>1, <3>3
    <2>2. CASE ~Takes(r)
      <3>1. n[r] = mine[r]
        BY <2>2
      <3> QED BY <1>8, <3>1
    <2> QED BY <2>1, <2>2
  <1>12. n \in [Record -> Note \union {None}]
    <2>1. n = [r \in Record |-> n[r]]
      OBVIOUS
    <2> QED BY <1>11, <2>1
  <1> HIDE DEF after, n
  <1>13. /\ shelf'[u] = after
         /\ \A v \in Account : v # u => shelf'[v] = shelf[v]
         /\ notes'[d] = n /\ \A e \in Browser : e # d => notes'[e] = notes[e]
    BY <1>1, <1>2 DEF OpenInv, TablesTyped, u
  <1>14. TablesTyped'
    BY <1>1, <1>10, <1>12 DEF OpenInv, TablesTyped, u
  <1>15. GoodShelf(account', shelf')
    BY <1>1, <1>2, <1>6, <1>9, <1>13 DEF GoodShelf, k
  <1>16. BrowserInv(account, mat[d], sess[d], owner[d], n, rest[d], step[d])
    <2>1. Sound(account, n, rest[d])
      BY <1>2, <1>11 DEF Sound, BrowserInv
    <2>2. \A r \in Record : n[r] # None => AtHand(account, mat[d], owner[d], n[r].env)
      BY <1>2, <1>6, <1>11 DEF AtHand, Reachable, k
    <2>3. OpenNow(account, mat[d], owner[d], n, rest[d])
      BY <1>1, <1>2, <2>2 DEF OpenNow, BrowserInv, m
    <2> QED BY <1>1, <1>2, <2>1, <2>3
            DEF BrowserInv, InSession, Migrating, Adopting, Prepared, m, u
  <1>17. AccountsGrow(account, account')
    BY <1>1, <1>2, SameAccounts
  <1> QED BY <1>1, <1>13, <1>14, <1>15, <1>16, <1>17, OneOpens

LEMMA ChangePasswordOpens ==
    ASSUME KeysInv, OpenInv, KeysInv', Safe, NEW d \in Browser, ChangePassword(d)
    PROVE  OpenInv'
  <1> DEFINE u == sess[d]
             wrap == Wrap(account[u].pw + 1, mat[d])
  <1>1. /\ UNCHANGED <<shelf, mat, sess, owner, notes, rest, step>>
        /\ account' = [account EXCEPT ![u].pw = account[u].pw + 1,
                                      ![u].keyring = wrap]
    BY DEF ChangePassword, workspace, NewCredentials, Rewrapped
  <1>2. account[u].keyring # None
    <2>1. mat[d] # None /\ u # NoOne /\ mat[d].of = u /\ mat[d].kind = "keyring"
      BY Here DEF ChangePassword, IsSync, GoodSess
    <2> QED BY <2>1, Here DEF GoodMat, Belongs
  <1>3. account \in Accounts /\ account' \in Accounts
    BY DEF KeysInv, KeysTyped
  <1> HIDE DEF wrap, u
  <1>4. AccountsGrow(account, account')
    <2>1. ASSUME NEW v \in Account, account[v].keyring = None
          PROVE  PasswordMaterial(v, account[v].pw) \in Key(account', v).legacy
      <3>1. account'[v] = account[v]
        BY <1>1, <1>2, <1>3, <2>1 DEF Accounts
      <3> QED BY <2>1, <3>1 DEF Key, KeyringMaterial
    <2> QED BY <2>1 DEF Safe, AccountsGrow
  <1>5. GoodShelf(account', shelf')
    BY <1>1, <1>3, <1>4, ShelfGrows DEF OpenInv, Readable
  <1>6. BrowserInv(account', mat[d], sess[d], owner[d], notes[d], rest[d], step[d])
    BY <1>3, <1>4, HereOpen, BrowserGrows
  <1> QED BY <1>1, <1>4, <1>5, <1>6, TablesStay, OneOpens

LEMMA ExpireSessionOpens ==
    ASSUME KeysInv, OpenInv, KeysInv', NEW d \in Browser, ExpireSession(d)
    PROVE  OpenInv'
  <1>1. /\ sess' = [sess EXCEPT ![d] = NoOne]
        /\ UNCHANGED <<account, shelf, mat, owner, notes, rest, step>>
    BY DEF ExpireSession, server, workspace
  <1>2. sess'[d] = NoOne /\ \A e \in Browser : e # d => sess'[e] = sess[e]
    BY <1>1 DEF KeysInv, KeysTyped
  <1>3. BrowserInv(account, mat[d], NoOne, owner[d], notes[d], rest[d], step[d])
    BY HereOpen DEF BrowserInv, InSession
  <1> QED BY <1>1, <1>2, <1>3, TablesStay, BrowserOpens

LEMMA LogoutOpens ==
    ASSUME KeysInv, OpenInv, KeysInv', NEW d \in Browser, Logout(d)
    PROVE  OpenInv'
  <1>1. /\ sess' = [sess EXCEPT ![d] = NoOne]
        /\ mat' = [mat EXCEPT ![d] = None]
        /\ UNCHANGED <<account, shelf, owner, notes, rest, step>>
        /\ sess[d] # NoOne
    BY DEF Logout, workspace
  <1>2. /\ sess'[d] = NoOne /\ mat'[d] = None
        /\ \A e \in Browser : e # d => sess'[e] = sess[e] /\ mat'[e] = mat[e]
    BY <1>1 DEF KeysInv, KeysTyped
  <1>3. /\ BrowserInv(account, mat[d], sess[d], owner[d], notes[d], rest[d],
                   step[d])
        /\ notes[d] \in [Record -> Note \union {None}]
        /\ rest[d] \in Envelope \union {None}
    BY HereOpen
  <1>4. /\ mat[d] \in Material /\ sess[d] \in Account
        /\ Belongs(account, sess[d], mat[d])
        /\ account \in Accounts /\ KeyringsFit(account)
    BY <1>1, Here DEF GoodSess, GoodMat, KeysInv, KeysTyped, KeysAgree
  <1>5. OpenNow(account, None, owner[d], notes[d], rest[d])
    <2>1. owner[d] = sess[d] /\ OpenNow(account, mat[d], owner[d], notes[d], rest[d])
      BY <1>1, <1>3 DEF BrowserInv, InSession
    <2> QED BY <1>3, <1>4, <2>1, Forgotten DEF BrowserInv
  <1>6. BrowserInv(account, None, NoOne, owner[d], notes[d], rest[d], step[d])
    BY <1>1, <1>3, <1>5
      DEF BrowserInv, InSession, Adopting, Prepared, Fits
  <1> QED BY <1>1, <1>2, <1>6, TablesStay, BrowserOpens

(* A browser that is stopped inside an adoption is left with tables of which
   the stored material opens some and one signing in brings the others back. *)
LEMMA RestartOpens ==
    ASSUME KeysInv, OpenInv, KeysInv', NEW d \in Browser, Restart(d)
    PROVE  OpenInv'
  <1> DEFINE old == step[d]
             idle == [at |-> "idle"]
             m == IF d \in session /\ IsSync(mat[d]) THEN None ELSE mat[d]
             u == IF IsSync(m) THEN sess[d] ELSE NoOne
  <1>1. mat' = [mat EXCEPT ![d] = m] /\ mat'[d] = m
    BY DEF Restart, KeysInv, KeysTyped
  <1>2. /\ sess' = [sess EXCEPT ![d] = u]
        /\ step' = [step EXCEPT ![d] = idle]
        /\ UNCHANGED <<account, shelf, owner, notes, rest>>
    BY <1>1 DEF Restart, GoIdle, server, workspace, IsSync
  <1>3. idle.at = "idle"
    OBVIOUS
  <1>4. /\ BrowserInv(account, mat[d], sess[d], owner[d], notes[d], rest[d], old)
        /\ notes[d] \in [Record -> Note \union {None}]
        /\ rest[d] \in Envelope \union {None}
        /\ mat[d] \in Material \union {None} /\ GoodMat(account, mat[d])
        /\ old \in Steps /\ GoodStep(account, old)
        /\ account \in Accounts /\ KeyringsFit(account)
    BY HereOpen, Here DEF KeysInv, KeysTyped, KeysAgree
  <1>5. OpenNow(account, mat[d], owner[d], notes[d], rest[d])
    <2>1. CASE old.at \notin {"rest", "commit"}
      BY <1>4, <2>1 DEF BrowserInv
    <2>2. CASE old.at \in {"rest", "commit"}
      <3>1. /\ old.next \in Material /\ old.user \in Account
            /\ Belongs(account, old.user, old.next)
        BY <1>4, <2>2 DEF Steps, GoodStep, Prepared
      <3>2. /\ OpenedBy(notes[d], None, old.next)
            /\ rest[d] # None =>
                 Reads(old.from, rest[d]) \/ Reads(old.next, rest[d])
            /\ old.from \in {mat[d], old.next}
        BY <1>4, <2>2 DEF BrowserInv, Adopting, OpenedBy
      <3>3. Empty(notes[d], rest[d]) \/ owner[d] \in {old.user, NoOne}
        BY <1>4, <2>2 DEF BrowserInv, Adopting
      <3>4. ASSUME NEW e \in Envelope, GoodEnv(account, e),
                   owner[d] \in {old.user, NoOne}, Reads(old.next, e)
            PROVE  AtHand(account, mat[d], owner[d], e)
        BY <1>4, <3>1, <3>4, Recover DEF AtHand
      <3>5. ASSUME NEW r \in Record, notes[d][r] # None
            PROVE  AtHand(account, mat[d], owner[d], notes[d][r].env)
        <4>1. notes[d][r].env \in Envelope /\ GoodEnv(account, notes[d][r].env)
          BY <1>4, <3>5 DEF Note, BrowserInv, Sound
        <4> QED BY <3>2, <3>3, <3>4, <3>5, <4>1 DEF OpenedBy, Empty
      <3>6. ASSUME rest[d] # None
            PROVE  AtHand(account, mat[d], owner[d], rest[d])
        <4>1. rest[d] \in Envelope /\ GoodEnv(account, rest[d])
          BY <1>4, <3>6 DEF BrowserInv, Sound
        <4>2. CASE Reads(old.next, rest[d])
          BY <3>3, <3>4, <3>6, <4>1, <4>2 DEF Empty
        <4>3. CASE Reads(mat[d], rest[d]) /\ mat[d] # None
          BY <4>3 DEF AtHand
        <4>4. CASE mat[d] = None /\ old.from = mat[d] /\ Reads(old.from, rest[d])
          <5>1. old.from \in Material
            BY <1>4, <2>2 DEF Steps
          <5> QED BY <4>4, <5>1, NoneAssumption
        <4> QED BY <3>2, <3>6, <4>2, <4>3, <4>4
      <3> QED BY <3>5, <3>6 DEF OpenNow
    <2> QED BY <2>1, <2>2
  <1>6. OpenNow(account, m, owner[d], notes[d], rest[d])
    <2>1. CASE m = mat[d]
      BY <1>5, <2>1
    <2>2. CASE m # mat[d]
      <3>1. m = None /\ IsSync(mat[d])
        BY <2>2
      <3>2. mat[d] \in Material /\ mat[d].of \in Account
        BY <1>4, <3>1, KeyringAssumption
          DEF IsSync, Material, PasswordKey, KeyringKey
      <3>3. Belongs(account, mat[d].of, mat[d])
        BY <1>4, <3>1, <3>2, KeyringAssumption, NoneAssumption DEF GoodMat
      <3>4. owner[d] \in {mat[d].of, NoOne}
        BY <1>4, <3>2, KeyringAssumption, NoneAssumption DEF BrowserInv, Fits
      <3> HIDE DEF m
      <3> QED BY <1>4, <1>5, <3>1, <3>2, <3>3, <3>4, Forgotten DEF BrowserInv
    <2> QED BY <2>1, <2>2
  <1>7. Fits(m, owner[d])
    BY <1>4 DEF BrowserInv, Fits
  <1>8. u # NoOne => old.at = "idle" /\ owner[d] = u
    BY <1>4 DEF BrowserInv, InSession, IsSync
  <1> HIDE DEF idle, m, u
  <1>9. BrowserInv(account, m, u, owner[d], notes[d], rest[d], idle)
    BY <1>3, <1>4, <1>6, <1>7, <1>8
      DEF BrowserInv, InSession, Migrating, Adopting, Prepared
  <1>10. /\ sess'[d] = u /\ step'[d] = idle
         /\ \A e \in Browser : e # d =>
              mat'[e] = mat[e] /\ sess'[e] = sess[e] /\ step'[e] = step[e]
    BY <1>1, <1>2 DEF KeysInv, KeysTyped
  <1> QED BY <1>1, <1>2, <1>9, <1>10, TablesStay, BrowserOpens

(***************************************************************************)
(* Every step, and the theorems about reading.                             *)
(***************************************************************************)
LEMMA OpenInitially == KeyringInit => OpenInv
  <1> SUFFICES ASSUME KeyringInit PROVE OpenInv
    OBVIOUS
  <1> USE UserOfType, KeyringAssumption, NoneAssumption
  <1>1. ASSUME NEW u \in Legacy
        PROVE  /\ Old(u) \in Envelope
               /\ GoodEnv(account, Old(u))
               /\ Reads(Key(account, u), Old(u))
               /\ Reads(PasswordMaterial(u, 1), Old(u))
    <2> DEFINE p == PasswordMaterial(u, 1)
    <2>1. p \in PasswordKey /\ p.of = u
      BY DEF PasswordMaterial, PasswordKey
    <2>2. account[u].made /\ account[u].pw = 1 /\ account[u].keyring = None
      BY DEF KeyringInit
    <2>3. Key(account, u).legacy = {p} /\ Key(account, u).kind = "keyring"
      BY <2>2 DEF Key, KeyringMaterial
    <2> HIDE DEF p
    <2>4. Old(u) \in Envelope /\ Old(u).by = p /\ Old(u).ver = 3
      BY <2>1 DEF Old, Envelope, Material, p
    <2>5. GoodEnv(account, Old(u))
      BY <2>1, <2>2, <2>3, <2>4 DEF GoodEnv
    <2> QED BY <2>3, <2>4, <2>5 DEF Opens, Reads, p
  <1>2. \A d \in Browser : UserOf(d) # NoOne => UserOf(d) \in Legacy
    BY DEF UserOf
  <1>3. TablesTyped
    <2>1. notes \in [Browser -> [Record -> Note \union {None}]]
      <3>1. ASSUME NEW d \in Browser, UserOf(d) # NoOne
            PROVE  [env |-> Old(UserOf(d)), status |-> "synced", base |-> 1]
                     \in Note
        BY <1>1, <1>2, <3>1 DEF Note
      <3> QED BY <3>1 DEF KeyringInit
    <2>2. shelf \in [Account -> [Record -> Row]]
      <3>1. ASSUME NEW u \in Legacy
            PROVE  [env |-> Old(u), ver |-> 1] \in Row
        BY <1>1, <3>1 DEF Row
      <3>2. [env |-> None, ver |-> 0] \in Row
        BY DEF Row
      <3> QED BY <3>1, <3>2 DEF KeyringInit
    <2> QED BY <2>1, <2>2 DEF KeyringInit, TablesTyped
  <1>4. GoodShelf(account, shelf)
    <2> SUFFICES ASSUME NEW u \in Account, NEW r \in Record,
                        shelf[u][r].ver > 0
                 PROVE  /\ account[u].made
                        /\ shelf[u][r].env \in Envelope
                        /\ GoodEnv(account, shelf[u][r].env)
                        /\ Reads(Key(account, u), shelf[u][r].env)
      BY DEF GoodShelf
    <2> DEFINE first == [env |-> Old(u), ver |-> 1]
               empty == [env |-> None, ver |-> 0]
    <2>3. shelf[u][r] = IF u \in Legacy /\ r = FirstRecord THEN first ELSE empty
      BY DEF KeyringInit
    <2>2. first.env = Old(u) /\ empty.ver = 0
      OBVIOUS
    <2> HIDE DEF first, empty
    <2>1. u \in Legacy /\ shelf[u][r].env = Old(u) /\ account[u].made
      <3>1. u \in Legacy /\ shelf[u][r] = first
        BY <2>3, <2>2
      <3> QED BY <2>2, <3>1 DEF KeyringInit
    <2> QED BY <1>1, <2>1
  <1>5. ASSUME NEW d \in Browser
        PROVE  BrowserInv(account, mat[d], sess[d], owner[d], notes[d], rest[d],
                       step[d])
    <2>1. /\ rest[d] = None /\ owner[d] = UserOf(d) /\ sess[d] = UserOf(d)
          /\ step[d].at = "idle"
      BY DEF KeyringInit
    <2>2. CASE UserOf(d) = NoOne
      <3>1. mat[d] = None /\ Empty(notes[d], rest[d])
        BY <2>1, <2>2 DEF KeyringInit, Empty
      <3> QED BY <2>1, <2>2, <3>1
              DEF BrowserInv, InSession, Migrating, Adopting, Prepared, OpenNow,
                  Fits, Sound, Empty
    <2>3. CASE UserOf(d) # NoOne
      <3> DEFINE p == PasswordMaterial(UserOf(d), 1)
      <3>1. \A r \in Record : notes[d][r] # None =>
                notes[d][r].env = Old(UserOf(d))
        BY <2>3 DEF KeyringInit
      <3>2. mat[d] = p /\ p # None /\ p.of = UserOf(d)
        <4>1. p \in Material
          BY <1>2, <2>3 DEF Material, PasswordKey, PasswordMaterial
        <4>2. mat[d] = p /\ p.of = UserOf(d)
          BY <2>3 DEF KeyringInit, PasswordMaterial
        <4> QED BY <4>1, <4>2
      <3> HIDE DEF p
      <3>3. OpenedBy(notes[d], rest[d], p) /\ Sound(account, notes[d], rest[d])
        BY <1>1, <1>2, <2>1, <2>3, <3>1 DEF OpenedBy, Sound, p
      <3>4. OpenNow(account, mat[d], owner[d], notes[d], rest[d])
        BY <3>2, <3>3 DEF OpenedBy, OpenNow, AtHand
      <3> QED BY <2>1, <3>2, <3>3, <3>4
              DEF BrowserInv, InSession, Migrating, Adopting, Prepared, Fits
    <2> QED BY <2>2, <2>3
  <1> QED BY <1>3, <1>4, <1>5 DEF OpenInv, Readable

LEMMA OpenStep ==
    ASSUME KeysInv, OpenInv, "otp" \notin Loose, [KeyringNext]_vars
    PROVE  OpenInv'
  <1>0. Safe /\ KeysInv'
    BY KeysStep DEF Safe
  <1>1. CASE UNCHANGED vars
    BY <1>1, UntouchedOpens DEF vars
  <1>2. ASSUME NEW d \in Browser, DeviceStep(d)
        PROVE  OpenInv'
    <2>1. ASSUME NEW u \in Account, Signup(d, u) PROVE OpenInv'
      BY <1>0, <2>1, SignupOpens
    <2>2. ASSUME NEW u \in Account, SignIn(d, u) PROVE OpenInv'
      BY <1>0, <2>2, SignInOpens
    <2>3. ASSUME NEW u \in Account, OtpSignIn(d, u) PROVE OpenInv'
      BY <1>0, <2>3, OtpSignInOpens
    <2>4. ASSUME NEW u \in Account, SessionEnds(u, d) PROVE OpenInv'
      BY <2>4, UntouchedOpens DEF SessionEnds, workspace
    <2>5. CASE Migrate(d)
      BY <1>0, <2>5, MigrateOpens
    <2>6. CASE PrepareRefused(d)
      BY <1>0, <2>6, PrepareRefusedOpens
    <2>7. CASE PrepareClears(d)
      BY <1>0, <2>7, PrepareClearsOpens
    <2>8. CASE Preflight(d)
      BY <1>0, <2>8, PreflightOpens
    <2>9. CASE ReencryptNotes(d)
      BY <1>0, <2>9, ReencryptNotesOpens
    <2>10. CASE ReencryptRest(d)
      BY <1>0, <2>10, ReencryptRestOpens
    <2>11. CASE Commit(d)
      BY <1>0, <2>11, CommitOpens
    <2>12. CASE Edit(d)
      BY <1>0, <2>12, EditOpens
    <2>13. CASE Sync(d)
      BY <1>0, <2>13, SyncOpens
    <2>14. CASE ChangePassword(d)
      BY <1>0, <2>14, ChangePasswordOpens
    <2>15. CASE SetStorageMode(d)
      BY <2>15, UntouchedOpens DEF SetStorageMode, server
    <2>16. CASE ExpireSession(d)
      BY <1>0, <2>16, ExpireSessionOpens
    <2>17. CASE Logout(d)
      BY <1>0, <2>17, LogoutOpens
    <2>18. CASE Restart(d)
      BY <1>0, <2>18, RestartOpens
    <2> QED BY <1>2, <2>1, <2>2, <2>3, <2>4, <2>5, <2>6, <2>7, <2>8, <2>9,
               <2>10, <2>11, <2>12, <2>13, <2>14, <2>15, <2>16, <2>17, <2>18
            DEF DeviceStep
  <1> QED BY <1>1, <1>2 DEF KeyringNext

(* Whatever a migration, a stopped adoption, a pass or a password change leaves
   behind, every envelope is of a remembered password, of a keyring in use, or
   written by a browser that was still on password material; and every adoption
   knows which tables are already its own. *)
THEOREM AlwaysReadable ==
    ASSUME "otp" \notin Loose
    PROVE  KeyringSpec => [](KeysInv /\ OpenInv)
  <1>1. KeyringInit => KeysInv /\ OpenInv
    BY KeysInitially, OpenInitially
  <1>2. KeysInv /\ OpenInv /\ [KeyringNext]_vars => KeysInv' /\ OpenInv'
    BY KeysStep, OpenStep DEF Safe
  <1> QED BY <1>1, <1>2, PTL DEF KeyringSpec

(* A note on the server that the account's keyring does not open was written by
   a browser that was still on password material, and the account has moved on:
   no other overlap of migrations, password changes, adoptions and syncs leaves
   one (updateUserE2eeKeyring, ensureLocalNotesEncrypted). *)
THEOREM UnreadableOnlyByPassword ==
    ASSUME "otp" \notin Loose
    PROVE  KeyringSpec => [](\A u \in Account, r \in Record :
             account[u].keyring # None /\ shelf[u][r].ver > 0 =>
               \/ Opens(account[u].keyring.holds, shelf[u][r].env)
               \/ shelf[u][r].env.ver = 4 /\ shelf[u][r].env.by \in PasswordKey)
  <1>1. KeysInv /\ OpenInv => \A u \in Account, r \in Record :
             account[u].keyring # None /\ shelf[u][r].ver > 0 =>
               \/ Opens(account[u].keyring.holds, shelf[u][r].env)
               \/ shelf[u][r].env.ver = 4 /\ shelf[u][r].env.by \in PasswordKey
    BY DEF OpenInv, Readable, GoodShelf, Key, Reads, Touched
  <1> QED BY <1>1, AlwaysReadable, PTL

(* So if browsers write with a keyring only, every note on the server opens
   with the account's keyring, whichever browser pushed it. What a browser on
   password material does is the window "touch", in which this is false. *)
THEOREM NotesAlwaysOpen ==
    ASSUME "otp" \notin Loose, "touch" \notin Loose
    PROVE  KeyringSpec => []NotesOpen
  <1>1. KeysInv /\ OpenInv => NotesOpen
    BY DEF OpenInv, Readable, GoodShelf, Key, Reads, Touched, NotesOpen
  <1> QED BY <1>1, AlwaysReadable, PTL

(* Under the same condition, each envelope in a browser's tables opens with
   what the browser stores or with what signing in to its owner's account
   brings, also when the page went between the tables of an adoption
   (adoptLocalWorkspaceForAccount, reencryptLocalNotes, Restart). *)
THEOREM WorkspaceAlwaysOpens ==
    ASSUME "otp" \notin Loose, "touch" \notin Loose
    PROVE  KeyringSpec => []WorkspaceOpens
  <1>1. KeysInv /\ OpenInv => WorkspaceOpens
    <2> SUFFICES ASSUME KeysInv, OpenInv, NEW d \in Browser, AtRest(d),
                        NEW e \in Held(d)
                 PROVE  \/ mat[d] # None /\ Opens(mat[d], e)
                        \/ \E u \in Account :
                             /\ account[u].made /\ owner[d] \in {u, NoOne}
                             /\ Opens(OnSignIn(u), e)
      BY DEF WorkspaceOpens
    <2>1. OpenNow(account, mat[d], owner[d], notes[d], rest[d])
      BY HereOpen DEF BrowserInv, AtRest
    <2>2. AtHand(account, mat[d], owner[d], e)
      BY <2>1 DEF OpenNow, Held
    <2>3. \A m : Reads(m, e) => Opens(m, e)
      BY DEF Reads, Touched
    <2>4. \A u \in Account : Key(account, u) = OnSignIn(u)
      BY DEF Key, OnSignIn
    <2> QED BY <2>2, <2>3, <2>4 DEF AtHand, Reachable
  <1> QED BY <1>1, AlwaysReadable, PTL

(***************************************************************************)
(* The type invariant: what is left is that the counters keep to their     *)
(* bounds.                                                                 *)
(***************************************************************************)
Bounded ==
    /\ \A u \in Account : account[u].pw \in 1..MaxPw
    /\ keys \in 0..MaxKeys
    /\ session \subseteq Browser

LEMMA BoundedStep ==
    ASSUME KeysInv, Bounded, [KeyringNext]_vars
    PROVE  Bounded'
  <1>0. account \in Accounts /\ keys \in Nat /\ MaxPw \in Nat /\ MaxKeys \in Nat
    BY KeyringAssumption DEF KeysInv, KeysTyped
  <1>1. CASE UNCHANGED vars
    BY <1>1 DEF vars, Bounded
  <1>2. ASSUME NEW d \in Browser, DeviceStep(d)
        PROVE  Bounded'
    <2>1. session' \subseteq Browser
      BY <1>2 DEF DeviceStep, Bounded, Signup, SignIn, OtpSignIn, SessionEnds,
           Migrate, PrepareRefused, PrepareClears, Preflight, ReencryptNotes,
           ReencryptRest, Commit, Edit, Sync, ChangePassword, SetStorageMode,
           ExpireSession, Logout, Restart, workspace
    <2>2. keys' \in 0..MaxKeys
      <3>1. CASE UNCHANGED keys
        BY <3>1 DEF Bounded
      <3>2. CASE keys < MaxKeys /\ keys' = keys + 1
        BY <1>0, <3>2
      <3>3. CASE MakeStored(d)
        BY <1>0, <3>3 DEF MakeStored
      <3> QED BY <1>2, <3>1, <3>2, <3>3
          DEF DeviceStep, Signup, SignIn, OtpSignIn, SessionEnds,
           Migrate, PrepareRefused, PrepareClears, Preflight, ReencryptNotes,
           ReencryptRest, Commit, Edit, Sync, ChangePassword, SetStorageMode,
           ExpireSession, Logout, Restart
    <2>3. \A u \in Account : account'[u].pw \in 1..MaxPw
      <3>1. CASE UNCHANGED account
        BY <3>1 DEF Bounded
      <3>2. ASSUME NEW u \in Account, Signup(d, u)
            PROVE  \A v \in Account : account'[v].pw \in 1..MaxPw
        <4> DEFINE written == [made |-> TRUE, pw |-> 1,
               keyring |-> Wrap(1, KeyringMaterial(keys + 1, u, {}))]
        <4>1. account' = [account EXCEPT ![u] = written] /\ written.pw = 1
          BY <3>2 DEF Signup
        <4> HIDE DEF written
        <4>2. account'[u] = written /\ \A v \in Account : v # u =>
                 account'[v] = account[v]
          BY <1>0, <4>1 DEF Accounts
        <4>3. 1 \in 1..MaxPw
          BY <1>0 DEF Bounded
        <4> QED BY <4>1, <4>2, <4>3 DEF Bounded
      <3>3. CASE Migrate(d)
        <4>1. PICK u \in Account :
                \/ UNCHANGED account
                \/ \E k : account' = [account EXCEPT ![u].keyring = k]
          <5>1. step[d].at = "migrate" /\ step[d] \in Steps
            BY <3>3, Here DEF Migrate
          <5>2. step[d].user \in Account
            BY <5>1 DEF Steps
          <5> QED BY <3>3, <5>2 DEF Migrate
        <4>2. \A v \in Account : account'[v].pw = account[v].pw
          BY <1>0, <4>1 DEF Accounts
        <4> QED BY <4>2 DEF Bounded
      <3>4. CASE ChangePassword(d)
        <4> DEFINE u == sess[d]
        <4>1. PICK k : account' = [account EXCEPT ![u].pw = account[u].pw + 1,
                                                  ![u].keyring = k]
          BY <3>4 DEF ChangePassword, NewCredentials
        <4>2. u \in Account /\ account[u].pw < MaxPw
          BY <3>4, Here DEF ChangePassword
        <4>3. account'[u].pw = account[u].pw + 1
                /\ \A v \in Account : v # u => account'[v] = account[v]
          BY <1>0, <4>1, <4>2 DEF Accounts
        <4>4. account[u].pw + 1 \in 1..MaxPw
          BY <1>0, <4>2 DEF Bounded
        <4> HIDE DEF u
        <4> QED BY <4>3, <4>4 DEF Bounded
      <3> QED BY <1>2, <3>1, <3>2, <3>3, <3>4
          DEF DeviceStep, SignIn, OtpSignIn, SessionEnds,
           PrepareRefused, PrepareClears, Preflight, ReencryptNotes,
           ReencryptRest, Commit, Edit, Sync, SetStorageMode,
           ExpireSession, Logout, Restart, server
    <2> QED BY <2>1, <2>2, <2>3 DEF Bounded
  <1> QED BY <1>1, <1>2 DEF KeyringNext

(* Storage, server and sign-ins hold what they should, and a stored session
   never outlives its material or its workspace's owner (setStoredSession,
   clearStoredSession). *)
THEOREM KeyringAlwaysTyped ==
    ASSUME "otp" \notin Loose, MaxPw >= 1
    PROVE  KeyringSpec => []KeyringTypeOK
  <1>1. KeyringInit => Bounded
    BY KeyringAssumption DEF KeyringInit, Bounded
  <1>2. KeysInv /\ Bounded /\ [KeyringNext]_vars => Bounded'
    BY BoundedStep
  <1>3. KeysInv /\ OpenInv /\ Bounded => KeyringTypeOK
    <2> SUFFICES ASSUME KeysInv, OpenInv, Bounded PROVE KeyringTypeOK
      OBVIOUS
    <2>1. \A u \in Account :
            /\ account[u].made \in BOOLEAN /\ account[u].pw \in 1..MaxPw
            /\ account[u].keyring \in WrappedKeyring \union {None}
      BY DEF KeysInv, KeysTyped, Accounts, Bounded
    <2>2. ASSUME NEW d \in Browser
          PROVE  /\ mat[d] = None \/ mat[d] \in Material
                 /\ sess[d] # NoOne => IsSync(mat[d]) /\ owner[d] = sess[d]
                 /\ rest[d] = None \/ rest[d] \in Envelope
                 /\ \A r \in Record : notes[d][r] # None => notes[d][r] \in Note
      BY Here, HereOpen DEF GoodSess, IsSync, BrowserInv, InSession
    <2>3. ASSUME NEW d \in Browser
          PROVE  step[d].at \in {"idle", "migrate", "prepare", "notes", "rest",
                                 "commit"}
      BY Here DEF Steps
    <2> QED BY <2>1, <2>2, <2>3 DEF KeyringTypeOK, Bounded, Note
  <1> QED BY <1>1, <1>2, <1>3, AlwaysReadable, PTL DEF KeyringSpec
==============================================================================
