------------------------------ MODULE Accounts ------------------------------
(***************************************************************************)
(* Accounts on a self-hosted server with a remote mirror: the users table, *)
(* the account tombstones and the owners' data of the local and the remote *)
(* database, the sessions (local only), the account routes of hono.ts that *)
(* change the remote first and bring the local side along, and the account *)
(* half of a mirror run (syncDatabases of remote-sync.ts).  Every database *)
(* statement between two awaits is a step of its own, so a route's steps,  *)
(* other routes and the run interleave.  Credentials and profile are       *)
(* version numbers; an owner's notes, devices and changes are one bit per  *)
(* side (Mirror.tla models what they contain).                             *)
(***************************************************************************)
EXTENDS Naturals, Sequences, FiniteSets

CONSTANTS User, Device,
          MaxRequests,     \* requests started in a behaviour
          MaxFailures,     \* lost connections to the remote, and server crashes
          Unguarded            \* {"signup"}: an account may also appear on the
                           \* remote between a run's copy of the users table
                           \* and its list of owners

(* The windows are these, and no user has the name that stands for "no one". *)
ASSUME AccountsBounds ==
  /\ Unguarded \subseteq {"signup"}
  /\ "none" \notin User

VARIABLES row,       \* row[s][u]: u's row of the users table of side s
          tomb,      \* tomb[s]: usernames in account_tombstones of side s
          data,      \* data[s]: owners with devices, notes or changes on side s
          sessionOf,      \* sessionOf[d]: the user whose session device d holds, on the local side
          req,       \* req[d]: the request of device d the server is handling
          run,       \* the mirror run in progress
          requests, failures

accountVars == <<row, tomb, data, sessionOf, req, run, requests, failures>>

Side == {"local", "remote"}
NoUser == "none"
NoRow == [cred |-> 0, prof |-> 0]
FirstRow == [cred |-> 1, prof |-> 1]
Version == 0 .. MaxRequests + 1
AccountRow == [cred : Version, prof : Version]

(* The steps of each route, in the order its handler takes them.  A route    *)
(* that needs a session syncs first and looks the session up again.          *)
LoginSteps == <<"authenticate", "enrolRemote", "read", "copy", "enrol", "session">>

\* Mutant of SignupSteps: the device is registered before the account is created.
SignupSteps_EnrolFirst == <<"enrolRemote", "create", "read", "copy", "enrol", "session">>
SignupSteps == <<"create", "enrolRemote", "read", "copy", "enrol", "session">>
ProfileSteps == <<"sync", "recheck", "change", "read", "copy", "sync">>
KeyringSteps == <<"sync", "change", "read", "copy", "sync">>
PasswordSteps == <<"sync", "recheck", "change", "sync", "read", "copy", "session">>
TotpSteps == <<"sync", "recheck", "change", "sync", "signOut">>
DeleteSteps == <<"sync", "recheck", "erase", "sync", "signOut">>
Plan == [login |-> LoginSteps, signup |-> SignupSteps, profile |-> ProfileSteps,
         keyring |-> KeyringSteps, password |-> PasswordSteps, totp |-> TotpSteps,
         delete |-> DeleteSteps, push |-> <<"write">>]
Kind == DOMAIN Plan

Idle == [kind |-> "none", user |-> NoUser, todo |-> <<>>, seen |-> NoRow]
NoRun == [step |-> "idle", pass |-> 0, tombs |-> {}, left |-> {}, users |-> {},
          copy |-> [u \in User |-> NoRow], ok |-> TRUE]

Has(s, u) == row[s][u] # NoRow
Users(s) == {u \in User : Has(s, u)}
At(d, step) == req[d].todo # <<>> /\ Head(req[d].todo) = step
AfterStep(d) == IF Len(req[d].todo) = 1 THEN Idle
            ELSE [req[d] EXCEPT !.todo = Tail(@)]
Advances(d) == req' = [req EXCEPT ![d] = AfterStep(d)]
Dropped(d) == req' = [req EXCEPT ![d] = Idle]
SignedOut(u) == [d \in Device |-> IF sessionOf[d] = u THEN NoUser ELSE sessionOf[d]]

----------------------------------------------------------------------------
(* Requests.                                                               *)

\* A request arrives; sessionFromRequest passed for those that need a session.
Start(d, kind, u) ==
  /\ req[d] = Idle /\ requests < MaxRequests
  /\ IF kind \in {"login", "signup"} THEN sessionOf[d] = NoUser ELSE sessionOf[d] = u
  /\ req' = [req EXCEPT ![d] = [kind |-> kind, user |-> u, todo |-> Plan[kind], seen |-> NoRow]]
  /\ requests' = requests + 1
  /\ UNCHANGED <<row, tomb, data, sessionOf, run, failures>>

\* authenticateUserProof on the remote: the account is there and the proof fits.
Authenticate(d) ==
  /\ At(d, "authenticate")
  /\ IF Has("remote", req[d].user) THEN Advances(d) ELSE Dropped(d)
  /\ UNCHANGED <<row, tomb, data, sessionOf, run, requests, failures>>

\* createInvitedUserAccount, one transaction on the remote: refused for a name
\* in use and for a deleted one.
Create(d) ==
  LET u == req[d].user IN
  /\ At(d, "create")
  /\ "signup" \in Unguarded \/ ~(run.pass # 2 /\ run.step \in {"copy", "owners"})
  /\ IF Has("remote", u) \/ u \in tomb["remote"]
     THEN Dropped(d) /\ UNCHANGED row
     ELSE /\ row' = [row EXCEPT !["remote"][u] = FirstRow]
          /\ Advances(d)
  /\ UNCHANGED <<tomb, data, sessionOf, run, requests, failures>>

\* upsertDevice (and trustAuthDevice) on the remote, then on the local side.
Enrol(d, step, s) ==
  /\ At(d, step)
  /\ data' = [data EXCEPT ![s] = @ \cup {req[d].user}]
  /\ Advances(d)
  /\ UNCHANGED <<row, tomb, sessionOf, run, requests, failures>>

\* mirrorUserForLocalSession reads the remote row ...
ReadRow(d) ==
  /\ At(d, "read")
  /\ IF Has("remote", req[d].user)
     THEN req' = [req EXCEPT ![d] = [AfterStep(d) EXCEPT !.seen = row["remote"][req[d].user]]]
     ELSE Dropped(d)
  /\ UNCHANGED <<row, tomb, data, sessionOf, run, requests, failures>>

\* ... and writes what it read to the local side, ending the sessions made
\* under other credentials.
CopyRow(d) ==
  LET u == req[d].user IN
  /\ At(d, "copy")
  /\ row' = [row EXCEPT !["local"][u] = req[d].seen]
  /\ sessionOf' = IF row["local"][u].cred # req[d].seen.cred THEN SignedOut(u) ELSE sessionOf
  /\ Advances(d)
  /\ UNCHANGED <<tomb, data, run, requests, failures>>

\* createAuthSession on the local side.
CreateSession(d) ==
  /\ At(d, "session")
  /\ sessionOf' = [sessionOf EXCEPT ![d] = req[d].user]
  /\ Advances(d)
  /\ UNCHANGED <<row, tomb, data, run, requests, failures>>

\* The second sessionFromRequest, after the first sync.
Recheck(d) ==
  /\ At(d, "recheck")
  /\ IF sessionOf[d] = req[d].user THEN Advances(d) ELSE Dropped(d)
  /\ UNCHANGED <<row, tomb, data, sessionOf, run, requests, failures>>

\* changeUserPassword and enable/disableUserTotp replace the credentials,
\* updateUserProfile and updateUserE2eeKeyring the rest, on the remote.
Changed(r, kind) ==
  IF kind \in {"password", "totp"} THEN [r EXCEPT !.cred = @ + 1]
  ELSE [r EXCEPT !.prof = @ + 1]

Change(d) ==
  LET u == req[d].user IN
  /\ At(d, "change")
  /\ IF Has("remote", u)
     THEN row' = [row EXCEPT !["remote"][u] = Changed(@, req[d].kind)] /\ Advances(d)
     ELSE Dropped(d) /\ UNCHANGED row
  /\ UNCHANGED <<tomb, data, sessionOf, run, requests, failures>>

\* deleteUserAccount, one transaction on the remote.
Erase(d) ==
  LET u == req[d].user IN
  /\ At(d, "erase")
  /\ IF Has("remote", u)
     THEN /\ tomb' = [tomb EXCEPT !["remote"] = @ \cup {u}]
          /\ row' = [row EXCEPT !["remote"][u] = NoRow]
          /\ data' = [data EXCEPT !["remote"] = @ \ {u}]
          /\ Advances(d)
     ELSE Dropped(d) /\ UNCHANGED <<row, tomb, data>>
  /\ UNCHANGED <<sessionOf, run, requests, failures>>

\* The route clears the cookie of the browser that asked.
SignOut(d) ==
  /\ At(d, "signOut")
  /\ sessionOf' = [sessionOf EXCEPT ![d] = NoUser]
  /\ Advances(d)
  /\ UNCHANGED <<row, tomb, data, run, requests, failures>>

\* A push that passed the session check writes the owner's records.
Push(d) ==
  /\ At(d, "write")
  /\ data' = [data EXCEPT !["local"] = @ \cup {req[d].user}]
  /\ Advances(d)
  /\ UNCHANGED <<row, tomb, sessionOf, run, requests, failures>>

\* The logout route, and a session that reaches its end.
LogoutRoute(d) ==
  /\ req[d] = Idle /\ sessionOf[d] # NoUser
  /\ sessionOf' = [sessionOf EXCEPT ![d] = NoUser]
  /\ UNCHANGED <<row, tomb, data, req, run, requests, failures>>

\* A handler throws (no remote, lost connection) and answers 503.
Fail(d) ==
  /\ req[d] # Idle /\ failures < MaxFailures
  /\ Dropped(d)
  /\ failures' = failures + 1
  /\ UNCHANGED <<row, tomb, data, sessionOf, run, requests>>

----------------------------------------------------------------------------
(* Mirror runs.                                                            *)

\* Mutant of Tombstones: a deletion both sides know of is not applied again.
Tombstones_NewOnly ==
  {x \in User \X Side : x[1] \notin tomb[x[2]] /\ \E s \in Side : x[1] \in tomb[s]}

\* syncAccountTombstones collects the tombstones of both sides, also those
\* both already have.
Tombstones == {<<u, s>> : u \in tomb["local"] \cup tomb["remote"], s \in Side}

RunStarted == [NoRun EXCEPT !.step = "tombs", !.tombs = Tombstones]

\* The queue's worker starts a run; a route's sync starts one or joins the one
\* in flight.
QueueRun ==
  /\ run.step = "idle"
  /\ run' = RunStarted
  /\ UNCHANGED <<row, tomb, data, sessionOf, req, requests, failures>>

SyncRoute(d) ==
  /\ At(d, "sync")
  /\ req' = [req EXCEPT ![d].todo = <<"wait">> \o Tail(@)]
  /\ run' = IF run.step = "idle" THEN RunStarted ELSE run
  /\ UNCHANGED <<row, tomb, data, sessionOf, requests, failures>>

\* The run is over: the requests that waited for it go on, or answer 503.
RunEnds(ok) ==
  /\ run' = [NoRun EXCEPT !.ok = ok]
  /\ req' = [d \in Device |->
               IF ~At(d, "wait") THEN req[d] ELSE IF ok THEN AfterStep(d) ELSE Idle]

\* applyAccountTombstone on one side, the local one first; deleteAuthUserData.
ApplyTombstone(u, s) ==
  /\ run.step = "tombs" /\ <<u, s>> \in run.tombs
  /\ s = "remote" => <<u, "local">> \notin run.tombs
  /\ run' = [run EXCEPT !.tombs = @ \ {<<u, s>>}]
  /\ tomb' = [tomb EXCEPT ![s] = @ \cup {u}]
  /\ row' = [row EXCEPT ![s][u] = NoRow]
  /\ data' = [data EXCEPT ![s] = @ \ {u}]
  /\ sessionOf' = IF s = "local" THEN SignedOut(u) ELSE sessionOf
  /\ UNCHANGED <<req, requests, failures>>

TombstonesDone ==
  /\ run.step = "tombs" /\ run.tombs = {}
  /\ run' = [run EXCEPT !.step = "check", !.left = Side]
  /\ UNCHANGED <<row, tomb, data, sessionOf, req, requests, failures>>

\* The checks read the two sides at the same time, in either order; users holds
\* the side read first.
Orphans(s) == data[s] \ Users(s)
Unexplained(s) == IF s = "remote" THEN run.users \ Users(s) ELSE Users(s) \ run.users

Check(s) ==
  /\ run.step = "check" /\ s \in run.left
  /\ \/ /\ Orphans(s) # {} \/ (Cardinality(run.left) = 1 /\ Unexplained(s) # {})
        /\ RunEnds(FALSE)
     \/ /\ Orphans(s) = {} /\ Cardinality(run.left) = 2
        /\ run' = [run EXCEPT !.left = @ \ {s}, !.users = Users(s)]
        /\ UNCHANGED req
     \/ /\ Orphans(s) = {} /\ Cardinality(run.left) = 1 /\ Unexplained(s) = {}
        /\ run' = [run EXCEPT !.step = "list", !.pass = 1, !.left = {}, !.users = {}]
        /\ UNCHANGED req
  /\ UNCHANGED <<row, tomb, data, sessionOf, requests, failures>>

\* syncUsers reads the source's users; only the passes from the remote copy them.
ListUsers ==
  /\ run.step = "list"
  /\ run' = IF run.pass = 2 THEN [run EXCEPT !.step = "owners"]
            ELSE [run EXCEPT !.step = "copy", !.copy = row["remote"], !.left = Users("remote")]
  /\ UNCHANGED <<row, tomb, data, sessionOf, req, requests, failures>>

\* Mutant of Written: the update leaves the keyring and profile columns out.
Written_CredentialsOnly(old, new) ==
  IF old = NoRow THEN new ELSE [old EXCEPT !.cred = new.cred]

\* putAuthUser for a row that differs, with the sessions of other credentials
\* revoked; a row the local side lacks is inserted as it is.
Written(old, new) == new

CopyUser(u) ==
  LET old == row["local"][u] IN
  /\ run.step = "copy" /\ u \in run.left
  /\ run' = [run EXCEPT !.left = @ \ {u}]
  /\ row' = [row EXCEPT !["local"][u] = Written(old, run.copy[u])]
  /\ sessionOf' = IF old # NoRow /\ old.cred # run.copy[u].cred THEN SignedOut(u) ELSE sessionOf
  /\ UNCHANGED <<tomb, data, req, requests, failures>>

UsersDone ==
  /\ run.step = "copy" /\ run.left = {}
  /\ run' = [run EXCEPT !.step = "owners", !.copy = NoRun.copy]
  /\ UNCHANGED <<row, tomb, data, sessionOf, req, requests, failures>>

\* syncOwners: every user of either side, read after the users were copied.
ListOwners ==
  /\ run.step = "owners"
  /\ run' = [run EXCEPT !.step = "data", !.left = Users("local") \cup Users("remote")]
  /\ UNCHANGED <<row, tomb, data, sessionOf, req, requests, failures>>

\* syncEntityOwnerOneWay: whether the source has changes beyond the cursor is
\* Mirror.tla's business, so an owner's data may or may not reach the target.
CopyData(u) ==
  LET from == IF run.pass = 2 THEN "local" ELSE "remote"
      to   == IF run.pass = 2 THEN "remote" ELSE "local" IN
  /\ run.step = "data" /\ u \in run.left
  /\ run' = [run EXCEPT !.left = @ \ {u}]
  /\ \/ u \in data[from] /\ data' = [data EXCEPT ![to] = @ \cup {u}]
     \/ UNCHANGED data
  /\ UNCHANGED <<row, tomb, sessionOf, req, requests, failures>>

PassDone ==
  /\ run.step = "data" /\ run.left = {}
  /\ IF run.pass < 3
     THEN run' = [run EXCEPT !.step = "list", !.pass = @ + 1] /\ UNCHANGED req
     ELSE RunEnds(TRUE)
  /\ UNCHANGED <<row, tomb, data, sessionOf, requests, failures>>

RunFails ==
  /\ run.step # "idle" /\ failures < MaxFailures
  /\ RunEnds(FALSE)
  /\ failures' = failures + 1
  /\ UNCHANGED <<row, tomb, data, sessionOf, requests>>

\* The server process ends with everything it was doing.
Crash ==
  /\ failures < MaxFailures
  /\ run.step # "idle" \/ \E d \in Device : req[d] # Idle
  /\ run' = [NoRun EXCEPT !.ok = FALSE]
  /\ req' = [d \in Device |-> Idle]
  /\ failures' = failures + 1
  /\ UNCHANGED <<row, tomb, data, sessionOf, requests>>

----------------------------------------------------------------------------
Init ==
  /\ row = [s \in Side |-> [u \in User |-> NoRow]]
  /\ data = [s \in Side |-> {}]
  /\ sessionOf = [d \in Device |-> NoUser]
  /\ tomb = [s \in Side |-> {}]
  /\ req = [d \in Device |-> Idle] /\ run = NoRun
  /\ requests = 0 /\ failures = 0

Handler(d) ==
  \/ Authenticate(d) \/ Create(d) \/ Enrol(d, "enrolRemote", "remote")
  \/ ReadRow(d) \/ CopyRow(d) \/ Enrol(d, "enrol", "local") \/ CreateSession(d)
  \/ Recheck(d) \/ Change(d) \/ Erase(d) \/ SignOut(d) \/ Push(d) \/ SyncRoute(d)

RunStep ==
  \/ \E u \in User : \/ \E s \in Side : ApplyTombstone(u, s)
                     \/ CopyUser(u) \/ CopyData(u)
  \/ TombstonesDone \/ (\E s \in Side : Check(s))
  \/ ListUsers \/ UsersDone \/ ListOwners \/ PassDone

Next ==
  \/ \E d \in Device : \/ \E kind \in Kind, u \in User : Start(d, kind, u)
                       \/ Handler(d) \/ LogoutRoute(d) \/ Fail(d)
  \/ QueueRun \/ RunStep \/ RunFails \/ Crash

\* A handler that has begun goes on, a run that has begun goes on, and the
\* clients' polling (every pull and note list queues a run) starts runs for ever.
AccountsSpec ==
  /\ Init /\ [][Next]_accountVars
  /\ \A d \in Device : WF_accountVars(Handler(d))
  /\ WF_accountVars(QueueRun) /\ WF_accountVars(RunStep)

----------------------------------------------------------------------------
(* Properties.                                                             *)

\* The variables hold values of their types, and a finished request is gone.
AccountsTypeOK ==
  /\ row \in [Side -> [User -> AccountRow]]
  /\ tomb \in [Side -> SUBSET User] /\ data \in [Side -> SUBSET User]
  /\ sessionOf \in [Device -> User \cup {NoUser}]
  /\ \A d \in Device : /\ req[d].kind \in Kind \cup {"none"} /\ req[d].seen \in AccountRow
                       /\ req[d].user \in User \cup {NoUser}
                       /\ req[d].todo = <<>> => req[d] = Idle
  /\ run.step \in {"idle", "tombs", "check", "list", "copy", "owners", "data"}
  /\ run.left \subseteq User \/ run.left \subseteq Side
  /\ requests \in 0 .. MaxRequests /\ failures \in 0 .. MaxFailures

\* Nothing the routes and the runs do, in any order and cut off anywhere, leaves
\* a state in which every later run would stop at its own checks: owner data
\* without an account row, and a local account the remote lacks, exist only
\* for names with a tombstone, which a run applies before it checks
\* (syncDatabases, remote-sync.ts).
MirrorNeverBlocked ==
  \A u \in User \ (tomb["local"] \cup tomb["remote"]) :
    /\ \A s \in Side : u \in data[s] => Has(s, u)
    /\ Has("local", u) => Has("remote", u)

\* A deleted account is in the end deleted on both sides with its data and its
\* sessions, and stays so: what sign-ins, pushes and runs that were under way
\* wrote after the deletion goes too (deleteUserAccount, applyAccountTombstone).
Erased(u) ==
  /\ \A s \in Side : u \notin data[s] /\ ~Has(s, u)
  /\ \A d \in Device : sessionOf[d] # u
DeletionCompletes ==
  \A u \in User : [](u \in tomb["remote"] => <>[]Erased(u))

\* Once the requests are done both sides agree on the account, however a change
\* of the remote row, a sign-in's copy of it and a run that had read an older
\* one overtook each other (mirrorUserForLocalSession, syncUsers).
AccountsAgree == \A u \in User : <>[](row["local"][u] = row["remote"][u])
=============================================================================
