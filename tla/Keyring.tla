------------------------------ MODULE Keyring ------------------------------
(* The keys of the web client: the key material a browser stores, the        *)
(* account keyring the server keeps wrapped under the password, and the      *)
(* steps that tie a browser's workspace to an account (sign-up, sign-in,     *)
(* migration of a password account, adoption, password change, sign-out).    *)
(* Encryption is modelled by which material sealed an envelope and which     *)
(* material can open it; the server is one database (Accounts has two).      *)
EXTENDS Integers, FiniteSets

CONSTANTS
  Account,     \* accounts of the server
  Browser,      \* browsers
  Record,      \* the records of the notes table
  Legacy,      \* accounts still on password material, with no keyring
  Otp,         \* accounts with two-factor sign-in enabled
  SessionOnly, \* browsers that start with account material in session storage
  NoOne,       \* no account
  None,        \* no material, no record, no keyring
  MaxPw,       \* bound: passwords an account goes through
  MaxKeys,     \* bound: data keys generated
  MaxEdits,    \* bound: edits
  MaxStops,    \* bound: crashes, restarts, lost replies and ended sessions
  Loose        \* windows left open: "otp", "touch" (see OtpSignIn, MayWrite)

ASSUME KeyringAssumption ==
  /\ Legacy \subseteq Account /\ Otp \subseteq Account
  /\ SessionOnly \subseteq Browser
  /\ NoOne \notin Account
  /\ {MaxPw, MaxKeys, MaxEdits, MaxStops} \subseteq Nat
  /\ Loose \subseteq {"otp", "touch"}

VARIABLES
  account,  \* users: [made, pw, keyring |-> None or [pw, holds]]
  shelf,    \* the server's notes: [Account -> [Record -> [env, ver]]]
  live,     \* auth_sessions: <<account, device>>
  trusted,  \* trusted_auth_devices whose secret the device still has
  mat,      \* the material in the browser's storage
  session,  \* browsers whose account material is forgotten with the session
  owner,    \* syncMeta: the account the workspace belongs to
  hint,     \* the user name last signed in with
  sess,     \* the stored session
  audit,    \* syncMeta: the encryption audit is current
  notes,    \* the notes table: [Record -> None or [env, status, base]]
  rest,     \* snapshots, notebooks and conflicts: None or an envelope
  step,     \* the sign-in in progress
  keys, edits, stops

server == <<account, shelf, live, trusted>>
workspace == <<session, owner, audit, notes, rest>>
vars == <<account, shelf, live, trusted, mat, session, owner, hint, sess, audit,
          notes, rest, step, keys, edits, stops>>

-----------------------------------------------------------------------------
(* Materials and envelopes.                                                  *)

PasswordKey == [kind : {"password"}, of : Account, pw : Nat]
KeyringKey == [kind : {"keyring"}, key : Nat, of : Account \union {NoOne},
               legacy : SUBSET PasswordKey]
Material == PasswordKey \union KeyringKey
WrappedKeyring == [pw : Nat, holds : KeyringKey]
ASSUME NoneAssumption == None \notin Material /\ None \notin WrappedKeyring

PasswordMaterial(u, n) == [kind |-> "password", of |-> u, pw |-> n]
KeyringMaterial(k, u, old) ==
  [kind |-> "keyring", key |-> k, of |-> u, legacy |-> old]

\* A local keyring has no account and does not count as sync material.
IsSync(m) == m # None /\ (m.kind = "password" \/ m.of # NoOne)

\* A keyring in a box that only the password opens; the box for the recovery
\* code, which no screen offers to open, is left out.
Wrap(pw, m) == [pw |-> pw, holds |-> m]
Unwraps(wrap, pw) == wrap.pw = pw

Seal(m) == [by |-> m, ver |-> 4]

\* decryptionDescriptors: a keyring opens the v4 envelopes of its own keys,
\* and v3 envelopes of the password materials it replaced.
Opens(m, e) ==
  \/ e.by = m
  \/ m.kind = "keyring" /\ e.ver = 3 /\ e.by \in m.legacy

\* Sealed by the active key, so left as it is by encryptNoteFields.
Primary(m, e) == e = Seal(m)

Held(d) == {notes[d][r].env : r \in {q \in Record : notes[d][q] # None}}
           \union (IF rest[d] = None THEN {} ELSE {rest[d]})
AllOpen(d, m) == \A e \in Held(d) : Opens(m, e)

HasUserData(d) == Held(d) # {}
HasUnsynced(d) ==
  rest[d] # None \/ \E r \in Record :
    notes[d][r] # None /\ notes[d][r].status # "synced"

NeedsUnlock(d) == ~IsSync(mat[d]) /\ owner[d] # NoOne /\ HasUserData(d)

\* getEncryptionKeyMaterial generates a local keyring when nothing is stored.
Stored(d) == IF mat[d] = None THEN KeyringMaterial(keys + 1, NoOne, {})
             ELSE mat[d]
MakeStored(d) == /\ mat' = [mat EXCEPT ![d] = Stored(d)]
                 /\ keys' = IF mat[d] = None THEN keys + 1 ELSE keys
                 /\ keys' <= MaxKeys

-----------------------------------------------------------------------------
(* The initial state: legacy accounts come with one browser that an earlier  *)
(* release left signed in, its notes sealed by the password material.        *)

Old(u) == [by |-> PasswordMaterial(u, 1), ver |-> 3]
Upgraded == CHOOSE f \in [Legacy -> Browser] :
              \A u, v \in Legacy : u # v => f[u] # f[v]
UserOf(d) == IF \E u \in Legacy : Upgraded[u] = d
             THEN CHOOSE u \in Legacy : Upgraded[u] = d ELSE NoOne
FirstRecord == CHOOSE r \in Record : TRUE

KeyringInit ==
  /\ account = [u \in Account |-> [made |-> u \in Legacy, pw |-> 1,
                                   keyring |-> None]]
  /\ shelf = [u \in Account |-> [r \in Record |->
       IF u \in Legacy /\ r = FirstRecord THEN [env |-> Old(u), ver |-> 1]
       ELSE [env |-> None, ver |-> 0]]]
  /\ live = {<<u, Upgraded[u]>> : u \in Legacy}
  /\ trusted = {<<u, Upgraded[u]>> : u \in Legacy}
  /\ mat = [d \in Browser |-> IF UserOf(d) = NoOne THEN None
                             ELSE PasswordMaterial(UserOf(d), 1)]
  /\ session = SessionOnly
  /\ owner = [d \in Browser |-> UserOf(d)]
  /\ hint = owner
  /\ sess = owner
  /\ audit = [d \in Browser |-> UserOf(d) = NoOne]
  /\ notes = [d \in Browser |-> [r \in Record |->
       IF UserOf(d) # NoOne /\ r = FirstRecord
       THEN [env |-> Old(UserOf(d)), status |-> "synced", base |-> 1]
       ELSE None]]
  /\ rest = [d \in Browser |-> None]
  /\ step = [d \in Browser |-> [at |-> "idle"]]
  /\ keys = 0 /\ edits = 0 /\ stops = 0

AtRest(d) == step[d].at = "idle"
Stop == stops < MaxStops /\ stops' = stops + 1
GoIdle(d) == step' = [step EXCEPT ![d] = [at |-> "idle"]]

-----------------------------------------------------------------------------
(* The server's side of one request.                                         *)

StartSession(u, d) == /\ live' = live \union {<<u, d>>}
                      /\ trusted' = trusted \union {<<u, d>>}

\* Mutation: The stored keyring is not compared with the one the client started from.
KeyringUpdateAccepted_NoCompare(u, pw, expected) == account[u].pw = pw

\* updateUserE2eeKeyring: the proof is of the current password, and the
\* stored wrapper is the one the client started from.
KeyringUpdateAccepted(u, pw, expected) ==
  account[u].pw = pw /\ account[u].keyring = expected

\* Mutation: A password change leaves the keyring under the old password.
NewCredentials_VerifierOnly(u, pw, wrap) == [account EXCEPT ![u].pw = pw]

\* setUserPasswordVerifier: sessions and trust go with the old verifier, and
\* verifier and keyring are written by one statement.
NewCredentials(u, pw, wrap) ==
  [account EXCEPT ![u].pw = pw, ![u].keyring = wrap]

-----------------------------------------------------------------------------
(* Sign-up and sign-in.                                                      *)

\* A new keyring is made and wrapped before the request.
Signup(d, u) ==
  /\ AtRest(d) /\ sess[d] = NoOne
  /\ ~account[u].made /\ keys < MaxKeys
  /\ LET m == KeyringMaterial(keys + 1, u, {}) IN
     /\ account' = [account EXCEPT ![u] =
          [made |-> TRUE, pw |-> 1, keyring |-> Wrap(1, m)]]
     /\ step' = [step EXCEPT ![d] = [at |-> "prepare", user |-> u, next |-> m]]
  /\ StartSession(u, d)
  /\ keys' = keys + 1
  /\ UNCHANGED <<shelf, mat, hint, sess, workspace, edits, stops>>

\* The password is the current one; the keyring is unwrapped with it, or a
\* new one is made that remembers the password material.
SignIn(d, u) ==
  /\ AtRest(d) /\ sess[d] = NoOne
  /\ account[u].made
  /\ StartSession(u, d)
  /\ LET wrap == account[u].keyring
         pw == account[u].pw IN
     \/ /\ wrap # None /\ Unwraps(wrap, pw)
        /\ step' = [step EXCEPT ![d] =
             [at |-> "prepare", user |-> u, next |-> wrap.holds]]
        /\ UNCHANGED keys
     \/ /\ wrap # None /\ ~Unwraps(wrap, pw)
        /\ UNCHANGED <<step, keys>>
     \/ /\ wrap = None /\ keys < MaxKeys
        /\ keys' = keys + 1
        /\ step' = [step EXCEPT ![d] =
             [at |-> "migrate", user |-> u, pw |-> pw,
              next |-> KeyringMaterial(keys + 1, u, {PasswordMaterial(u, pw)})]]
  /\ UNCHANGED <<account, shelf, mat, hint, sess, workspace, edits, stops>>

\* A trusted browser signs in with a code and keeps the material it has.
\* Window "otp": that is another account's.
OtpSignIn(d, u) ==
  /\ AtRest(d) /\ sess[d] = NoOne
  /\ IsSync(mat[d]) /\ u \in Otp /\ <<u, d>> \in trusted
  /\ "otp" \in Loose \/ mat[d].of = u
  /\ StartSession(u, d)
  /\ step' = [step EXCEPT ![d] =
       [at |-> "prepare", user |-> u, next |-> mat[d]]]
  /\ UNCHANGED <<account, shelf, mat, hint, sess, workspace, keys, edits,
                 stops>>

\* The migrated keyring is stored if nobody stored one before; a refusal or a
\* lost reply ends the sign-in.
Migrate(d) ==
  /\ step[d].at = "migrate"
  /\ LET s == step[d]
         u == s.user
         ok == <<u, d>> \in live /\ KeyringUpdateAccepted(u, s.pw, None) IN
     \/ /\ ok
        /\ account' = [account EXCEPT ![u].keyring = Wrap(s.pw, s.next)]
        /\ \/ /\ step' = [step EXCEPT ![d] =
                   [at |-> "prepare", user |-> u, next |-> s.next]]
              /\ UNCHANGED stops
           \/ GoIdle(d) /\ Stop
     \/ /\ ~ok
        /\ GoIdle(d)
        /\ UNCHANGED <<account, stops>>
  /\ UNCHANGED <<shelf, live, trusted, mat, hint, sess, workspace, keys,
                 edits>>

-----------------------------------------------------------------------------
(* The workspace is prepared and adopted.                                    *)

\* localWorkspaceOwnerConflict
Foreign(d, u) ==
  LET current == IF owner[d] # NoOne THEN owner[d] ELSE hint[d] IN
  current \notin {NoOne, u} /\ HasUserData(d)

\* Another account's unsynced notes end the sign-in, and its session.
PrepareRefused(d) ==
  /\ step[d].at = "prepare"
  /\ Foreign(d, step[d].user) /\ HasUnsynced(d)
  /\ live' = live \ {<<step[d].user, d>>}
  /\ GoIdle(d)
  /\ UNCHANGED <<account, shelf, trusted, mat, hint, sess, workspace, keys,
                 edits, stops>>

\* Another account's synced notes are cleared, with the trust secret.
PrepareClears(d) ==
  /\ step[d].at = "prepare"
  /\ Foreign(d, step[d].user) /\ ~HasUnsynced(d)
  /\ notes' = [notes EXCEPT ![d] = [r \in Record |-> None]]
  /\ owner' = [owner EXCEPT ![d] = NoOne]
  /\ audit' = [audit EXCEPT ![d] = FALSE]
  /\ trusted' = {t \in trusted : t[2] # d}
  /\ MakeStored(d)
  /\ step' = [step EXCEPT ![d] = [at |-> "notes", user |-> step[d].user,
       from |-> step[d].next, next |-> step[d].next]]
  /\ UNCHANGED <<account, shelf, live, session, hint, sess, rest, edits, stops>>

\* preflightLocalWorkspaceAdoption: from the stored material, or from the next
\* one when the tables are already under it.
AdoptFrom(d) ==
  CASE AllOpen(d, Stored(d)) -> Stored(d)
    [] ~AllOpen(d, Stored(d)) /\ AllOpen(d, step[d].next) -> step[d].next
    [] OTHER -> None

Preflight(d) ==
  /\ step[d].at = "prepare"
  /\ ~Foreign(d, step[d].user)
  /\ MakeStored(d)
  /\ IF AdoptFrom(d) = None THEN GoIdle(d)
     ELSE step' = [step EXCEPT ![d] = [at |-> "notes", user |-> step[d].user,
            from |-> AdoptFrom(d), next |-> step[d].next]]
  /\ UNCHANGED <<server, hint, sess, workspace, edits, stops>>


\* reencryptLocalNotes, first table: what changes is pending again.
Resealed(n, m) ==
  IF n = None \/ Primary(m, n.env) THEN n
  ELSE [n EXCEPT !.env = Seal(m), !.status = "pending"]

ReencryptNotes(d) ==
  /\ step[d].at = "notes"
  /\ notes' = IF step[d].from = step[d].next THEN notes
              ELSE [notes EXCEPT ![d] =
                     [r \in Record |-> Resealed(notes[d][r], step[d].next)]]
  /\ step' = [step EXCEPT ![d].at = "rest"]
  /\ UNCHANGED <<server, session, mat, hint, sess, owner, audit, rest, keys, edits,
                 stops>>

\* Mutation: The other tables are forgotten.
ReencryptRest_Forgotten(d) ==
  /\ step[d].at = "rest"
  /\ audit' = [audit EXCEPT ![d] = TRUE]
  /\ step' = [step EXCEPT ![d].at = "commit"]
  /\ UNCHANGED <<server, session, mat, hint, sess, owner, notes, rest, keys, edits,
                 stops>>

\* The other tables, and the audit mark.
ReencryptRest(d) ==
  /\ step[d].at = "rest"
  /\ IF step[d].from = step[d].next THEN UNCHANGED <<rest, audit>>
     ELSE /\ rest' = [rest EXCEPT ![d] =
               IF rest[d] = None THEN None ELSE Seal(step[d].next)]
          /\ audit' = [audit EXCEPT ![d] = TRUE]
  /\ step' = [step EXCEPT ![d].at = "commit"]
  /\ UNCHANGED <<server, session, mat, hint, sess, owner, notes, keys, edits, stops>>

\* rememberLocalWorkspaceAccount, commitEncryptionKeyMaterial, setStoredSession
Commit(d) ==
  /\ step[d].at = "commit"
  /\ owner' = [owner EXCEPT ![d] = step[d].user]
  /\ hint' = [hint EXCEPT ![d] = step[d].user]
  /\ mat' = [mat EXCEPT ![d] = step[d].next]
  /\ sess' = [sess EXCEPT ![d] = step[d].user]
  /\ GoIdle(d)
  /\ UNCHANGED <<server, session, audit, notes, rest, keys, edits, stops>>

-----------------------------------------------------------------------------
(* Work in an open workspace.                                                *)

\* ensureLocalNotesEncrypted, unless the audit is current: everything must
\* open, and what the active key did not seal is sealed again.
Ensured(d, m) ==
  [r \in Record |-> IF audit[d] THEN notes[d][r] ELSE Resealed(notes[d][r], m)]
CanEnsure(d, m) == audit[d] \/ AllOpen(d, m)

\* Window "touch": a browser still on password material writes.
OnPassword(d) == mat[d] # None /\ mat[d].kind = "password"
MayWrite(d) == OnPassword(d) => "touch" \in Loose

\* A note is saved, or another table gets a copy (a snapshot) as well. The
\* list opens only if every note does.
Edit(d) ==
  /\ AtRest(d) /\ ~NeedsUnlock(d) /\ edits < MaxEdits
  /\ MayWrite(d)
  /\ MakeStored(d)
  /\ AllOpen(d, Stored(d))
  /\ \E r \in Record :
       notes' = [notes EXCEPT ![d] = [Ensured(d, Stored(d)) EXCEPT ![r] =
         [env |-> Seal(Stored(d)), status |-> "pending",
          base |-> IF notes[d][r] = None THEN 0 ELSE notes[d][r].base]]]
  /\ \/ UNCHANGED rest
     \/ rest' = [rest EXCEPT ![d] = Seal(Stored(d))]
  /\ audit' = [audit EXCEPT ![d] = TRUE]
  /\ edits' = edits + 1
  /\ UNCHANGED <<server, session, owner, hint, sess, step, stops>>

\* A sync pass: pending notes on the server's version are pushed, others stay
\* (a conflict); then the server's newer notes replace synced ones.
Sync(d) ==
  /\ AtRest(d) /\ sess[d] # NoOne /\ <<sess[d], d>> \in live
  /\ IsSync(mat[d]) /\ CanEnsure(d, mat[d]) /\ MayWrite(d)
  /\ LET u == sess[d]
         mine == Ensured(d, mat[d])
         Accepted(r) == mine[r] # None /\ mine[r].status = "pending"
                          /\ mine[r].base = shelf[u][r].ver
         after == [r \in Record |->
           IF Accepted(r) THEN [env |-> mine[r].env, ver |-> shelf[u][r].ver + 1]
           ELSE shelf[u][r]]
         Takes(r) == after[r].ver > 0
           /\ (mine[r] = None \/ mine[r].status = "synced" \/ Accepted(r)) IN
     /\ shelf' = [shelf EXCEPT ![u] = after]
     /\ notes' = [notes EXCEPT ![d] = [r \in Record |->
          IF Takes(r) THEN [env |-> after[r].env, status |-> "synced",
                            base |-> after[r].ver]
          ELSE mine[r]]]
     /\ shelf' # shelf \/ notes' # notes
  /\ audit' = [audit EXCEPT ![d] = TRUE]
  /\ UNCHANGED <<account, live, trusted, mat, session, owner, hint, sess, rest, step,
                 keys, edits, stops>>

\* The material in use, whatever the server's keyring holds.
Rewrapped(d, pw) == Wrap(pw, mat[d])

\* The keyring is wrapped again around the material this browser uses, and the
\* reply brings a session that replaces all others; the reply may be lost.
ChangePassword(d) ==
  /\ AtRest(d) /\ sess[d] # NoOne /\ <<sess[d], d>> \in live
  /\ IsSync(mat[d]) /\ mat[d].kind = "keyring"
  /\ AllOpen(d, mat[d])
  /\ account[sess[d]].pw < MaxPw
  /\ LET u == sess[d] IN
     /\ LET pw == account[u].pw + 1 IN
          account' = NewCredentials(u, pw, Rewrapped(d, pw))
     /\ trusted' = {t \in trusted : t[1] # u}
     /\ \/ live' = {t \in live : t[1] # u} \union {<<u, d>>} /\ UNCHANGED stops
        \/ live' = {t \in live : t[1] # u} /\ Stop
  /\ UNCHANGED <<shelf, mat, hint, sess, workspace, step, keys, edits>>

\* A request is answered 401: the session goes, the material stays.
ExpireSession(d) ==
  /\ AtRest(d) /\ sess[d] # NoOne /\ <<sess[d], d>> \notin live
  /\ sess' = [sess EXCEPT ![d] = NoOne]
  /\ UNCHANGED <<server, mat, hint, workspace, step, keys, edits, stops>>

Logout(d) ==
  /\ AtRest(d) /\ sess[d] # NoOne
  /\ live' = live \ {<<sess[d], d>>}
  /\ sess' = [sess EXCEPT ![d] = NoOne]
  /\ mat' = [mat EXCEPT ![d] = None]
  /\ UNCHANGED <<account, shelf, trusted, hint, workspace, step, keys, edits,
                 stops>>

\* The account panel's switch: keep the key on this browser, or forget it when
\* the browser's session ends.
SetStorageMode(d) ==
  /\ AtRest(d) /\ sess[d] # NoOne
  /\ session' = IF d \in session THEN session \ {d} ELSE session \union {d}
  /\ UNCHANGED <<server, mat, hint, sess, owner, audit, notes, rest, step,
                 keys, edits, stops>>

\* A session ends on the server: its days are over, or two-factor changed.
SessionEnds(u, d) ==
  /\ <<u, d>> \in live
  /\ live' = live \ {<<u, d>>}
  /\ Stop
  /\ UNCHANGED <<account, shelf, trusted, mat, hint, sess, workspace, step,
                 keys, edits>>

\* The page is gone, with whatever it was doing; session storage ends with the
\* browser, and a session without its material is dropped at the next start.
Restart(d) ==
  /\ Stop
  /\ GoIdle(d)
  /\ mat' = [mat EXCEPT ![d] =
       IF d \in session /\ IsSync(mat[d]) THEN None ELSE mat[d]]
  /\ sess' = [sess EXCEPT ![d] = IF IsSync(mat'[d]) THEN sess[d] ELSE NoOne]
  /\ UNCHANGED <<server, hint, workspace, keys, edits>>

DeviceStep(d) ==
  \/ \E u \in Account : Signup(d, u) \/ SignIn(d, u) \/ OtpSignIn(d, u)
                          \/ SessionEnds(u, d)
  \/ Migrate(d) \/ PrepareRefused(d) \/ PrepareClears(d) \/ Preflight(d)
  \/ ReencryptNotes(d) \/ ReencryptRest(d) \/ Commit(d)
  \/ Edit(d) \/ Sync(d) \/ ChangePassword(d)
  \/ SetStorageMode(d) \/ ExpireSession(d) \/ Logout(d) \/ Restart(d)

KeyringNext == \E d \in Browser : DeviceStep(d)
KeyringSpec == KeyringInit /\ [][KeyringNext]_vars

-----------------------------------------------------------------------------
(* Properties.                                                               *)

Envelope == [by : Material, ver : {3, 4}]

\* Type invariant: what storage, server and sign-ins hold.
KeyringTypeOK ==
  /\ \A u \in Account :
       /\ account[u].made \in BOOLEAN /\ account[u].pw \in 1..MaxPw
       /\ account[u].keyring \in WrappedKeyring \union {None}
  /\ \A d \in Browser :
       /\ mat[d] = None \/ mat[d] \in Material
       /\ sess[d] # NoOne => IsSync(mat[d]) /\ owner[d] = sess[d]
       /\ rest[d] = None \/ rest[d] \in Envelope
       /\ \A r \in Record : notes[d][r] # None =>
            notes[d][r] \in [env : Envelope, status : {"synced", "pending"},
                             base : Nat]
       /\ step[d].at \in {"idle", "migrate", "prepare", "notes", "rest",
                          "commit"}
  /\ keys \in 0..MaxKeys /\ session \subseteq Browser

\* A password that signs in also unwraps the keyring, whatever migrations and
\* password changes of several browsers overlap (auth.ts updateUserE2eeKeyring
\* and setUserPasswordVerifier).
PasswordUnwraps ==
  \A u \in Account : account[u].keyring # None =>
    Unwraps(account[u].keyring, account[u].pw)

\* Once an account has a data key it keeps it: migrations that race, password
\* changes and sign-ins of other browsers never replace it (docs: a password
\* change preserves the note data key).
DataKeyKept ==
  [][\A u \in Account : account[u].keyring # None =>
       account'[u].keyring # None
         /\ account'[u].keyring.holds = account[u].keyring.holds]_vars

\* Every note on the server opens with the account's keyring, so that any
\* browser that signs in can read it.
NotesOpen ==
  \A u \in Account, r \in Record :
    account[u].keyring # None /\ shelf[u][r].ver > 0 =>
      Opens(account[u].keyring.holds, shelf[u][r].env)

\* What signing in to an account brings.
OnSignIn(u) ==
  IF account[u].keyring # None THEN account[u].keyring.holds
  ELSE KeyringMaterial(0, u, {PasswordMaterial(u, account[u].pw)})

\* Nothing in a browser's tables is sealed for good: each envelope opens with
\* the material it stores or with the keyring of an account it can sign in to,
\* also after an adoption was stopped between two of its tables, and whatever
\* other browsers migrated or changed since (reencryptLocalNotes, commit).
WorkspaceOpens ==
  \A d \in Browser : AtRest(d) => \A e \in Held(d) :
    \/ mat[d] # None /\ Opens(mat[d], e)
    \/ \E u \in Account : /\ account[u].made /\ owner[d] \in {u, NoOne}
                          /\ Opens(OnSignIn(u), e)

\* The tables also open as a whole, with one material. This is what the next
\* sign-in asks for (preflightLocalWorkspaceAdoption), and a page that goes
\* between the tables of an adoption leaves it false.
OpensAsAWhole ==
  \A d \in Browser : AtRest(d) /\ HasUserData(d) =>
    \/ mat[d] # None /\ AllOpen(d, mat[d])
    \/ \E u \in Account : /\ account[u].made /\ owner[d] \in {u, NoOne}
                          /\ AllOpen(d, OnSignIn(u))

=============================================================================
