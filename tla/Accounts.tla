------------------------------- MODULE Accounts -------------------------------
(* Accounts, PINs and sessions: api/routes/auth.py, api/routes/users.py,         *)
(* core/identity.py and the pepper route of api/routes/settings.py.  The routes  *)
(* run in the thread pool, so a request is cut wherever another request's commit *)
(* can fall between its read of the row and its own write.  The session writes   *)
(* the columns whose value differs from the one it has read, and no other        *)
(* (`dirty').                                                                    *)
EXTENDS Naturals, FiniteSets

CONSTANTS Owner, Subs,          \* the owner's account and the sub-accounts
          Pins, Peppers,        \* values of a PIN, and of PIN_PEPPER
          NoPepper,             \* PIN_PEPPER is not set
          NoHash,               \* pin_hash is NULL
          NoPin,                \* a request without a PIN
          LockAt,               \* failures that lock an account: 4
          Requests,             \* requests that may be in flight at once
          MaxTokens             \* bound: sessions opened in a behaviour

Users == {Owner} \cup Subs
NoToken == 0
Tokens == 1..MaxTokens
Hashes == [pin : Pins, pepper : Peppers]

ASSUME AccountsAssumption ==
    /\ Owner \notin Subs
    /\ NoPepper \in Peppers
    /\ NoHash \notin Hashes
    /\ NoPin \notin Pins
    /\ LockAt \in Nat \ {0}
    /\ MaxTokens \in Nat
    /\ IsFiniteSet(Requests)

VARIABLES account,   \* the row of each account
          env,       \* PIN_PEPPER: the .env file and the process environment
          req,       \* the requests in flight
          minted,    \* the last session token made
          (* What has happened, for the properties. *)
          guesses,   \* wrong PINs since the failures were last forgotten
          opened,    \* the PIN at the last login, but for the two races of SessionPinIsCurrent
          torn       \* a rotation was cut off, or met another one

accountVars == <<account, env, req, minted, guesses, opened, torn>>

NoAccount == [exists |-> FALSE, hash |-> NoHash, required |-> FALSE, failed |-> 0,
              locked |-> FALSE, token |-> NoToken, expired |-> FALSE]
Idle == [kind |-> "none", user |-> Owner, pc |-> "idle", hash |-> NoHash, pin |-> NoPin,
         pepper |-> NoPepper, dirty |-> {}, others |-> {}, overtaken |-> FALSE]

Columns == {"hash", "required", "failed", "locked", "token", "expired"}

AccountsInit ==
    /\ account = [u \in Users |-> NoAccount]
    /\ env = NoPepper
    /\ req = [r \in Requests |-> Idle]
    /\ minted = 0
    /\ guesses = [u \in Users |-> 0]
    /\ opened = [u \in Users |-> NoPin]
    /\ torn = FALSE
-------------------------------------------------------------------------------
(* Helpers.                                                                      *)

\* validate_session: a session is there and has not expired.
SignedIn(u) == account[u].exists /\ account[u].token # NoToken /\ ~account[u].expired

\* require_admin_or_self_manage, with the checks of reset_pin.
MayManage(u) == SignedIn(Owner) \/ (SignedIn(u) /\ ~account[u].locked)

\* A row without failures, lock, session and PIN, as the writes below leave it.
ResetRow == [NoAccount EXCEPT !.required = TRUE]

\* The columns among cs that will be written when each is set to that value.
Changed(u, cs) == {c \in cs : account[u][c] # ResetRow[c]}

\* The UPDATE of a row with those values.
Cleared(row, cs) == [c \in DOMAIN row |-> IF c \in cs THEN ResetRow[c] ELSE row[c]]

\* verify_pin, under the pepper given.
Verifies(pin, hash, pepper) == hash = [pin |-> pin, pepper |-> pepper]

\* A reset of u is in flight that has read a row without a session: as the column will
\* not change for it, it will not end a session that is opened in the meantime.
BlindReset(u) ==
    \E r \in Requests : req[r].kind = "reset" /\ req[r].user = u /\ "token" \notin req[r].dirty

Rotating(r) == req[r].kind = "rotate"

\* The logins of u in flight have read a hash that is another one now.
Overtake(u, reqs) ==
    [r \in Requests |->
        IF reqs[r].kind = "switch" /\ reqs[r].user = u
        THEN [reqs[r] EXCEPT !.overtaken = TRUE] ELSE reqs[r]]

Finish(r) == req' = [req EXCEPT ![r] = Idle]
Goto(r, pc) == req' = [req EXCEPT ![r].pc = pc]
-------------------------------------------------------------------------------
(* POST /auth/switch                                                             *)

\* The row is read and a locked account refused.  Without a PIN to check the
\* login is complete at once; the owner always has one.
Switch(r, u, pin) ==
    /\ req[r].pc = "idle" /\ minted < MaxTokens
    /\ account[u].exists /\ ~account[u].locked
    /\ req' = [req EXCEPT ![r] = [Idle EXCEPT
            !.kind = "switch", !.user = u, !.pin = pin, !.hash = account[u].hash,
            !.pc = IF u = Owner \/ account[u].required THEN "verify" ELSE "passed",
            !.dirty = Changed(u, {"failed"})]]
    /\ UNCHANGED <<account, env, minted, guesses, opened, torn>>

\* verify_pin reads the pepper of this moment and the hash read before.
Verify(r) ==
    /\ req[r].pc = "verify"
    /\ req' = [req EXCEPT ![r] =
            IF Verifies(req[r].pin, req[r].hash, env)
            THEN [@ EXCEPT !.pc = "passed", !.pin = NoPin]
            ELSE [Idle EXCEPT !.kind = "switch", !.user = req[r].user, !.pc = "failed"]]
    /\ UNCHANGED <<account, env, minted, guesses, opened, torn>>

\* One failure more, counted by the database.
\* Mutant of OneMore: locked only when the threshold had been reached before.
OneMoreLate(row) == [row EXCEPT !.failed = @ + 1, !.locked = @ \/ row.failed >= LockAt]
OneMore(row) == [row EXCEPT !.failed = @ + 1, !.locked = @ \/ row.failed + 1 >= LockAt]

\* _record_failed_pin_attempt: a single UPDATE, of no row when it is gone.
RecordFailure(r) ==
    /\ req[r].pc = "failed"
    /\ LET u == req[r].user IN
       IF account[u].exists
       THEN /\ account' = [account EXCEPT ![u] = OneMore(@)]
            /\ guesses' = [guesses EXCEPT ![u] = @ + 1]
       ELSE UNCHANGED <<account, guesses>>
    /\ Finish(r)
    /\ UNCHANGED <<env, minted, opened, torn>>

\* _complete_login up to its first commit: the failures are forgotten, unless the
\* row that was read had none.  A row that is gone raises.
ForgetFailures(r) ==
    /\ req[r].pc = "passed"
    /\ LET u == req[r].user IN
       IF account[u].exists
       THEN /\ account' = [account EXCEPT ![u] = Cleared(@, req[r].dirty)]
            /\ guesses' = [guesses EXCEPT ![u] = 0]
            /\ Goto(r, "issue")
       ELSE Finish(r) /\ UNCHANGED <<account, guesses>>
    /\ UNCHANGED <<env, minted, opened, torn>>

\* issue_session: a fresh token replaces whatever session there is.
IssueSession(r) ==
    /\ req[r].pc = "issue"
    /\ LET u == req[r].user IN
       IF account[u].exists /\ minted < MaxTokens
       THEN /\ minted' = minted + 1
            /\ account' = [account EXCEPT ![u].token = minted + 1, ![u].expired = FALSE]
            /\ opened' = [opened EXCEPT ![u] =
                    IF req[r].overtaken \/ BlindReset(u) \/ req[r].hash = NoHash
                    THEN NoPin ELSE req[r].hash.pin]
       ELSE UNCHANGED <<account, minted, opened>>
    /\ Finish(r)
    /\ UNCHANGED <<env, guesses, torn>>
-------------------------------------------------------------------------------
(* POST /auth/setup-owner, POST /user-items                                      *)

\* No owner is seen, or a sub-account is to be created; its PIN is hashed.
SetupOwner(r, pin) ==
    /\ req[r].pc = "idle" /\ minted < MaxTokens
    /\ ~account[Owner].exists
    /\ req' = [req EXCEPT ![r] = [Idle EXCEPT !.kind = "setup", !.user = Owner, !.pc = "insert",
                                  !.hash = [pin |-> pin, pepper |-> env]]]
    /\ UNCHANGED <<account, env, minted, guesses, opened, torn>>

CreateUser(r, u, hash) ==
    /\ req[r].pc = "idle"
    /\ SignedIn(Owner) /\ ~account[u].exists /\ u # Owner
    /\ \A o \in Requests : req[o].kind = "create" => req[o].user # u
    /\ req' = [req EXCEPT ![r] = [Idle EXCEPT !.kind = "create", !.user = u, !.pc = "insert",
                                  !.hash = hash]]
    /\ torn' = (torn \/ \E o \in Requests : Rotating(o))
    /\ UNCHANGED <<account, env, minted, guesses, opened>>

\* The row is inserted.  A second owner is refused by idx_single_owner.
Insert(r) ==
    /\ req[r].pc = "insert"
    /\ LET u == req[r].user IN
       IF account[u].exists
       THEN Finish(r) /\ UNCHANGED <<account, guesses>>
       ELSE /\ account' = [account EXCEPT ![u] =
                    [NoAccount EXCEPT !.exists = TRUE, !.hash = req[r].hash,
                                      !.required = req[r].hash # NoHash]]
            /\ guesses' = [guesses EXCEPT ![u] = 0]
            /\ req' = IF req[r].kind = "setup" THEN [req EXCEPT ![r].pc = "issue"]
                      ELSE [Overtake(u, req) EXCEPT ![r] = Idle]
    /\ UNCHANGED <<env, minted, opened, torn>>
-------------------------------------------------------------------------------
(* Sessions: POST /auth/logout, POST /auth/refresh, expiry                       *)

\* The presented token validates: it is the one in the row.
Logout(r, u) ==
    /\ req[r].pc = "idle" /\ SignedIn(u)
    /\ req' = [req EXCEPT ![r] = [Idle EXCEPT !.kind = "logout", !.user = u, !.pc = "write",
                                  !.dirty = Changed(u, {"token", "expired"})]]
    /\ UNCHANGED <<account, env, minted, guesses, opened, torn>>

Refresh(r, u) ==
    /\ req[r].pc = "idle" /\ SignedIn(u)
    /\ req' = [req EXCEPT ![r] = [Idle EXCEPT !.kind = "refresh", !.user = u, !.pc = "extend"]]
    /\ UNCHANGED <<account, env, minted, guesses, opened, torn>>

\* extend_session writes the expiry and nothing else, an UPDATE of no row when it is gone.
Extend(r) ==
    /\ req[r].pc = "extend"
    /\ LET u == req[r].user IN
       account' = IF account[u].exists THEN [account EXCEPT ![u].expired = FALSE] ELSE account
    /\ Finish(r)
    /\ UNCHANGED <<env, minted, guesses, opened, torn>>

\* session_token_expires_at passes.
Expire(u) ==
    /\ SignedIn(u)
    /\ account' = [account EXCEPT ![u].expired = TRUE]
    /\ UNCHANGED <<env, req, minted, guesses, opened, torn>>
-------------------------------------------------------------------------------
(* POST /user-items/{id}/reset-pin, /unlock, /force-logout; PATCH and DELETE     *)

\* The columns each request sets in a row that it has read; reset_pin sets the
\* hash as well.
\* Mutant of ClearedBy: a new PIN leaves the session alone.
ClearedByKeeping(kind) ==
    CASE kind = "reset" -> {"required", "failed", "locked"}
      [] kind = "unlock" -> {"locked", "failed"}
      [] kind = "force" -> {"token", "expired"}
ClearedBy(kind) ==
    CASE kind = "reset" -> {"required", "failed", "locked", "token", "expired"}
      [] kind = "unlock" -> {"locked", "failed"}
      [] kind = "force" -> {"token", "expired"}

\* reset_pin may be asked by the account itself while it is not locked.
ResetPin(r, u, pin) ==
    /\ req[r].pc = "idle"
    /\ account[u].exists /\ MayManage(u)
    /\ req' = [req EXCEPT ![r] = [Idle EXCEPT !.kind = "reset", !.user = u, !.pc = "hash",
                    !.pin = pin, !.dirty = Changed(u, ClearedBy("reset"))]]
    /\ torn' = (torn \/ \E o \in Requests : Rotating(o))
    /\ UNCHANGED <<account, env, minted, guesses, opened>>

\* Mutant of HashPin: the PIN is kept as it was typed.
HashPinPlain(r) ==
    /\ req[r].pc = "hash"
    /\ req' = [req EXCEPT ![r].pc = "write", ![r].pin = NoPin, ![r].hash = req[r].pin]
    /\ UNCHANGED <<account, env, minted, guesses, opened, torn>>
\* hash_pin, under the pepper of this moment.
HashPin(r) ==
    /\ req[r].pc = "hash"
    /\ req' = [req EXCEPT ![r].pc = "write", ![r].pin = NoPin,
                           ![r].hash = [pin |-> req[r].pin, pepper |-> env]]
    /\ UNCHANGED <<account, env, minted, guesses, opened, torn>>

Unlock(r, u) ==
    /\ req[r].pc = "idle"
    /\ account[u].exists /\ SignedIn(Owner)
    /\ req' = [req EXCEPT ![r] = [Idle EXCEPT !.kind = "unlock", !.user = u, !.pc = "write",
                                  !.dirty = Changed(u, ClearedBy("unlock"))]]
    /\ UNCHANGED <<account, env, minted, guesses, opened, torn>>

ForceLogout(r, u) ==
    /\ req[r].pc = "idle"
    /\ account[u].exists /\ SignedIn(Owner)
    /\ req' = [req EXCEPT ![r] = [Idle EXCEPT !.kind = "force", !.user = u, !.pc = "write",
                                  !.dirty = Changed(u, ClearedBy("force"))]]
    /\ UNCHANGED <<account, env, minted, guesses, opened, torn>>

\* The commit of a request that clears columns; one whose row is gone raises.
Write(r) ==
    /\ req[r].pc = "write"
    /\ LET u == req[r].user
           new == Cleared(account[u], req[r].dirty)
       IN IF account[u].exists
          THEN /\ account' = [account EXCEPT ![u] =
                    IF req[r].kind = "reset" THEN [new EXCEPT !.hash = req[r].hash] ELSE new]
               /\ guesses' = IF req[r].kind \in {"reset", "unlock"} THEN [guesses EXCEPT ![u] = 0] ELSE guesses
               /\ req' = [IF req[r].kind = "reset" THEN Overtake(u, req) ELSE req EXCEPT ![r] = Idle]
          ELSE UNCHANGED <<account, guesses>> /\ Finish(r)
    /\ UNCHANGED <<env, minted, opened, torn>>

\* PATCH: pin_required is the field that matters here.  Read and commit are one
\* step: a column is written from the request, never from the row.
PatchRequired(u, required) ==
    /\ account[u].exists /\ SignedIn(Owner)
    /\ account' = [account EXCEPT ![u].required = required]
    /\ UNCHANGED <<env, req, minted, guesses, opened, torn>>

\* DELETE; SQLite gives the id of the last row to the next one.
DeleteUser(u) ==
    /\ account[u].exists /\ SignedIn(Owner)
    /\ account' = [account EXCEPT ![u] = NoAccount]
    /\ guesses' = [guesses EXCEPT ![u] = 0]
    /\ UNCHANGED <<env, req, minted, opened, torn>>
-------------------------------------------------------------------------------
(* PATCH /settings/pin-pepper                                                    *)

\* The owner's PIN verifies under the current pepper and is hashed under the new
\* one; the sub-accounts that have a PIN are read.
RotatePepper(r, pin, pepper) ==
    /\ req[r].pc = "idle"
    /\ SignedIn(Owner) /\ pepper # env
    /\ Verifies(pin, account[Owner].hash, env)
    /\ req' = [req EXCEPT ![r] = [Idle EXCEPT !.kind = "rotate", !.pc = "env", !.pin = pin,
                    !.pepper = pepper, !.hash = [pin |-> pin, pepper |-> pepper],
                    !.others = {u \in Subs : account[u].exists /\ account[u].hash # NoHash}]]
    /\ torn' = (torn \/ \E o \in Requests : req[o].kind \in {"rotate", "reset", "create", "setup"})
    /\ UNCHANGED <<account, env, minted, guesses, opened>>

\* set_env_secret: the file, then the process environment.  The request keeps
\* the pepper it has replaced.
WriteEnv(r) ==
    /\ req[r].pc = "env"
    /\ env' = req[r].pepper
    /\ req' = [req EXCEPT ![r].pc = "commit", ![r].pepper = env]
    /\ UNCHANGED <<account, minted, guesses, opened, torn>>

WriteEnvFails(r) ==
    /\ req[r].pc = "env"
    /\ Finish(r)
    /\ UNCHANGED <<account, env, minted, guesses, opened, torn>>

\* The owner's hash and the other accounts are written in one commit, which fails
\* if one of these is gone.
CommitRotation(r) ==
    /\ req[r].pc = "commit"
    /\ \A u \in req[r].others : account[u].exists
    /\ account' = [u \in Users |->
            IF u = Owner THEN [account[u] EXCEPT !.hash = req[r].hash]
            ELSE IF u \in req[r].others
                 THEN Cleared(account[u], {"hash", "required", "failed", "locked"})
                 ELSE account[u]]
    /\ guesses' = [u \in Users |-> IF u \in req[r].others THEN 0 ELSE guesses[u]]
    /\ Finish(r)
    /\ UNCHANGED <<env, minted, opened, torn>>

\* Mutant of PepperAfterFailure: .env is left with the new pepper.
PepperNotReverted(r) == env
PepperAfterFailure(r) == req[r].pepper

CommitRotationFails(r) ==
    /\ req[r].pc = "commit"
    /\ env' = PepperAfterFailure(r)
    /\ Finish(r)
    /\ UNCHANGED <<account, minted, guesses, opened, torn>>

\* The backend dies; the database and .env survive.
AccountsCrash ==
    /\ \E r \in Requests : req[r].pc # "idle"
    /\ req' = [r \in Requests |-> Idle]
    /\ torn' = (torn \/ \E r \in Requests : Rotating(r) /\ req[r].pc = "commit")
    /\ UNCHANGED <<account, env, minted, guesses, opened>>
-------------------------------------------------------------------------------
AccountsNext ==
    \/ \E r \in Requests :
        \/ \E u \in Users, pin \in Pins : Switch(r, u, pin)
        \/ \E pin \in Pins : SetupOwner(r, pin)
        \/ \E u \in Users : Logout(r, u) \/ Refresh(r, u)
        \/ \E u \in Subs :
            \/ CreateUser(r, u, NoHash)
            \/ \E pin \in Pins : CreateUser(r, u, [pin |-> pin, pepper |-> env]) \/ ResetPin(r, u, pin)
            \/ Unlock(r, u) \/ ForceLogout(r, u)
        \/ \E pin \in Pins, pepper \in Peppers : RotatePepper(r, pin, pepper)
        \/ Verify(r) \/ RecordFailure(r) \/ ForgetFailures(r) \/ IssueSession(r)
        \/ Insert(r) \/ Extend(r) \/ HashPin(r) \/ Write(r)
        \/ WriteEnv(r) \/ WriteEnvFails(r) \/ CommitRotation(r) \/ CommitRotationFails(r)
    \/ \E u \in Users : Expire(u)
    \/ \E u \in Subs : DeleteUser(u) \/ \E b \in BOOLEAN : PatchRequired(u, b)
    \/ AccountsCrash

AccountsSpec == AccountsInit /\ [][AccountsNext]_accountVars
-------------------------------------------------------------------------------
AccountsTypeOK ==
    /\ account \in [Users -> [exists : BOOLEAN, hash : Hashes \cup {NoHash}, required : BOOLEAN,
                               failed : Nat, locked : BOOLEAN, token : Tokens \cup {NoToken},
                               expired : BOOLEAN]]
    /\ env \in Peppers
    /\ req \in [Requests -> [kind : {"none", "switch", "setup", "create", "logout", "refresh", "reset",
                                      "unlock", "force", "rotate"},
                              user : Users,
                              pc : {"idle", "verify", "failed", "passed", "issue", "insert", "extend",
                                    "hash", "write", "env", "commit"},
                              hash : Hashes \cup {NoHash}, pin : Pins \cup {NoPin}, pepper : Peppers,
                              dirty : SUBSET Columns, others : SUBSET Subs, overtaken : BOOLEAN]]
    /\ minted \in 0..MaxTokens
    /\ guesses \in [Users -> Nat]
    /\ opened \in [Users -> Pins \cup {NoPin}]
    /\ torn \in BOOLEAN

\* However many logins run at once, an account takes no more wrong PINs than the
\* threshold and one for each other request that had found it unlocked, before an
\* unlock, a new PIN or a right PIN begins the count anew.
GuessesBounded ==
    \A u \in Users : guesses[u] < LockAt + Cardinality(Requests)

\* No session outlives the PIN it was opened with: clear_session in reset_pin, whatever
\* logins, refreshes, rotations, deletions and other resets come in between.  Two orders
\* are left aside, in which the code lets one live: the login had read the old hash when
\* the new one was committed, or the reset had read a row without a session when the
\* login opened one.
SessionPinIsCurrent ==
    \A u \in Users :
        account[u].token # NoToken /\ account[u].hash # NoHash /\ opened[u] # NoPin
            => opened[u] = account[u].hash.pin

\* The opposite, as AUTH.md and accounts.mdx say it: "A reset does not clear
\* session_token_hash, so an already-issued session survives it."
SessionSurvivesReset ==
    [][\A r \in Requests :
         LET u == req[r].user IN
         (req[r].kind = "reset" /\ req[r].pc = "write" /\ req'[r].pc = "idle" /\ account'[u].exists)
            => account'[u].token = account[u].token]_accountVars

\* Every stored PIN is hashed under the pepper in .env, so that no account (and
\* the owner above all) is locked out by a rotation that failed half way.  Between
\* the two writes of a rotation, after a crash there, and after a rotation that
\* met another change of a PIN, it may be otherwise.
PepperMatchesHashes ==
    \/ torn \/ \E r \in Requests : Rotating(r) /\ req[r].pc = "commit"
    \/ \A u \in Users : account[u].hash # NoHash => account[u].hash.pepper = env
===============================================================================
