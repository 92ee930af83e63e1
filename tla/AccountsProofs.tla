---------------------------- MODULE AccountsProofs ----------------------------
(* What Accounts promises holds for any accounts, PINs, peppers and number of      *)
(* requests at once: no more guesses than the lock allows, no session of a PIN     *)
(* that was replaced, and no hash that the pepper in .env cannot verify.           *)
EXTENDS Accounts, TLAPS, FiniteSetTheorems

Rows == [exists : BOOLEAN, hash : Hashes \cup {NoHash}, required : BOOLEAN, failed : Nat,
         locked : BOOLEAN, token : Tokens \cup {NoToken}, expired : BOOLEAN]

Reqs == [kind : {"none", "switch", "setup", "create", "logout", "refresh", "reset", "unlock", "force", "rotate"},
         user : Users,
         pc : {"idle", "verify", "failed", "passed", "issue", "insert", "extend", "hash", "write", "env", "commit"},
         hash : Hashes \cup {NoHash}, pin : Pins \cup {NoPin}, pepper : Peppers,
         dirty : SUBSET Columns, others : SUBSET Subs, overtaken : BOOLEAN]

\* What a request knows at each stage.
Sound(q) ==
    /\ q.pc = "idle" => q = Idle
    /\ q.pc \in {"verify", "failed", "passed"} => q.kind = "switch"
    /\ q.pc = "issue" => q.kind \in {"switch", "setup"}
    /\ q.pc = "insert" => q.kind \in {"setup", "create"}
    /\ q.pc = "extend" => q.kind = "refresh"
    /\ q.pc = "hash" => q.kind = "reset" /\ q.pin \in Pins
    /\ q.pc = "write" => q.kind \in {"logout", "reset", "unlock", "force"}
    /\ q.pc \in {"env", "commit"} => q.kind = "rotate"
    /\ q.kind = "rotate" => q.pc \in {"env", "commit"} /\ q.hash # NoHash
    /\ q.kind = "setup" => q.user = Owner
    /\ q.kind \in {"create", "reset"} => q.user \in Subs
    /\ q.kind = "reset" /\ q.pc = "write" => q.hash # NoHash
    /\ q.kind = "switch" => q.dirty \subseteq {"failed"}
    /\ q.kind \in {"reset", "unlock"} => q.dirty \subseteq {"required", "failed", "locked", "token", "expired"}
    /\ q.kind \in {"logout", "force"} => q.dirty \subseteq {"token", "expired"}

\* An account that is gone, or not there yet, has left nothing behind.
Typed ==
    /\ AccountsTypeOK
    /\ \A r \in Requests : Sound(req[r])
    /\ \A u \in Users : ~account[u].exists => account[u] = NoAccount

\* The requests that may still count a failure against u.
Guessing(u) == {r \in Requests : req[r].pc \in {"verify", "failed"} /\ req[r].user = u}

\* A guess is made by a request that found the account unlocked.
GuessesCounted ==
    \A u \in Users :
        /\ guesses[u] + Cardinality(Guessing(u)) < LockAt + Cardinality(Requests)
        /\ guesses[u] <= account[u].failed
        /\ guesses[u] >= LockAt => account[u].locked

\* A login that no new PIN has overtaken has read the one that is there.
LoggingIn(r) == req[r].kind \in {"switch", "setup"} /\ req[r].pc \in {"verify", "passed", "issue"}

PinKnown(r) ==
    LET u == req[r].user IN
    /\ u = Owner => account[Owner].exists
    /\ ~req[r].overtaken =>
        /\ req[r].hash # NoHash /\ account[u].hash # NoHash =>
                account[u].hash.pin = req[r].hash.pin

LoginsKnowPins == \A r \in Requests : LoggingIn(r) => PinKnown(r)

\* A change of a PIN ends the session that there is, or one that was opened meanwhile
\* is not held to be of any PIN.
ResetsEndSessions ==
    \A r \in Requests :
        req[r].kind = "reset" =>
            LET u == req[r].user IN
            "token" \in req[r].dirty \/ account[u].token = NoToken \/ opened[u] = NoPin

\* The owner's PIN stays the one that a rotation has verified.
RotationsKnowPins ==
    \A r \in Requests :
        Rotating(r) => /\ account[Owner].exists /\ account[Owner].hash # NoHash
                       /\ account[Owner].hash.pin = req[r].hash.pin

PinsKept == LoginsKnowPins /\ ResetsEndSessions /\ RotationsKnowPins /\ SessionPinIsCurrent

\* A rotation that is not torn is alone, and knows every account with a PIN.
Changing(r) == req[r].kind \in {"rotate", "reset", "create", "setup"}

RotationsAlone ==
    \A r, o \in Requests : Rotating(r) /\ Changing(o) => r = o

HashesFresh ==
    \A r \in Requests :
        (req[r].pc = "insert" \/ (req[r].kind = "reset" /\ req[r].pc = "write")) /\ req[r].hash # NoHash
            => req[r].hash.pepper = env

RotationsKnowPeppers ==
    \A r \in Requests :
        Rotating(r) =>
            /\ \A u \in Subs : account[u].hash # NoHash => u \in req[r].others
            /\ req[r].pc = "env" => req[r].hash.pepper = req[r].pepper
            /\ req[r].pc = "commit" =>
                /\ req[r].hash.pepper = env
                /\ \A u \in Users : account[u].hash # NoHash => account[u].hash.pepper = req[r].pepper

PeppersKept ==
    torn \/ (RotationsAlone /\ HashesFresh /\ RotationsKnowPeppers /\ PepperMatchesHashes)

AccountsInv == Typed /\ GuessesCounted /\ PinsKept /\ PeppersKept
-------------------------------------------------------------------------------
(* Lemmas about the operators.                                                   *)

\* What an UPDATE that sets some columns leaves of a row.
LEMMA ClearedIs ==
    ASSUME NEW row \in Rows, NEW cs \in SUBSET Columns, NEW c, c = Cleared(row, cs)
    PROVE  /\ c \in Rows
           /\ c.exists = row.exists
           /\ c.hash = IF "hash" \in cs THEN NoHash ELSE row.hash
           /\ c.token = IF "token" \in cs THEN NoToken ELSE row.token
           /\ "failed" \notin cs => c.failed = row.failed
           /\ "locked" \notin cs => c.locked = row.locked
<1> DEFINE D == {"exists", "hash", "required", "failed", "locked", "token", "expired"}
<1>1. DOMAIN row = D
    BY DEF Rows
<1>2. /\ ResetRow["hash"] = NoHash /\ ResetRow["required"] = TRUE /\ ResetRow["failed"] = 0
      /\ ResetRow["locked"] = FALSE /\ ResetRow["token"] = NoToken /\ ResetRow["expired"] = FALSE
    BY DEF ResetRow, NoAccount
<1>3. "exists" \notin cs
    BY DEF Columns
<1>4. c = [x \in D |-> IF x \in cs THEN ResetRow[x] ELSE row[x]]
    BY <1>1 DEF Cleared
<1> HIDE DEF ResetRow
<1>5. /\ c["exists"] = row["exists"]
      /\ c["hash"] = IF "hash" \in cs THEN NoHash ELSE row["hash"]
      /\ c["required"] = IF "required" \in cs THEN TRUE ELSE row["required"]
      /\ c["failed"] = IF "failed" \in cs THEN 0 ELSE row["failed"]
      /\ c["locked"] = IF "locked" \in cs THEN FALSE ELSE row["locked"]
      /\ c["token"] = IF "token" \in cs THEN NoToken ELSE row["token"]
      /\ c["expired"] = IF "expired" \in cs THEN FALSE ELSE row["expired"]
    BY <1>2, <1>3, <1>4
<1>6. /\ c["exists"] \in BOOLEAN /\ c["hash"] \in Hashes \cup {NoHash} /\ c["required"] \in BOOLEAN
      /\ c["failed"] \in Nat /\ c["locked"] \in BOOLEAN /\ c["token"] \in Tokens \cup {NoToken}
      /\ c["expired"] \in BOOLEAN
    <2>1. /\ row["exists"] \in BOOLEAN /\ row["hash"] \in Hashes \cup {NoHash} /\ row["required"] \in BOOLEAN
          /\ row["failed"] \in Nat /\ row["locked"] \in BOOLEAN /\ row["token"] \in Tokens \cup {NoToken}
          /\ row["expired"] \in BOOLEAN
        BY DEF Rows
    <2>2. /\ c["exists"] \in BOOLEAN
        BY <1>5, <2>1
    <2>3. c["hash"] \in Hashes \cup {NoHash} 
        BY <1>5, <2>1
    <2>4. c["required"] \in BOOLEAN
        BY <1>5, <2>1
    <2>5. c["failed"] \in Nat
        BY <1>5, <2>1
    <2>6.  c["locked"] \in BOOLEAN
        BY <1>5, <2>1
    <2>7. c["token"] \in Tokens \cup {NoToken}
        BY <1>5, <2>1
    <2>8. c["expired"] \in BOOLEAN
        BY <1>5, <2>1
    <2> QED BY <2>2, <2>3, <2>4, <2>5, <2>6, <2>7, <2>8
<1>7. c = [x \in D |-> c[x]]
    BY <1>4
<1>8. c \in Rows
    BY <1>6, <1>7 DEF Rows
<1> QED BY <1>5, <1>8

\* A thread that serves nothing knows nothing.
LEMMA IdleIsSound == Idle \in Reqs /\ Sound(Idle)
BY AccountsAssumption DEF Idle, Reqs, Sound, Users

\* A request goes on; the others stay.
LEMMA OneRequest ==
    ASSUME Typed, NEW r \in Requests, NEW n \in Reqs, Sound(n), req' = [req EXCEPT ![r] = n]
    PROVE  /\ req' \in [Requests -> Reqs] /\ \A o \in Requests : Sound(req'[o])
           /\ req'[r] = n /\ \A o \in Requests \ {r} : req'[o] = req[o]
BY DEF Typed, AccountsTypeOK, Reqs

\* A row is written; the others stay.
LEMMA OneRow ==
    ASSUME Typed, NEW u \in Users, NEW n \in Rows, account' = [account EXCEPT ![u] = n]
    PROVE  /\ account' \in [Users -> Rows]
           /\ account'[u] = n /\ \A v \in Users \ {u} : account'[v] = account[v]
BY DEF Typed, AccountsTypeOK, Rows

\* Any set of requests is finite, and no larger than all of them.
LEMMA RequestCard ==
    ASSUME NEW S \in SUBSET Requests
    PROVE  /\ IsFiniteSet(S) /\ Cardinality(S) \in Nat
           /\ Cardinality(Requests) \in Nat /\ Cardinality(S) <= Cardinality(Requests)
BY FS_Subset, FS_CardinalityType, AccountsAssumption

\* Guesses are counted as long as nobody starts to guess and no count grows.
LEMMA NoMoreGuesses ==
    ASSUME Typed, GuessesCounted, guesses' \in [Users -> Nat], account' \in [Users -> Rows],
           \A u \in Users :
                /\ Guessing(u)' \subseteq Guessing(u)
                /\ \/ guesses'[u] = 0
                   \/ /\ guesses'[u] = guesses[u] /\ account'[u].failed = account[u].failed
                      /\ account[u].locked => account'[u].locked
    PROVE  GuessesCounted'
<1> SUFFICES ASSUME NEW u \in Users
             PROVE  /\ guesses'[u] + Cardinality(Guessing(u)') < LockAt + Cardinality(Requests)
                    /\ guesses'[u] <= account'[u].failed
                    /\ guesses'[u] >= LockAt => account'[u].locked
    BY DEF GuessesCounted
<1>1. /\ Cardinality(Guessing(u)') \in Nat /\ Cardinality(Guessing(u)') <= Cardinality(Guessing(u))
      /\ Cardinality(Guessing(u)) \in Nat /\ Cardinality(Requests) \in Nat
    BY RequestCard, FS_Subset DEF Guessing
<1>2. guesses[u] \in Nat /\ guesses'[u] <= guesses[u] /\ guesses'[u] \in Nat
    BY DEF Typed, AccountsTypeOK
<1>3. guesses[u] + Cardinality(Guessing(u)) < LockAt + Cardinality(Requests)
    BY DEF GuessesCounted
<1>4. account'[u].failed \in Nat
    BY DEF Rows
<1> QED BY <1>1, <1>2, <1>3, <1>4, AccountsAssumption DEF GuessesCounted
-------------------------------------------------------------------------------
(* The actions.                                                                  *)

\* Requests that look for no PIN, and change none, disturb nothing before they commit.
LEMMA QuietRequest ==
    ASSUME AccountsInv, NEW r \in Requests, NEW n \in Reqs, Sound(n),
           n.kind \in {"none", "logout", "refresh", "unlock", "force"},
           req[r].pc # "commit", req' = [req EXCEPT ![r] = n],
           UNCHANGED <<account, env, minted, guesses, opened, torn>>
    PROVE  AccountsInv'
<1> USE DEF AccountsInv
<1>1. /\ req' \in [Requests -> Reqs] /\ \A o \in Requests : Sound(req'[o])
      /\ req'[r] = n /\ \A o \in Requests \ {r} : req'[o] = req[o]
    BY OneRequest
<1>2. n.pc \notin {"verify", "failed", "passed", "issue", "insert", "hash", "env", "commit"}
    BY DEF Sound
<1>3. Typed'
    BY <1>1 DEF Typed, AccountsTypeOK, Reqs
<1>4. GuessesCounted'
    <2>1. \A u \in Users : Guessing(u)' \subseteq Guessing(u)
        BY <1>1, <1>2 DEF Guessing
    <2> QED BY <2>1, NoMoreGuesses DEF Typed, AccountsTypeOK, Rows
<1>5. PinsKept'
    <2>1. LoginsKnowPins'
        BY <1>1, <1>2 DEF PinsKept, LoginsKnowPins, PinKnown, LoggingIn
    <2>2. ResetsEndSessions'
        BY <1>1, <1>2 DEF PinsKept, ResetsEndSessions
    <2>3. RotationsKnowPins'
        BY <1>1, <1>2 DEF PinsKept, RotationsKnowPins, Rotating
    <2> QED BY <2>1, <2>2, <2>3 DEF PinsKept, SessionPinIsCurrent
<1>6. PeppersKept'
    <2> SUFFICES ASSUME ~torn PROVE PeppersKept'
        BY DEF PeppersKept
    <2>1. RotationsAlone'
        BY <1>1, <1>2 DEF PeppersKept, RotationsAlone, Rotating, Changing
    <2>2. HashesFresh'
        BY <1>1, <1>2 DEF PeppersKept, HashesFresh
    <2>3. RotationsKnowPeppers'
        BY <1>1, <1>2 DEF PeppersKept, RotationsKnowPeppers, Rotating
    <2>4. PepperMatchesHashes'
        BY <1>1, <1>2 DEF PeppersKept, PepperMatchesHashes, Rotating
    <2> QED BY <2>1, <2>2, <2>3, <2>4 DEF PeppersKept
<1> QED BY <1>3, <1>4, <1>5, <1>6

\* A logout, a refresh, an unlock and a forced logout read the row, and no more, at first.
LEMMA KeepsLogout ==
    ASSUME AccountsInv, NEW r \in Requests, NEW u \in Users, Logout(r, u)
    PROVE  AccountsInv'
<1> DEFINE d == Changed(u, {"token", "expired"})
<1> PICK n : n = [Idle EXCEPT !.kind = "logout", !.user = u, !.pc = "write", !.dirty = d]
    OBVIOUS
<1>1. d \in SUBSET Columns /\ d \subseteq {"token", "expired"}
    BY DEF Changed, Columns
<1>2. n \in Reqs
    BY <1>1, IdleIsSound DEF Reqs
<1>3. n.kind = "logout" /\ n.pc = "write" /\ n.dirty = d
    BY <1>1 DEF Idle
<1>4. Sound(n)
    BY <1>1, <1>3 DEF Sound
<1> QED BY <1>2, <1>3, <1>4, QuietRequest DEF Logout

\* The same for /auth/refresh.
LEMMA KeepsRefresh ==
    ASSUME AccountsInv, NEW r \in Requests, NEW u \in Users, Refresh(r, u)
    PROVE  AccountsInv'
<1> PICK n : n = [Idle EXCEPT !.kind = "refresh", !.user = u, !.pc = "extend"]
    OBVIOUS
<1>1. n \in Reqs
    BY IdleIsSound DEF Reqs
<1>2. n.kind = "refresh" /\ n.pc = "extend"
    BY DEF Idle
<1>3. Sound(n)
    BY <1>2 DEF Sound
<1> QED BY <1>1, <1>2, <1>3, QuietRequest DEF Refresh

\* The same for /unlock.
LEMMA KeepsUnlock ==
    ASSUME AccountsInv, NEW r \in Requests, NEW u \in Subs, Unlock(r, u)
    PROVE  AccountsInv'
<1> DEFINE d == Changed(u, ClearedBy("unlock"))
<1> PICK n : n = [Idle EXCEPT !.kind = "unlock", !.user = u, !.pc = "write", !.dirty = d]
    OBVIOUS
<1>1. d \in SUBSET Columns /\ d \subseteq {"required", "failed", "locked", "token", "expired"}
    BY DEF Changed, Columns, ClearedBy
<1>2. n \in Reqs
    BY <1>1, IdleIsSound DEF Reqs, Users
<1>3. n.kind = "unlock" /\ n.pc = "write" /\ n.dirty = d
    BY <1>1 DEF Idle
<1>4. Sound(n)
    BY <1>1, <1>3 DEF Sound
<1> QED BY <1>2, <1>3, <1>4, QuietRequest DEF Unlock

\* The same for /force-logout.
LEMMA KeepsForceLogout ==
    ASSUME AccountsInv, NEW r \in Requests, NEW u \in Subs, ForceLogout(r, u)
    PROVE  AccountsInv'
<1> DEFINE d == Changed(u, ClearedBy("force"))
<1> PICK n : n = [Idle EXCEPT !.kind = "force", !.user = u, !.pc = "write", !.dirty = d]
    OBVIOUS
<1>1. d \in SUBSET Columns /\ d \subseteq {"token", "expired"}
    BY DEF Changed, Columns, ClearedBy
<1>2. n \in Reqs
    BY <1>1, IdleIsSound DEF Reqs, Users
<1>3. n.kind = "force" /\ n.pc = "write" /\ n.dirty = d
    BY <1>1 DEF Idle
<1>4. Sound(n)
    BY <1>1, <1>3 DEF Sound
<1> QED BY <1>2, <1>3, <1>4, QuietRequest DEF ForceLogout

\* A rotation that fails before it has written anything.
LEMMA KeepsWriteEnvFails ==
    ASSUME AccountsInv, NEW r \in Requests, WriteEnvFails(r)
    PROVE  AccountsInv'
<1>1. Idle.kind = "none"
    BY DEF Idle
<1> QED BY <1>1, IdleIsSound, QuietRequest DEF WriteEnvFails, Finish

\* A login begins on an unlocked account, whose guesses are below the threshold.
LEMMA KeepsSwitch ==
    ASSUME AccountsInv, NEW r \in Requests, NEW u \in Users, NEW pin \in Pins, Switch(r, u, pin)
    PROVE  AccountsInv'
<1> USE DEF AccountsInv
<1> DEFINE n == [Idle EXCEPT
            !.kind = "switch", !.user = u, !.pin = pin, !.hash = account[u].hash,
            !.pc = IF u = Owner \/ account[u].required THEN "verify" ELSE "passed",
            !.dirty = Changed(u, {"failed"})]
<1>1. /\ req' = [req EXCEPT ![r] = n] /\ UNCHANGED <<account, env, minted, guesses, opened, torn>>
      /\ req[r].pc = "idle" /\ account[u].exists /\ ~account[u].locked
    BY DEF Switch
<1>2. n \in Reqs
    <2>1. Changed(u, {"failed"}) \in SUBSET Columns
        BY DEF Changed, Columns
    <2> QED BY <2>1, AccountsAssumption DEF Typed, AccountsTypeOK, Idle, Reqs
<1>3. Sound(n)
    BY DEF Sound, Idle, Changed
<1>4. n.kind = "switch" /\ n.user = u /\ n.hash = account[u].hash /\ n.pc \in {"verify", "passed"}
    BY DEF Idle
<1> HIDE DEF n
<1>5. /\ req' \in [Requests -> Reqs] /\ \A o \in Requests : Sound(req'[o])
      /\ req'[r] = n /\ \A o \in Requests \ {r} : req'[o] = req[o]
    BY <1>1, <1>2, <1>3, OneRequest
<1>6. req[r].kind = "none"
    BY <1>1 DEF Typed, Sound, Idle
<1>7. Typed'
    BY <1>1, <1>5 DEF Typed, AccountsTypeOK, Reqs
<1>8. GuessesCounted'
    <2> SUFFICES ASSUME NEW v \in Users
                 PROVE  guesses[v] + Cardinality(Guessing(v)') < LockAt + Cardinality(Requests)
        BY <1>1 DEF GuessesCounted
    <2>1. CASE v = u
        <3>1. guesses[u] < LockAt /\ guesses[u] \in Nat
            BY <1>1, AccountsAssumption DEF GuessesCounted, Typed, AccountsTypeOK
        <3>2. /\ Cardinality(Guessing(u)') \in Nat /\ Cardinality(Requests) \in Nat
              /\ Cardinality(Guessing(u)') <= Cardinality(Requests)
            BY RequestCard DEF Guessing
        <3> QED BY <3>1, <3>2, <2>1, AccountsAssumption
    <2>2. CASE v # u
        <3>1. Guessing(v)' \subseteq Guessing(v)
            BY <1>4, <1>5, <2>2 DEF Guessing
        <3>2. /\ Cardinality(Guessing(v)') <= Cardinality(Guessing(v)) /\ Cardinality(Guessing(v)') \in Nat
              /\ Cardinality(Guessing(v)) \in Nat /\ Cardinality(Requests) \in Nat
            BY <3>1, RequestCard, FS_Subset DEF Guessing
        <3> QED BY <3>2, AccountsAssumption DEF GuessesCounted, Typed, AccountsTypeOK
    <2> QED BY <2>1, <2>2
<1>9. PinsKept'
    <2>2. LoginsKnowPins'
        BY <1>1, <1>4, <1>5 DEF PinsKept, LoginsKnowPins, PinKnown, LoggingIn, Reqs, Typed, AccountsTypeOK
    <2>3. ResetsEndSessions'
        BY <1>1, <1>4, <1>5 DEF PinsKept, ResetsEndSessions
    <2>4. RotationsKnowPins'
        BY <1>1, <1>4, <1>5 DEF PinsKept, RotationsKnowPins, Rotating
    <2> QED BY <1>1, <2>2, <2>3, <2>4 DEF PinsKept, SessionPinIsCurrent
<1>10. PeppersKept'
    BY <1>1, <1>4, <1>5, <1>6 DEF PeppersKept, RotationsAlone, Rotating, Changing, HashesFresh,
        RotationsKnowPeppers, PepperMatchesHashes
<1> QED BY <1>7, <1>8, <1>9, <1>10

\* A PIN is checked; a wrong one is still to be counted.
LEMMA KeepsVerify ==
    ASSUME AccountsInv, NEW r \in Requests, Verify(r)
    PROVE  AccountsInv'
<1> USE DEF AccountsInv
<1> DEFINE n == IF Verifies(req[r].pin, req[r].hash, env)
                THEN [req[r] EXCEPT !.pc = "passed", !.pin = NoPin]
                ELSE [Idle EXCEPT !.kind = "switch", !.user = req[r].user, !.pc = "failed"]
<1>1. /\ req' = [req EXCEPT ![r] = n] /\ UNCHANGED <<account, env, minted, guesses, opened, torn>>
      /\ req[r].pc = "verify"
    BY DEF Verify
<1>2. req[r] \in Reqs /\ Sound(req[r]) /\ req[r].kind = "switch"
    BY <1>1 DEF Typed, AccountsTypeOK, Reqs, Sound
<1>3. n \in Reqs /\ Sound(n)
    <2>1. n \in Reqs
        BY <1>2, IdleIsSound DEF Reqs
    <2>2. /\ n.kind = "switch" /\ n.pc \in {"passed", "failed"}
          /\ n.dirty = req[r].dirty \/ n.dirty = {}
        BY <1>2 DEF Reqs, Idle
    <2> HIDE DEF n
    <2>3. Sound(n)
        BY <1>2, <2>2 DEF Sound
    <2> QED BY <2>1, <2>3
<1>4. /\ n.kind = "switch" /\ n.user = req[r].user /\ n.pc \in {"passed", "failed"}
      /\ n.pc = "passed" => n.hash = req[r].hash /\ n.overtaken = req[r].overtaken
    BY <1>2 DEF Idle, Reqs
<1> HIDE DEF n
<1>5. /\ req' \in [Requests -> Reqs] /\ \A o \in Requests : Sound(req'[o])
      /\ req'[r] = n /\ \A o \in Requests \ {r} : req'[o] = req[o]
    BY <1>1, <1>3, OneRequest
<1>6. Typed'
    BY <1>1, <1>5 DEF Typed, AccountsTypeOK, Reqs
<1>7. GuessesCounted'
    <2>1. \A u \in Users : Guessing(u)' \subseteq Guessing(u)
        BY <1>1, <1>4, <1>5 DEF Guessing
    <2> QED BY <1>1, <2>1, NoMoreGuesses DEF Typed, AccountsTypeOK, Rows
<1>8. PinsKept'
    <2>2. LoginsKnowPins'
        BY <1>1, <1>2, <1>4, <1>5 DEF PinsKept, LoginsKnowPins, PinKnown, LoggingIn, Reqs, Typed, AccountsTypeOK
    <2>3. ResetsEndSessions'
        BY <1>1, <1>4, <1>5 DEF PinsKept, ResetsEndSessions
    <2>4. RotationsKnowPins'
        BY <1>1, <1>4, <1>5 DEF PinsKept, RotationsKnowPins, Rotating
    <2> QED BY <1>1, <2>2, <2>3, <2>4 DEF PinsKept, SessionPinIsCurrent
<1>9. PeppersKept'
    BY <1>1, <1>2, <1>4, <1>5 DEF PeppersKept, RotationsAlone, Rotating, Changing, HashesFresh,
        RotationsKnowPeppers, PepperMatchesHashes
<1> QED BY <1>6, <1>7, <1>8, <1>9

\* A request that is finished: it guesses, logs in, changes and rotates no more.
LEMMA FinishedIs ==
    ASSUME Typed, NEW r \in Requests, Finish(r)
    PROVE  /\ req' \in [Requests -> Reqs] /\ \A o \in Requests : Sound(req'[o])
           /\ req'[r] = Idle /\ \A o \in Requests \ {r} : req'[o] = req[o]
           /\ Idle.kind = "none" /\ Idle.pc = "idle"
           /\ \A u \in Users : Guessing(u)' = Guessing(u) \ {r}
<1>1. /\ req' \in [Requests -> Reqs] /\ \A o \in Requests : Sound(req'[o])
      /\ req'[r] = Idle /\ \A o \in Requests \ {r} : req'[o] = req[o]
    BY IdleIsSound, OneRequest DEF Finish
<1>2. Idle.kind = "none" /\ Idle.pc = "idle"
    BY DEF Idle
<1> QED BY <1>1, <1>2 DEF Guessing

\* A request that has changed the PIN of u is finished, and its logins in flight know it.
LEMMA OvertakenAre ==
    ASSUME Typed, NEW r \in Requests, NEW u \in Users, req' = [Overtake(u, req) EXCEPT ![r] = Idle]
    PROVE  /\ req' \in [Requests -> Reqs] /\ \A o \in Requests : Sound(req'[o])
           /\ req'[r] = Idle /\ Idle.kind = "none" /\ Idle.pc = "idle"
           /\ \A o \in Requests \ {r} :
                /\ req'[o].kind = req[o].kind /\ req'[o].user = req[o].user /\ req'[o].pc = req[o].pc
                /\ req'[o].hash = req[o].hash /\ req'[o].pepper = req[o].pepper
                /\ req'[o].dirty = req[o].dirty /\ req'[o].others = req[o].others
                /\ req[o].kind = "switch" /\ req[o].user = u => req'[o].overtaken
                /\ req[o].kind # "switch" \/ req[o].user # u => req'[o] = req[o]
           /\ \A v \in Users : Guessing(v)' = Guessing(v) \ {r}
<1> DEFINE M(o) == [req[o] EXCEPT !.overtaken = TRUE]
<1>1. req \in [Requests -> Reqs]
    BY DEF Typed, AccountsTypeOK, Reqs
<1>2. /\ req'[r] = Idle
      /\ \A o \in Requests \ {r} :
            req'[o] = IF req[o].kind = "switch" /\ req[o].user = u THEN M(o) ELSE req[o]
    BY DEF Overtake
<1>3. \A o \in Requests :
        /\ M(o) \in Reqs /\ M(o).overtaken = TRUE
        /\ M(o).kind = req[o].kind /\ M(o).user = req[o].user /\ M(o).pc = req[o].pc
        /\ M(o).hash = req[o].hash /\ M(o).pin = req[o].pin /\ M(o).pepper = req[o].pepper
        /\ M(o).dirty = req[o].dirty /\ M(o).others = req[o].others
    BY <1>1 DEF Reqs
<1>4. \A o \in Requests : req[o].kind = "switch" => Sound(M(o))
    BY <1>3 DEF Typed, Sound, Idle
<1> HIDE DEF M
<1>5. Idle.kind = "none" /\ Idle.pc = "idle"
    BY DEF Idle
<1>6. \A o \in Requests \ {r} :
        /\ req'[o].kind = req[o].kind /\ req'[o].user = req[o].user /\ req'[o].pc = req[o].pc
        /\ req'[o].hash = req[o].hash /\ req'[o].pepper = req[o].pepper
        /\ req'[o].dirty = req[o].dirty /\ req'[o].others = req[o].others
        /\ req[o].kind = "switch" /\ req[o].user = u => req'[o].overtaken
        /\ req[o].kind # "switch" \/ req[o].user # u => req'[o] = req[o]
        /\ req'[o] \in Reqs /\ Sound(req'[o])
    BY <1>1, <1>2, <1>3, <1>4 DEF Typed
<1>7. req' \in [Requests -> Reqs]
    <2>1. \A o \in Requests : req'[o] \in Reqs
        BY <1>2, <1>6, IdleIsSound
    <2>2. req' = [o \in Requests |-> req'[o]]
        BY DEF Overtake
    <2> QED BY <2>1, <2>2
<1>8. \A v \in Users : Guessing(v)' = Guessing(v) \ {r}
    BY <1>2, <1>5, <1>6 DEF Guessing
<1> QED BY <1>2, <1>5, <1>6, <1>7, <1>8, IdleIsSound

\* While a row keeps its PIN and its session, what is known of these stays known.
LEMMA SameRows ==
    ASSUME AccountsInv, NEW r \in Requests, Finish(r), account' \in [Users -> Rows],
           \A u \in Users : /\ account'[u].exists = account[u].exists
                            /\ account'[u].hash = account[u].hash
                            /\ account'[u].token \in {account[u].token, NoToken},
           ~Rotating(r) \/ req[r].pc = "env", UNCHANGED <<env, opened, torn>>
    PROVE  PinsKept' /\ PeppersKept'
<1> USE DEF AccountsInv
<1>1. /\ req'[r] = Idle /\ \A o \in Requests \ {r} : req'[o] = req[o]
      /\ Idle.kind = "none" /\ Idle.pc = "idle" /\ req' \in [Requests -> Reqs]
    BY FinishedIs
<1>2. Owner \in Users
    BY DEF Users
<1>3. LoginsKnowPins'
    BY <1>1, <1>2 DEF PinsKept, LoginsKnowPins, PinKnown, LoggingIn, Reqs
<1>4. ResetsEndSessions'
    BY <1>1 DEF PinsKept, ResetsEndSessions, Reqs
<1>5. RotationsKnowPins'
    BY <1>1, <1>2 DEF PinsKept, RotationsKnowPins, Rotating
<1>6. SessionPinIsCurrent'
    BY DEF PinsKept, SessionPinIsCurrent
<1>7. PeppersKept'
    <2> SUFFICES ASSUME ~torn PROVE PeppersKept'
        BY DEF PeppersKept
    <2>1. RotationsAlone'
        BY <1>1 DEF PeppersKept, RotationsAlone, Rotating, Changing
    <2>2. HashesFresh'
        BY <1>1 DEF PeppersKept, HashesFresh
    <2>3. RotationsKnowPeppers'
        BY <1>1 DEF PeppersKept, RotationsKnowPeppers, Rotating, Users
    <2>4. PepperMatchesHashes'
        BY <1>1 DEF PeppersKept, PepperMatchesHashes, Rotating
    <2> QED BY <2>1, <2>2, <2>3, <2>4 DEF PeppersKept
<1> QED BY <1>3, <1>4, <1>5, <1>6, <1>7 DEF PinsKept

\* One failure more in a row.
LEMMA OneMoreIs ==
    ASSUME NEW row \in Rows
    PROVE  LET n == OneMore(row) IN
           /\ n \in Rows /\ n.exists = row.exists /\ n.hash = row.hash
           /\ n.token = row.token /\ n.failed = row.failed + 1
           /\ n.locked <=> row.locked \/ row.failed + 1 >= LockAt
<1> DEFINE b == row.locked \/ row.failed + 1 >= LockAt
<1>1. OneMore(row) = [row EXCEPT !.failed = row.failed + 1, !.locked = b]
    BY DEF OneMore
<1>2. b \in BOOLEAN
    OBVIOUS
<1>3. row.failed + 1 \in Nat
    BY DEF Rows
<1> HIDE DEF b
<1>4. OneMore(row) \in Rows
    BY <1>1, <1>2, <1>3 DEF Rows
<1>5. /\ OneMore(row).exists = row.exists /\ OneMore(row).hash = row.hash
      /\ OneMore(row).token = row.token /\ OneMore(row).failed = row.failed + 1
      /\ OneMore(row).locked = b
    BY <1>1 DEF Rows
<1> QED BY <1>4, <1>5 DEF b

\* A failure is counted: the request guesses no more, and its guess is one more.
LEMMA KeepsRecordFailure ==
    ASSUME AccountsInv, NEW r \in Requests, RecordFailure(r)
    PROVE  AccountsInv'
<1> USE DEF AccountsInv
<1> DEFINE u == req[r].user
           n == OneMore(account[u])
<1>1. req[r].pc = "failed" /\ Finish(r) /\ UNCHANGED <<env, minted, opened, torn>>
    BY DEF RecordFailure
<1>2. u \in Users /\ req[r].kind = "switch" /\ account[u] \in Rows
    BY <1>1 DEF Typed, AccountsTypeOK, Sound, Rows
<1>3. /\ n \in Rows /\ n.exists = account[u].exists /\ n.hash = account[u].hash
      /\ n.token = account[u].token /\ n.failed = account[u].failed + 1
      /\ n.locked <=> account[u].locked \/ account[u].failed + 1 >= LockAt
    BY <1>2, OneMoreIs
<1>4. \/ ~account[u].exists /\ UNCHANGED <<account, guesses>>
      \/ /\ account[u].exists /\ account' = [account EXCEPT ![u] = n]
         /\ guesses' = [guesses EXCEPT ![u] = @ + 1]
    BY DEF RecordFailure
<1> HIDE DEF n
<1>5. /\ account' \in [Users -> Rows] /\ guesses' \in [Users -> Nat]
      /\ \A v \in Users \ {u} : account'[v] = account[v] /\ guesses'[v] = guesses[v]
      /\ \/ account'[u] = account[u] /\ guesses'[u] = guesses[u]
         \/ account'[u] = n /\ guesses'[u] = guesses[u] + 1
    <2>1. CASE ~account[u].exists
        BY <1>4, <2>1 DEF Typed, AccountsTypeOK, Rows
    <2>2. CASE account[u].exists
        <3>1. /\ account' \in [Users -> Rows] /\ account'[u] = n
              /\ \A v \in Users \ {u} : account'[v] = account[v]
            BY <1>2, <1>3, <1>4, <2>2, OneRow
        <3>2. guesses \in [Users -> Nat] /\ guesses' = [guesses EXCEPT ![u] = @ + 1]
            BY <1>4, <2>2 DEF Typed, AccountsTypeOK
        <3>3. /\ guesses' \in [Users -> Nat] /\ guesses'[u] = guesses[u] + 1
              /\ \A v \in Users \ {u} : guesses'[v] = guesses[v]
            BY <1>2, <3>2
        <3> QED BY <3>1, <3>3
    <2> QED BY <2>1, <2>2
<1>6. Typed'
    <2>1. \A v \in Users : ~account'[v].exists => account'[v] = NoAccount
        BY <1>3, <1>4, <1>5 DEF Typed
    <2> QED BY <1>1, <1>5, <2>1, FinishedIs DEF Typed, AccountsTypeOK, Reqs, Rows
<1>7. GuessesCounted'
    <2> SUFFICES ASSUME NEW v \in Users
                 PROVE  /\ guesses'[v] + Cardinality(Guessing(v)') < LockAt + Cardinality(Requests)
                        /\ guesses'[v] <= account'[v].failed
                        /\ guesses'[v] >= LockAt => account'[v].locked
        BY DEF GuessesCounted
    <2>1. Guessing(v)' = Guessing(v) \ {r}
        BY <1>1, FinishedIs
    <2>2. /\ guesses[v] \in Nat /\ account[v].failed \in Nat /\ Cardinality(Guessing(v)) \in Nat
          /\ Cardinality(Guessing(v)') \in Nat /\ Cardinality(Requests) \in Nat
        BY RequestCard DEF Typed, AccountsTypeOK, Guessing
    <2>3. Cardinality(Guessing(v)') <= Cardinality(Guessing(v))
        BY <2>1, RequestCard, FS_Subset DEF Guessing
    <2>4. v = u => Cardinality(Guessing(v)') = Cardinality(Guessing(v)) - 1
        <3>1. v = u => r \in Guessing(v)
            BY <1>1 DEF Guessing
        <3>2. IsFiniteSet(Guessing(v))
            BY RequestCard DEF Guessing
        <3> QED BY <2>1, <3>1, <3>2, FS_RemoveElement
    <2>5. /\ guesses[v] + Cardinality(Guessing(v)) < LockAt + Cardinality(Requests)
          /\ guesses[v] <= account[v].failed /\ (guesses[v] >= LockAt => account[v].locked)
        BY DEF GuessesCounted
    <2> QED BY <1>3, <1>5, <2>2, <2>3, <2>4, <2>5, AccountsAssumption
<1>8. PinsKept' /\ PeppersKept'
    <2>1. \A v \in Users : /\ account'[v].exists = account[v].exists
                           /\ account'[v].hash = account[v].hash
                           /\ account'[v].token \in {account[v].token, NoToken}
        BY <1>3, <1>5
    <2> QED BY <1>1, <1>2, <1>5, <2>1, SameRows DEF Rotating
<1> QED BY <1>6, <1>7, <1>8

\* A refreshed session is the one there was.
LEMMA KeepsExtend ==
    ASSUME AccountsInv, NEW r \in Requests, Extend(r)
    PROVE  AccountsInv'
<1> USE DEF AccountsInv
<1> DEFINE u == req[r].user
           n == [account[u] EXCEPT !.expired = FALSE]
<1>1. req[r].pc = "extend" /\ Finish(r) /\ UNCHANGED <<env, minted, guesses, opened, torn>>
    BY DEF Extend
<1>2. u \in Users /\ account[u] \in Rows /\ req[r].kind = "refresh"
    BY <1>1 DEF Typed, AccountsTypeOK, Rows, Sound
<1>3. /\ n \in Rows /\ n.exists = account[u].exists /\ n.hash = account[u].hash
      /\ n.token = account[u].token /\ n.failed = account[u].failed /\ n.locked = account[u].locked
    BY <1>2 DEF Rows
<1>4. account' = account \/ (account[u].exists /\ account' = [account EXCEPT ![u] = n])
    BY DEF Extend
<1> HIDE DEF n
<1>5. /\ account' \in [Users -> Rows]
      /\ \A v \in Users \ {u} : account'[v] = account[v]
      /\ account'[u] = account[u] \/ (account[u].exists /\ account'[u] = n)
    BY <1>2, <1>3, <1>4, OneRow DEF Typed, AccountsTypeOK, Rows
<1>6. Typed'
    <2>1. \A v \in Users : ~account'[v].exists => account'[v] = NoAccount
        BY <1>3, <1>5 DEF Typed
    <2> QED BY <1>1, <1>5, <2>1, FinishedIs DEF Typed, AccountsTypeOK, Reqs, Rows
<1>7. GuessesCounted'
    <2>1. \A v \in Users : Guessing(v)' \subseteq Guessing(v)
        BY <1>1, FinishedIs
    <2>2. \A v \in Users : account'[v].failed = account[v].failed /\ account'[v].locked = account[v].locked
        BY <1>3, <1>5
    <2> QED BY <1>1, <1>5, <2>1, <2>2, NoMoreGuesses DEF Typed, AccountsTypeOK
<1>8. PinsKept' /\ PeppersKept'
    <2>1. \A v \in Users : /\ account'[v].exists = account[v].exists
                           /\ account'[v].hash = account[v].hash
                           /\ account'[v].token \in {account[v].token, NoToken}
        BY <1>3, <1>5
    <2> QED BY <1>1, <1>2, <1>5, <2>1, SameRows DEF Rotating
<1> QED BY <1>6, <1>7, <1>8

\* The failures are forgotten, and the guesses with them.
LEMMA KeepsForgetFailures ==
    ASSUME AccountsInv, NEW r \in Requests, ForgetFailures(r)
    PROVE  AccountsInv'
<1> USE DEF AccountsInv
<1> DEFINE u == req[r].user
           n == [req[r] EXCEPT !.pc = "issue"]
<1>1. req[r].pc = "passed" /\ UNCHANGED <<env, minted, opened, torn>>
    BY DEF ForgetFailures
<1>2. /\ req[r] \in Reqs /\ Sound(req[r]) /\ u \in Users /\ account[u] \in Rows
      /\ req[r].kind = "switch" /\ req[r].dirty \subseteq {"failed"}
    BY <1>1 DEF Typed, AccountsTypeOK, Reqs, Rows, Sound
<1>3. CASE ~account[u].exists
    <2>1. Finish(r) /\ UNCHANGED <<account, guesses>>
        BY <1>3 DEF ForgetFailures
    <2>2. Typed'
        BY <1>1, <2>1, FinishedIs DEF Typed, AccountsTypeOK, Reqs
    <2>3. GuessesCounted'
        <3>1. \A v \in Users : Guessing(v)' \subseteq Guessing(v)
            BY <2>1, FinishedIs
        <3> QED BY <2>1, <3>1, NoMoreGuesses DEF Typed, AccountsTypeOK, Rows
    <2>4. PinsKept' /\ PeppersKept'
        BY <1>1, <1>2, <2>1, SameRows DEF Typed, AccountsTypeOK, Rows, Rotating
    <2> QED BY <2>2, <2>3, <2>4
<1>4. CASE account[u].exists
    <2> PICK c : c = Cleared(account[u], req[r].dirty)
        OBVIOUS
    <2>1. /\ account' = [account EXCEPT ![u] = c]
          /\ guesses' = [guesses EXCEPT ![u] = 0] /\ req' = [req EXCEPT ![r] = n]
        BY <1>4 DEF ForgetFailures, Goto
    <2>2. /\ c \in Rows /\ c.exists = account[u].exists /\ c.hash = account[u].hash
          /\ c.token = account[u].token
        <3>1. req[r].dirty \in SUBSET Columns
            BY <1>2 DEF Reqs
        <3>2. "hash" \notin req[r].dirty /\ "token" \notin req[r].dirty
            BY <1>2
        <3>3. account[u] \in Rows
            BY <1>2
        <3> QED BY <3>1, <3>2, <3>3, ClearedIs
    <2>3. n \in Reqs /\ Sound(n)
        <3>1. n \in Reqs
            BY <1>2 DEF Reqs
        <3>2. n.kind = "switch" /\ n.pc = "issue" /\ n.dirty = req[r].dirty
            BY <1>2 DEF Reqs
        <3> HIDE DEF n
        <3> QED BY <1>2, <3>1, <3>2 DEF Sound
    <2>4. n.kind = "switch" /\ n.pc = "issue" /\ n.user = u /\ n.hash = req[r].hash /\ n.overtaken = req[r].overtaken
        BY <1>2 DEF Reqs
    <2> HIDE DEF n
    <2>5. /\ req' \in [Requests -> Reqs] /\ \A o \in Requests : Sound(req'[o])
          /\ req'[r] = n /\ \A o \in Requests \ {r} : req'[o] = req[o]
        BY <2>1, <2>3, OneRequest
    <2>6. /\ account' \in [Users -> Rows] /\ guesses' \in [Users -> Nat] /\ guesses'[u] = 0
          /\ \A v \in Users \ {u} : account'[v] = account[v] /\ guesses'[v] = guesses[v]
          /\ account'[u] = c
        <3>1. /\ account' \in [Users -> Rows] /\ account'[u] = c
              /\ \A v \in Users \ {u} : account'[v] = account[v]
            BY <1>2, <2>1, <2>2, OneRow
        <3>2. /\ guesses' \in [Users -> Nat] /\ guesses'[u] = 0
              /\ \A v \in Users \ {u} : guesses'[v] = guesses[v]
            BY <1>2, <2>1 DEF Typed, AccountsTypeOK
        <3> QED BY <3>1, <3>2
    <2>7. Typed'
        <3>1. \A v \in Users : ~account'[v].exists => account'[v] = NoAccount
            BY <1>4, <2>2, <2>6 DEF Typed
        <3> QED BY <1>1, <2>5, <2>6, <3>1 DEF Typed, AccountsTypeOK, Reqs, Rows
    <2>8. GuessesCounted'
        <3>1. \A v \in Users : Guessing(v)' \subseteq Guessing(v)
            BY <2>4, <2>5 DEF Guessing
        <3> QED BY <2>6, <3>1, NoMoreGuesses DEF Typed, AccountsTypeOK
    <2>9. PinsKept'
        <3>2. LoginsKnowPins'
            <4>1. \A v \in Users : account'[v].exists = account[v].exists /\ account'[v].hash = account[v].hash
                BY <2>2, <2>6
            <4>2. Owner \in Users
                BY DEF Users
            <4> QED BY <1>1, <1>2, <2>4, <2>5, <4>1, <4>2 DEF PinsKept, LoginsKnowPins, PinKnown, LoggingIn, Reqs
        <3>3. ResetsEndSessions'
            BY <1>1, <2>2, <2>4, <2>5, <2>6 DEF PinsKept, ResetsEndSessions, Reqs
        <3>4. RotationsKnowPins'
            BY <2>2, <2>4, <2>5, <2>6 DEF PinsKept, RotationsKnowPins, Rotating, Users
        <3>5. SessionPinIsCurrent'
            BY <1>1, <2>2, <2>6 DEF PinsKept, SessionPinIsCurrent
        <3> QED BY <3>2, <3>3, <3>4, <3>5 DEF PinsKept
    <2>10. PeppersKept'
        <3> SUFFICES ASSUME ~torn PROVE PeppersKept'
            BY <1>1 DEF PeppersKept
        <3>1. RotationsAlone'
            BY <1>2, <2>4, <2>5 DEF PeppersKept, RotationsAlone, Rotating, Changing
        <3>2. HashesFresh'
            BY <1>1, <2>4, <2>5 DEF PeppersKept, HashesFresh
        <3>3. RotationsKnowPeppers'
            BY <1>1, <2>2, <2>4, <2>5, <2>6 DEF PeppersKept, RotationsKnowPeppers, Rotating, Users
        <3>4. PepperMatchesHashes'
            BY <1>1, <2>2, <2>4, <2>5, <2>6 DEF PeppersKept, PepperMatchesHashes, Rotating
        <3> QED BY <3>1, <3>2, <3>3, <3>4 DEF PeppersKept
    <2> QED BY <2>7, <2>8, <2>9, <2>10
<1> QED BY <1>3, <1>4

\* A session is opened under the PIN that the login has read, which is the account's.
LEMMA KeepsIssueSession ==
    ASSUME AccountsInv, NEW r \in Requests, IssueSession(r)
    PROVE  AccountsInv'
<1> USE DEF AccountsInv
<1> DEFINE u == req[r].user
           n == [account[u] EXCEPT !.token = minted + 1, !.expired = FALSE]
           o == IF req[r].overtaken \/ BlindReset(u) \/ req[r].hash = NoHash THEN NoPin ELSE req[r].hash.pin
<1>1. req[r].pc = "issue" /\ Finish(r) /\ UNCHANGED <<env, guesses, torn>>
    BY DEF IssueSession
<1>2. /\ req[r] \in Reqs /\ Sound(req[r]) /\ u \in Users /\ account[u] \in Rows
      /\ req[r].kind \in {"switch", "setup"}
    BY <1>1 DEF Typed, AccountsTypeOK, Reqs, Rows, Sound
<1>3. minted \in 0..MaxTokens /\ (minted < MaxTokens => minted + 1 \in Tokens /\ minted + 1 # NoToken)
    BY AccountsAssumption DEF Typed, AccountsTypeOK, Tokens, NoToken
<1>4. \/ UNCHANGED <<account, minted, opened>>
      \/ /\ account[u].exists /\ minted < MaxTokens
         /\ minted' = minted + 1 /\ account' = [account EXCEPT ![u] = n]
         /\ opened' = [opened EXCEPT ![u] = o]
    BY DEF IssueSession
<1>5. minted < MaxTokens =>
        /\ n \in Rows /\ n.exists = account[u].exists /\ n.hash = account[u].hash
        /\ n.failed = account[u].failed /\ n.locked = account[u].locked
    BY <1>2, <1>3 DEF Rows
<1>6. o \in Pins \cup {NoPin}
    BY <1>2 DEF Reqs, Hashes
<1> HIDE DEF n, o
<1>7. \/ UNCHANGED <<account, minted, opened>>
      \/ /\ account[u].exists /\ n \in Rows /\ minted' \in 0..MaxTokens
         /\ account' \in [Users -> Rows] /\ opened' \in [Users -> Pins \cup {NoPin}]
         /\ account'[u] = n /\ opened'[u] = o
         /\ \A v \in Users \ {u} : account'[v] = account[v] /\ opened'[v] = opened[v]
         /\ n.exists = account[u].exists /\ n.hash = account[u].hash
         /\ n.failed = account[u].failed /\ n.locked = account[u].locked
    BY <1>2, <1>3, <1>4, <1>5, <1>6, OneRow, AccountsAssumption DEF Typed, AccountsTypeOK, Tokens
<1>8. \A v \in Users : /\ account'[v].exists = account[v].exists /\ account'[v].hash = account[v].hash
                       /\ account'[v].failed = account[v].failed /\ account'[v].locked = account[v].locked
    BY <1>7
<1>9. account' \in [Users -> Rows] /\ opened' \in [Users -> Pins \cup {NoPin}] /\ minted' \in 0..MaxTokens
    BY <1>7, <1>3 DEF Typed, AccountsTypeOK, Rows
<1>10. /\ req'[r] = Idle /\ \A p \in Requests \ {r} : req'[p] = req[p]
       /\ Idle.kind = "none" /\ Idle.pc = "idle" /\ req' \in [Requests -> Reqs]
    BY <1>1, FinishedIs
<1>11. Typed'
    <2>1. \A v \in Users : ~account'[v].exists => account'[v] = NoAccount
        BY <1>7, <1>8 DEF Typed
    <2> QED BY <1>1, <1>9, <2>1, FinishedIs DEF Typed, AccountsTypeOK, Reqs, Rows
<1>12. GuessesCounted'
    <2>1. \A v \in Users : Guessing(v)' \subseteq Guessing(v)
        BY <1>1, FinishedIs
    <2> QED BY <1>1, <1>8, <1>9, <2>1, NoMoreGuesses DEF Typed, AccountsTypeOK
<1>13. PinsKept'
    <2>1. LoginsKnowPins'
        BY <1>8, <1>10 DEF PinsKept, LoginsKnowPins, PinKnown, LoggingIn, Reqs, Users
    <2>2. ResetsEndSessions'
        <3> SUFFICES ASSUME NEW p \in Requests, req'[p].kind = "reset", "token" \notin req'[p].dirty
                     PROVE  account'[req'[p].user].token = NoToken \/ opened'[req'[p].user] = NoPin
            BY DEF ResetsEndSessions
        <3>1. p # r /\ req'[p] = req[p] /\ req[p].kind = "reset" /\ req[p].user \in Users
            BY <1>10 DEF Reqs
        <3>2. CASE req[p].user # u
            BY <1>7, <3>1, <3>2 DEF PinsKept, ResetsEndSessions
        <3>3. CASE req[p].user = u
            <4>1. o = NoPin
                BY <3>1, <3>3 DEF o, BlindReset
            <4> QED BY <1>7, <3>1, <3>3, <4>1 DEF PinsKept, ResetsEndSessions
        <3> QED BY <3>2, <3>3
    <2>3. RotationsKnowPins'
        BY <1>8, <1>10 DEF PinsKept, RotationsKnowPins, Rotating, Users
    <2>4. SessionPinIsCurrent'
        <3>1. o # NoPin /\ account[u].hash # NoHash => o = account[u].hash.pin
            BY <1>1, <1>2 DEF o, PinsKept, LoginsKnowPins, PinKnown, LoggingIn
        <3> QED BY <1>7, <3>1 DEF PinsKept, SessionPinIsCurrent
    <2> QED BY <2>1, <2>2, <2>3, <2>4 DEF PinsKept
<1>14. PeppersKept'
    <2> SUFFICES ASSUME ~torn PROVE PeppersKept'
        BY <1>1 DEF PeppersKept
    <2>1. RotationsAlone'
        BY <1>10 DEF PeppersKept, RotationsAlone, Rotating, Changing
    <2>2. HashesFresh'
        BY <1>1, <1>10 DEF PeppersKept, HashesFresh
    <2>3. RotationsKnowPeppers'
        BY <1>1, <1>8, <1>10 DEF PeppersKept, RotationsKnowPeppers, Rotating, Users
    <2>4. PepperMatchesHashes'
        BY <1>1, <1>2, <1>8, <1>10 DEF PeppersKept, PepperMatchesHashes, Rotating
    <2> QED BY <2>1, <2>2, <2>3, <2>4 DEF PeppersKept
<1> QED BY <1>11, <1>12, <1>13, <1>14

\* A session that runs out, or an account whose PIN is no longer asked for, is as it was otherwise.
LEMMA SameRequests ==
    ASSUME AccountsInv, NEW u \in Users, NEW n \in Rows, account[u].exists,
           account' = [account EXCEPT ![u] = n],
           n.exists = account[u].exists, n.hash = account[u].hash, n.token = account[u].token,
           n.failed = account[u].failed, n.locked = account[u].locked,
           UNCHANGED <<env, req, minted, guesses, opened, torn>>
    PROVE  AccountsInv'
<1> USE DEF AccountsInv
<1>1. /\ account' \in [Users -> Rows]
      /\ account'[u] = n /\ \A v \in Users \ {u} : account'[v] = account[v]
    BY OneRow
<1>2. \A v \in Users : /\ account'[v].exists = account[v].exists /\ account'[v].hash = account[v].hash
                       /\ account'[v].token = account[v].token
                       /\ account'[v].failed = account[v].failed /\ account'[v].locked = account[v].locked
    BY <1>1
<1>3. Typed'
    <2>1. \A v \in Users : ~account'[v].exists => account'[v] = NoAccount
        BY <1>1, <1>2 DEF Typed
    <2> QED BY <1>1, <2>1 DEF Typed, AccountsTypeOK, Reqs, Rows
<1>4. GuessesCounted'
    BY <1>2 DEF GuessesCounted, Guessing
<1>5. PinsKept'
    <2>1. LoginsKnowPins'
        BY <1>2 DEF PinsKept, LoginsKnowPins, PinKnown, LoggingIn, Typed, AccountsTypeOK, Users
    <2>2. ResetsEndSessions'
        BY <1>2 DEF PinsKept, ResetsEndSessions, Typed, AccountsTypeOK
    <2>3. RotationsKnowPins'
        BY <1>2 DEF PinsKept, RotationsKnowPins, Rotating, Users
    <2>4. SessionPinIsCurrent'
        BY <1>2 DEF PinsKept, SessionPinIsCurrent
    <2> QED BY <2>1, <2>2, <2>3, <2>4 DEF PinsKept
<1>6. PeppersKept'
    BY <1>2 DEF PeppersKept, RotationsAlone, Changing, Rotating, HashesFresh, RotationsKnowPeppers,
                PepperMatchesHashes, Users
<1> QED BY <1>3, <1>4, <1>5, <1>6

\* session_token_expires_at passes.
LEMMA KeepsExpire ==
    ASSUME AccountsInv, NEW u \in Users, Expire(u)
    PROVE  AccountsInv'
<1> DEFINE n == [account[u] EXCEPT !.expired = TRUE]
<1>1. account[u] \in Rows /\ account[u].exists
    BY DEF AccountsInv, Typed, AccountsTypeOK, Rows, Expire, SignedIn
<1>2. /\ n \in Rows /\ n.exists = account[u].exists /\ n.hash = account[u].hash
      /\ n.token = account[u].token /\ n.failed = account[u].failed /\ n.locked = account[u].locked
    BY <1>1 DEF Rows
<1>3. account' = [account EXCEPT ![u] = n] /\ UNCHANGED <<env, req, minted, guesses, opened, torn>>
    BY DEF Expire
<1> HIDE DEF n
<1> QED BY <1>1, <1>2, <1>3, SameRequests

\* pin_required is set in a row that is there.
LEMMA KeepsPatchRequired ==
    ASSUME AccountsInv, NEW u \in Subs, NEW b \in BOOLEAN, PatchRequired(u, b)
    PROVE  AccountsInv'
<1> DEFINE n == [account[u] EXCEPT !.required = b]
<1>1. account[u] \in Rows /\ account[u].exists /\ u \in Users
    BY DEF AccountsInv, Typed, AccountsTypeOK, Rows, PatchRequired, Users
<1>2. /\ n \in Rows /\ n.exists = account[u].exists /\ n.hash = account[u].hash
      /\ n.token = account[u].token /\ n.failed = account[u].failed /\ n.locked = account[u].locked
    BY <1>1 DEF Rows
<1>3. account' = [account EXCEPT ![u] = n] /\ UNCHANGED <<env, req, minted, guesses, opened, torn>>
    BY DEF PatchRequired
<1> HIDE DEF n
<1> QED BY <1>1, <1>2, <1>3, SameRequests

\* An account that is deleted has no PIN, and the next one of that id begins anew.
LEMMA KeepsDeleteUser ==
    ASSUME AccountsInv, NEW u \in Subs, DeleteUser(u)
    PROVE  AccountsInv'
<1> USE DEF AccountsInv
<1>1. /\ account' = [account EXCEPT ![u] = NoAccount] /\ guesses' = [guesses EXCEPT ![u] = 0]
      /\ UNCHANGED <<env, req, minted, opened, torn>> /\ u \in Users /\ u # Owner
    BY AccountsAssumption DEF DeleteUser, Users
<1>2. /\ NoAccount \in Rows /\ NoAccount.hash = NoHash /\ NoAccount.token = NoToken
      /\ ~NoAccount.exists
    BY DEF NoAccount, Rows
<1>3. /\ account' \in [Users -> Rows]
      /\ account'[u] = NoAccount /\ \A v \in Users \ {u} : account'[v] = account[v]
    BY <1>1, <1>2, OneRow
<1>4. /\ guesses' \in [Users -> Nat] /\ guesses'[u] = 0
      /\ \A v \in Users \ {u} : guesses'[v] = guesses[v]
    BY <1>1 DEF Typed, AccountsTypeOK
<1>5. Typed'
    <2>1. \A v \in Users : ~account'[v].exists => account'[v] = NoAccount
        BY <1>3 DEF Typed
    <2> QED BY <1>1, <1>3, <1>4, <2>1 DEF Typed, AccountsTypeOK, Reqs, Rows
<1>6. GuessesCounted'
    <2>1. \A v \in Users : Guessing(v)' \subseteq Guessing(v)
        BY <1>1 DEF Guessing
    <2> QED BY <1>3, <1>4, <2>1, NoMoreGuesses
<1>7. PinsKept'
    <2>1. LoginsKnowPins'
        BY <1>1, <1>2, <1>3 DEF PinsKept, LoginsKnowPins, PinKnown, LoggingIn, Typed, AccountsTypeOK, Users
    <2>2. ResetsEndSessions'
        BY <1>1, <1>2, <1>3 DEF PinsKept, ResetsEndSessions, Typed, AccountsTypeOK
    <2>3. RotationsKnowPins'
        BY <1>1, <1>3 DEF PinsKept, RotationsKnowPins, Rotating, Users
    <2>4. SessionPinIsCurrent'
        BY <1>1, <1>2, <1>3 DEF PinsKept, SessionPinIsCurrent
    <2> QED BY <2>1, <2>2, <2>3, <2>4 DEF PinsKept
<1>8. PeppersKept'
    BY <1>1, <1>2, <1>3 DEF PeppersKept, RotationsAlone, Changing, Rotating, HashesFresh, RotationsKnowPeppers,
                            PepperMatchesHashes, Users
<1> QED BY <1>5, <1>6, <1>7, <1>8

\* The new PIN is hashed under the pepper of this moment.
LEMMA KeepsHashPin ==
    ASSUME AccountsInv, NEW r \in Requests, HashPin(r)
    PROVE  AccountsInv'
<1> USE DEF AccountsInv
<1> DEFINE h == [pin |-> req[r].pin, pepper |-> env]
           n == [req[r] EXCEPT !.pc = "write", !.pin = NoPin, !.hash = h]
<1>1. req[r].pc = "hash" /\ UNCHANGED <<account, env, minted, guesses, opened, torn>>
    BY DEF HashPin
<1>2. req[r] \in Reqs /\ Sound(req[r]) /\ req[r].kind = "reset" /\ req[r].pin \in Pins
    BY <1>1 DEF Typed, AccountsTypeOK, Reqs, Sound
<1>3. h \in Hashes /\ h # NoHash /\ h.pepper = env
    BY <1>2, AccountsAssumption DEF Hashes, Typed, AccountsTypeOK
<1>4. req' = [req EXCEPT ![r] = n]
    BY <1>2 DEF HashPin, Typed, AccountsTypeOK, Reqs
<1> HIDE DEF h
<1>5. n \in Reqs /\ Sound(n)
    BY <1>1, <1>2, <1>3 DEF Reqs, Sound
<1>6. n.kind = "reset" /\ n.pc = "write" /\ n.user = req[r].user /\ n.hash = h /\ n.dirty = req[r].dirty
    BY <1>2 DEF Reqs
<1> HIDE DEF n
<1>7. /\ req' \in [Requests -> Reqs] /\ \A o \in Requests : Sound(req'[o])
      /\ req'[r] = n /\ \A o \in Requests \ {r} : req'[o] = req[o]
    BY <1>4, <1>5, OneRequest
<1>8. Typed'
    BY <1>1, <1>7 DEF Typed, AccountsTypeOK, Reqs
<1>9. GuessesCounted'
    <2>1. \A v \in Users : Guessing(v)' \subseteq Guessing(v)
        BY <1>6, <1>7 DEF Guessing
    <2> QED BY <1>1, <2>1, NoMoreGuesses DEF Typed, AccountsTypeOK, Rows
<1>10. PinsKept'
    <2>2. LoginsKnowPins'
        BY <1>1, <1>6, <1>7 DEF PinsKept, LoginsKnowPins, PinKnown, LoggingIn, Reqs
    <2>3. ResetsEndSessions'
        BY <1>1, <1>2, <1>6, <1>7 DEF PinsKept, ResetsEndSessions
    <2>4. RotationsKnowPins'
        BY <1>1, <1>6, <1>7 DEF PinsKept, RotationsKnowPins, Rotating
    <2> QED BY <1>1, <2>2, <2>3, <2>4 DEF PinsKept, SessionPinIsCurrent
<1>11. PeppersKept'
    <2> SUFFICES ASSUME ~torn PROVE PeppersKept'
        BY <1>1 DEF PeppersKept
    <2>1. RotationsAlone'
        BY <1>2, <1>6, <1>7 DEF PeppersKept, RotationsAlone, Rotating, Changing
    <2>2. HashesFresh'
        BY <1>1, <1>3, <1>6, <1>7 DEF PeppersKept, HashesFresh
    <2>3. RotationsKnowPeppers'
        BY <1>1, <1>6, <1>7 DEF PeppersKept, RotationsKnowPeppers, Rotating
    <2>4. PepperMatchesHashes'
        BY <1>1, <1>2, <1>6, <1>7 DEF PeppersKept, PepperMatchesHashes, Rotating
    <2> QED BY <2>1, <2>2, <2>3, <2>4 DEF PeppersKept
<1> QED BY <1>8, <1>9, <1>10, <1>11

\* A row that is inserted has no session, and its hash is as fresh as the request's.
LEMMA KeepsInsert ==
    ASSUME AccountsInv, NEW r \in Requests, Insert(r)
    PROVE  AccountsInv'
<1> USE DEF AccountsInv
<1> DEFINE u == req[r].user
           b == req[r].hash # NoHash
           w == [NoAccount EXCEPT !.exists = TRUE, !.hash = req[r].hash, !.required = b]
           n == IF req[r].kind = "setup" THEN [req[r] EXCEPT !.pc = "issue"] ELSE Idle
<1>1. req[r].pc = "insert" /\ UNCHANGED <<env, minted, opened, torn>>
    BY DEF Insert
<1>2. /\ req[r] \in Reqs /\ Sound(req[r]) /\ u \in Users /\ account[u] \in Rows
      /\ req[r].kind \in {"setup", "create"} /\ ~Rotating(r)
      /\ req[r].kind = "setup" => u = Owner
    BY <1>1 DEF Typed, AccountsTypeOK, Reqs, Rows, Sound, Rotating
<1>3. CASE account[u].exists
    <2>1. Finish(r) /\ UNCHANGED <<account, guesses>>
        BY <1>3 DEF Insert
    <2>2. Typed'
        BY <1>1, <2>1, FinishedIs DEF Typed, AccountsTypeOK, Reqs
    <2>3. GuessesCounted'
        <3>1. \A v \in Users : Guessing(v)' \subseteq Guessing(v)
            BY <2>1, FinishedIs
        <3> QED BY <2>1, <3>1, NoMoreGuesses DEF Typed, AccountsTypeOK, Rows
    <2>4. PinsKept' /\ PeppersKept'
        BY <1>1, <1>2, <2>1, SameRows DEF Typed, AccountsTypeOK, Rows
    <2> QED BY <2>2, <2>3, <2>4
<1>4. CASE ~account[u].exists
    <2>1. /\ account' = [account EXCEPT ![u] = w]
          /\ guesses' = [guesses EXCEPT ![u] = 0]
          /\ req[r].kind = "setup" => req' = [req EXCEPT ![r] = n]
          /\ req[r].kind = "create" => req' = [Overtake(u, req) EXCEPT ![r] = Idle]
        BY <1>2, <1>4 DEF Insert
    <2>2. /\ w \in Rows /\ w.exists /\ w.hash = req[r].hash /\ w.token = NoToken
        BY <1>2 DEF Reqs, Rows, NoAccount
    <2>3. n \in Reqs /\ Sound(n)
        <3>1. CASE req[r].kind = "setup"
            <4>1. n \in Reqs
                BY <1>2, <3>1 DEF Reqs
            <4>2. n.kind = "setup" /\ n.pc = "issue" /\ n.user = Owner
                BY <1>2, <3>1 DEF Reqs
            <4> HIDE DEF n
            <4> QED BY <4>1, <4>2 DEF Sound
        <3>2. CASE req[r].kind # "setup"
            BY <3>2, IdleIsSound
        <3> QED BY <3>1, <3>2
    <2>4. \/ req[r].kind = "create" /\ n = Idle /\ n.kind = "none" /\ n.pc = "idle"
          \/ /\ req[r].kind = "setup" /\ n.kind = "setup" /\ n.pc = "issue" /\ n.user = Owner
             /\ n.hash = req[r].hash /\ n.overtaken = req[r].overtaken
        BY <1>2 DEF Reqs, Idle
    <2> HIDE DEF n, w
    <2>5. /\ req' \in [Requests -> Reqs] /\ \A o \in Requests : Sound(req'[o])
          /\ req'[r] = n
          /\ \A o \in Requests \ {r} :
                /\ req'[o].kind = req[o].kind /\ req'[o].user = req[o].user /\ req'[o].pc = req[o].pc
                /\ req'[o].hash = req[o].hash /\ req'[o].pepper = req[o].pepper
                /\ req'[o].dirty = req[o].dirty /\ req'[o].others = req[o].others
                /\ req[o].user # u \/ req[r].kind = "setup" => req'[o].overtaken = req[o].overtaken
                /\ req[r].kind = "create" /\ req[o].kind = "switch" /\ req[o].user = u => req'[o].overtaken
          /\ \A v \in Users : Guessing(v)' \subseteq Guessing(v)
        <3>1. CASE req[r].kind = "setup"
            <4>1. /\ req' \in [Requests -> Reqs] /\ \A o \in Requests : Sound(req'[o])
                  /\ req'[r] = n /\ \A o \in Requests \ {r} : req'[o] = req[o]
                BY <2>1, <2>3, <3>1, OneRequest
            <4>2. \A v \in Users : Guessing(v)' \subseteq Guessing(v)
                BY <2>4, <4>1 DEF Guessing
            <4> QED BY <3>1, <4>1, <4>2
        <3>2. CASE req[r].kind = "create"
            BY <1>2, <2>1, <2>4, <3>2, OvertakenAre
        <3> QED BY <1>2, <3>1, <3>2
    <2>6. /\ account' \in [Users -> Rows] /\ guesses' \in [Users -> Nat] /\ guesses'[u] = 0
          /\ \A v \in Users \ {u} : account'[v] = account[v] /\ guesses'[v] = guesses[v]
          /\ account'[u] = w
        BY <1>2, <2>1, <2>2, OneRow DEF Typed, AccountsTypeOK
    <2>7. Typed'
        <3>1. \A v \in Users : ~account'[v].exists => account'[v] = NoAccount
            BY <2>2, <2>6 DEF Typed
        <3> QED BY <1>1, <2>5, <2>6, <3>1 DEF Typed, AccountsTypeOK, Reqs, Rows
    <2>8. GuessesCounted'
        BY <2>5, <2>6, NoMoreGuesses
    <2>9. PinsKept'
        <3>1. LoginsKnowPins'
            <4> SUFFICES ASSUME NEW p \in Requests, LoggingIn(p)'
                         PROVE  PinKnown(p)'
                BY DEF LoginsKnowPins
            <4>2. CASE p = r
                <5>1. n.user = Owner /\ u = Owner /\ n.hash = req[r].hash /\ Owner \in Users
                    BY <1>2, <2>4, <2>5, <4>2 DEF LoggingIn, Users
                <5> QED BY <2>2, <2>5, <2>6, <4>2, <5>1 DEF PinKnown
            <4>3. CASE p # r
                <5>1. /\ req'[p].user = req[p].user /\ req'[p].hash = req[p].hash
                      /\ LoggingIn(p) /\ req[p].user \in Users
                    BY <2>5, <4>3 DEF LoggingIn, Reqs, Typed, AccountsTypeOK
                <5>2. CASE req[p].user = u
                    <6>1. req[r].kind = "create" /\ u \in Subs /\ u # Owner
                        BY <1>2, <1>4, <5>1, <5>2, AccountsAssumption DEF PinsKept, LoginsKnowPins, PinKnown, Sound
                    <6>2. req[p].kind = "switch"
                        BY <5>1, <5>2, <6>1 DEF LoggingIn, Typed, Sound
                    <6>3. req'[p].overtaken
                        BY <2>5, <4>3, <5>2, <6>1, <6>2
                    <6> QED BY <5>1, <5>2, <6>1, <6>3 DEF PinKnown
                <5>3. CASE req[p].user # u
                    <6>1. req'[p].overtaken = req[p].overtaken
                        BY <2>5, <4>3, <5>3
                    <6>2. account'[req[p].user] = account[req[p].user]
                        BY <2>6, <5>1, <5>3
                    <6>3. req[p].user = Owner => account'[Owner].exists
                        BY <5>1, <6>2 DEF PinsKept, LoginsKnowPins, PinKnown
                    <6> QED BY <5>1, <6>1, <6>2, <6>3 DEF PinsKept, LoginsKnowPins, PinKnown
                <5> QED BY <5>2, <5>3
            <4> QED BY <4>2, <4>3
        <3>2. ResetsEndSessions'
            BY <1>1, <2>2, <2>4, <2>5, <2>6 DEF PinsKept, ResetsEndSessions, Reqs
        <3>3. RotationsKnowPins'
            BY <1>4, <2>4, <2>5, <2>6 DEF PinsKept, RotationsKnowPins, Rotating, Users
        <3>4. SessionPinIsCurrent'
            BY <1>1, <2>2, <2>6 DEF PinsKept, SessionPinIsCurrent
        <3> QED BY <3>1, <3>2, <3>3, <3>4 DEF PinsKept
    <2>10. PeppersKept'
        <3> SUFFICES ASSUME ~torn PROVE PeppersKept'
            BY <1>1 DEF PeppersKept
        <3>1. \A o \in Requests : ~Rotating(o)
            BY <1>2 DEF PeppersKept, RotationsAlone, Rotating, Changing
        <3>2. \A o \in Requests : ~Rotating(o)'
            BY <2>4, <2>5, <3>1 DEF Rotating
        <3>3. HashesFresh'
            BY <1>1, <2>4, <2>5 DEF PeppersKept, HashesFresh
        <3>4. PepperMatchesHashes'
            BY <1>1, <2>2, <2>6, <3>1 DEF PeppersKept, PepperMatchesHashes, HashesFresh
        <3> QED BY <3>2, <3>3, <3>4 DEF PeppersKept, RotationsAlone, RotationsKnowPeppers
    <2> QED BY <2>7, <2>8, <2>9, <2>10
<1> QED BY <1>3, <1>4

\* The commit of a logout, an unlock or a new PIN: a new PIN ends the session it has seen.
LEMMA KeepsWrite ==
    ASSUME AccountsInv, NEW r \in Requests, Write(r)
    PROVE  AccountsInv'
<1> USE DEF AccountsInv
<1> DEFINE u == req[r].user
<1> PICK c : c = Cleared(account[u], req[r].dirty)
    OBVIOUS
<1> DEFINE w == IF req[r].kind = "reset" THEN [c EXCEPT !.hash = req[r].hash] ELSE c
<1>1. req[r].pc = "write" /\ UNCHANGED <<env, minted, opened, torn>>
    BY DEF Write
<1>2. /\ req[r] \in Reqs /\ Sound(req[r]) /\ u \in Users /\ account[u] \in Rows
      /\ req[r].kind \in {"logout", "reset", "unlock", "force"} /\ ~Rotating(r)
    BY <1>1 DEF Typed, AccountsTypeOK, Reqs, Rows, Sound, Rotating
<1>3. CASE ~account[u].exists
    <2>1. Finish(r) /\ UNCHANGED <<account, guesses>>
        BY <1>3 DEF Write
    <2>2. Typed'
        BY <1>1, <2>1, FinishedIs DEF Typed, AccountsTypeOK, Reqs
    <2>3. GuessesCounted'
        <3>1. \A v \in Users : Guessing(v)' \subseteq Guessing(v)
            BY <2>1, FinishedIs
        <3> QED BY <2>1, <3>1, NoMoreGuesses DEF Typed, AccountsTypeOK, Rows
    <2>4. PinsKept' /\ PeppersKept'
        BY <1>1, <1>2, <2>1, SameRows DEF Typed, AccountsTypeOK, Rows
    <2> QED BY <2>2, <2>3, <2>4
<1>4. CASE account[u].exists
    <2>1. /\ account' = [account EXCEPT ![u] = w]
          /\ guesses' = IF req[r].kind \in {"reset", "unlock"} THEN [guesses EXCEPT ![u] = 0] ELSE guesses
          /\ req' = [IF req[r].kind = "reset" THEN Overtake(u, req) ELSE req EXCEPT ![r] = Idle]
        BY <1>4 DEF Write
    <2>2. /\ req[r].dirty \in SUBSET Columns /\ "hash" \notin req[r].dirty
          /\ req[r].kind \in {"logout", "force"} => "failed" \notin req[r].dirty /\ "locked" \notin req[r].dirty
        BY <1>2 DEF Reqs, Sound
    <2>3. /\ c \in Rows /\ c.exists = account[u].exists /\ c.hash = account[u].hash
          /\ c.token = IF "token" \in req[r].dirty THEN NoToken ELSE account[u].token
          /\ req[r].kind \in {"logout", "force"} => c.failed = account[u].failed /\ c.locked = account[u].locked
        <3>1. account[u] \in Rows
            BY <1>2
        <3> QED BY <2>2, <3>1, ClearedIs
    <2>4. /\ w \in Rows /\ w.exists = account[u].exists /\ w.token = c.token
          /\ w.failed = c.failed /\ w.locked = c.locked
          /\ w.hash = IF req[r].kind = "reset" THEN req[r].hash ELSE account[u].hash
        <3>1. req[r].hash \in Hashes \cup {NoHash}
            BY <1>2 DEF Reqs
        <3>2. CASE req[r].kind = "reset"
            BY <2>3, <3>1, <3>2 DEF Rows
        <3>3. CASE req[r].kind # "reset"
            BY <2>3, <3>3
        <3> QED BY <3>2, <3>3
    <2> HIDE DEF w
    <2>5. /\ account' \in [Users -> Rows] /\ account'[u] = w
          /\ \A v \in Users \ {u} : account'[v] = account[v]
        BY <1>2, <2>1, <2>4, OneRow
    <2>6. /\ guesses' \in [Users -> Nat] /\ \A v \in Users \ {u} : guesses'[v] = guesses[v]
          /\ IF req[r].kind \in {"reset", "unlock"} THEN guesses'[u] = 0 ELSE guesses'[u] = guesses[u]
        BY <1>2, <2>1 DEF Typed, AccountsTypeOK
    <2>7. /\ req' \in [Requests -> Reqs] /\ \A p \in Requests : Sound(req'[p])
          /\ req'[r] = Idle /\ Idle.kind = "none" /\ Idle.pc = "idle"
          /\ \A p \in Requests \ {r} :
                /\ req'[p].kind = req[p].kind /\ req'[p].user = req[p].user /\ req'[p].pc = req[p].pc
                /\ req'[p].hash = req[p].hash /\ req'[p].pepper = req[p].pepper
                /\ req'[p].dirty = req[p].dirty /\ req'[p].others = req[p].others
                /\ req[p].user # u \/ req[r].kind # "reset" => req'[p].overtaken = req[p].overtaken
                /\ req[r].kind = "reset" /\ req[p].kind = "switch" /\ req[p].user = u => req'[p].overtaken
          /\ \A v \in Users : Guessing(v)' \subseteq Guessing(v)
        <3>1. CASE req[r].kind = "reset"
            BY <1>2, <2>1, <3>1, OvertakenAre
        <3>2. CASE req[r].kind # "reset"
            <4>1. Finish(r)
                BY <2>1, <3>2 DEF Finish
            <4> QED BY <3>2, <4>1, FinishedIs
        <3> QED BY <3>1, <3>2
    <2>8. Typed'
        <3>1. \A v \in Users : ~account'[v].exists => account'[v] = NoAccount
            BY <1>4, <2>4, <2>5 DEF Typed
        <3> QED BY <1>1, <2>5, <2>6, <2>7, <3>1 DEF Typed, AccountsTypeOK, Reqs, Rows
    <2>9. GuessesCounted'
        <3>2. \/ guesses'[u] = 0
              \/ /\ guesses'[u] = guesses[u] /\ account'[u].failed = account[u].failed
                 /\ account'[u].locked = account[u].locked
            BY <1>2, <2>3, <2>4, <2>5, <2>6
        <3> QED BY <2>5, <2>6, <2>7, <3>2, NoMoreGuesses
    <2>10. req[r].kind = "reset" => u \in Subs /\ u # Owner
        BY <1>1, <1>2, AccountsAssumption DEF Sound
    <2>11. PinsKept'
        <3>1. \A v \in Users : account'[v].exists = account[v].exists
            BY <2>4, <2>5
        <3>2. account'[Owner].hash = account[Owner].hash /\ Owner \in Users
            BY <1>2, <2>4, <2>5, <2>10 DEF Users
        <3>3. LoginsKnowPins'
            <4> SUFFICES ASSUME NEW p \in Requests, LoggingIn(p)'
                         PROVE  PinKnown(p)'
                BY DEF LoginsKnowPins
            <4>1. /\ p # r /\ LoggingIn(p) /\ req[p].user \in Users
                  /\ req'[p].user = req[p].user /\ req'[p].hash = req[p].hash
                BY <2>7 DEF LoggingIn, Reqs, Typed, AccountsTypeOK
            <4>2. req[p].user = Owner => account'[Owner].exists
                BY <3>1, <3>2, <4>1 DEF PinsKept, LoginsKnowPins, PinKnown
            <4>3. CASE req[r].kind = "reset" /\ req[p].user = u
                <5>1. req[p].kind = "switch"
                    BY <2>10, <4>1, <4>3 DEF LoggingIn, Typed, Sound
                <5>2. req'[p].overtaken
                    BY <2>7, <4>1, <4>3, <5>1
                <5> QED BY <4>1, <4>2, <5>2 DEF PinKnown
            <4>4. CASE req[r].kind # "reset" \/ req[p].user # u
                <5>1. req'[p].overtaken = req[p].overtaken
                    BY <2>7, <4>1, <4>4
                <5>2. account'[req[p].user].hash = account[req[p].user].hash
                    BY <2>4, <2>5, <4>1, <4>4
                <5> QED BY <4>1, <4>2, <5>1, <5>2 DEF PinsKept, LoginsKnowPins, PinKnown
            <4> QED BY <4>3, <4>4
        <3>4. ResetsEndSessions'
            <4>1. \A v \in Users : account'[v].token \in {account[v].token, NoToken}
                BY <2>3, <2>4, <2>5
            <4> QED BY <1>1, <2>7, <4>1 DEF PinsKept, ResetsEndSessions, Reqs
        <3>5. RotationsKnowPins'
            BY <2>7, <3>1, <3>2 DEF PinsKept, RotationsKnowPins, Rotating
        <3>6. SessionPinIsCurrent'
            <4>1. req[r].kind = "reset" => account'[u].token = NoToken \/ opened[u] = NoPin
                BY <2>3, <2>4, <2>5 DEF PinsKept, ResetsEndSessions
            <4> QED BY <1>1, <2>3, <2>4, <2>5, <4>1 DEF PinsKept, SessionPinIsCurrent
        <3> QED BY <3>3, <3>4, <3>5, <3>6 DEF PinsKept
    <2>12. PeppersKept'
        <3> SUFFICES ASSUME ~torn PROVE PeppersKept'
            BY <1>1 DEF PeppersKept
        <3>1. RotationsAlone'
            BY <2>7 DEF PeppersKept, RotationsAlone, Rotating, Changing
        <3>2. HashesFresh'
            BY <1>1, <2>7 DEF PeppersKept, HashesFresh
        <3>3. req[r].kind = "reset" => \A p \in Requests : ~Rotating(p)
            BY <1>2 DEF PeppersKept, RotationsAlone, Rotating, Changing
        <3>4. RotationsKnowPeppers'
            BY <1>1, <2>4, <2>5, <2>7, <3>3 DEF PeppersKept, RotationsKnowPeppers, Rotating, Users
        <3>5. PepperMatchesHashes'
            BY <1>1, <1>2, <2>4, <2>5, <2>7, <3>3 DEF PeppersKept, HashesFresh, PepperMatchesHashes, Rotating
        <3> QED BY <3>1, <3>2, <3>4, <3>5 DEF PeppersKept
    <2> QED BY <2>8, <2>9, <2>11, <2>12
<1> QED BY <1>3, <1>4

\* The owner is set up while there is none, and so while no rotation runs.
LEMMA KeepsSetupOwner ==
    ASSUME AccountsInv, NEW r \in Requests, NEW pin \in Pins, SetupOwner(r, pin)
    PROVE  AccountsInv'
<1> USE DEF AccountsInv
<1> DEFINE h == [pin |-> pin, pepper |-> env]
           n == [Idle EXCEPT !.kind = "setup", !.user = Owner, !.pc = "insert", !.hash = h]
<1>1. /\ req' = [req EXCEPT ![r] = n] /\ UNCHANGED <<account, env, minted, guesses, opened, torn>>
      /\ ~account[Owner].exists
    BY DEF SetupOwner
<1>2. h \in Hashes /\ h # NoHash /\ h.pepper = env
    BY AccountsAssumption DEF Hashes, Typed, AccountsTypeOK
<1> HIDE DEF h
<1>3. n \in Reqs /\ Sound(n)
    BY <1>2, IdleIsSound DEF Idle, Reqs, Sound, Users
<1>4. n.kind = "setup" /\ n.pc = "insert" /\ n.hash = h
    BY DEF Idle
<1> HIDE DEF n
<1>5. /\ req' \in [Requests -> Reqs] /\ \A o \in Requests : Sound(req'[o])
      /\ req'[r] = n /\ \A o \in Requests \ {r} : req'[o] = req[o]
    BY <1>1, <1>3, OneRequest
<1>6. \A o \in Requests : ~Rotating(o) /\ ~Rotating(o)'
    BY <1>1, <1>4, <1>5 DEF PinsKept, RotationsKnowPins, Rotating
<1>7. Typed'
    BY <1>1, <1>5 DEF Typed, AccountsTypeOK, Reqs
<1>8. GuessesCounted'
    <2>1. \A v \in Users : Guessing(v)' \subseteq Guessing(v)
        BY <1>4, <1>5 DEF Guessing
    <2> QED BY <1>1, <2>1, NoMoreGuesses DEF Typed, AccountsTypeOK, Rows
<1>9. PinsKept'
    <2>2. LoginsKnowPins'
        BY <1>1, <1>4, <1>5 DEF PinsKept, LoginsKnowPins, PinKnown, LoggingIn, Reqs
    <2>3. ResetsEndSessions'
        BY <1>1, <1>4, <1>5 DEF PinsKept, ResetsEndSessions
    <2> QED BY <1>1, <1>6, <2>2, <2>3 DEF PinsKept, SessionPinIsCurrent, RotationsKnowPins
<1>10. PeppersKept'
    <2> SUFFICES ASSUME ~torn PROVE PeppersKept'
        BY <1>1 DEF PeppersKept
    <2>1. HashesFresh'
        BY <1>1, <1>2, <1>4, <1>5 DEF PeppersKept, HashesFresh
    <2>2. PepperMatchesHashes'
        BY <1>1, <1>6 DEF PeppersKept, PepperMatchesHashes
    <2> QED BY <1>6, <2>1, <2>2 DEF PeppersKept, RotationsAlone, RotationsKnowPeppers
<1> QED BY <1>7, <1>8, <1>9, <1>10

\* A request that will change the PIN of u has read the session there is.
LEMMA ChangeBegins ==
    ASSUME AccountsInv, NEW r \in Requests, NEW u \in Subs, NEW n \in Reqs, Sound(n),
           req[r].pc = "idle", n.user = u, n.kind \in {"create", "reset"}, n.pc \in {"insert", "hash"},
           n.pc = "insert" /\ n.hash # NoHash => n.hash.pepper = env,
           n.kind = "reset" => "token" \in n.dirty \/ account[u].token = NoToken,
           req' = [req EXCEPT ![r] = n],
           torn' = (torn \/ \E o \in Requests : Rotating(o)),
           UNCHANGED <<account, env, minted, guesses, opened>>
    PROVE  AccountsInv'
<1> USE DEF AccountsInv
<1>1. /\ req' \in [Requests -> Reqs] /\ \A o \in Requests : Sound(req'[o])
      /\ req'[r] = n /\ \A o \in Requests \ {r} : req'[o] = req[o]
    BY OneRequest
<1>2. Typed'
    <2>1. torn' \in BOOLEAN
        BY DEF Typed, AccountsTypeOK, Rotating
    <2> QED BY <1>1, <2>1 DEF Typed, AccountsTypeOK, Reqs
<1>3. GuessesCounted'
    <2>1. \A v \in Users : Guessing(v)' \subseteq Guessing(v)
        BY <1>1 DEF Guessing
    <2> QED BY <2>1, NoMoreGuesses DEF Typed, AccountsTypeOK, Rows
<1>4. PinsKept'
    <2>1. LoginsKnowPins'
        BY <1>1 DEF PinsKept, LoginsKnowPins, PinKnown, LoggingIn
    <2>2. ResetsEndSessions'
        BY <1>1 DEF PinsKept, ResetsEndSessions
    <2>3. RotationsKnowPins'
        BY <1>1 DEF PinsKept, RotationsKnowPins, Rotating
    <2> QED BY <2>1, <2>2, <2>3 DEF PinsKept, SessionPinIsCurrent
<1>5. PeppersKept'
    <2> SUFFICES ASSUME ~torn, \A o \in Requests : ~Rotating(o) PROVE PeppersKept'
        BY DEF PeppersKept
    <2>1. \A o \in Requests : ~Rotating(o)'
        BY <1>1 DEF Rotating
    <2>2. HashesFresh'
        BY <1>1 DEF PeppersKept, HashesFresh
    <2>3. PepperMatchesHashes'
        BY DEF PeppersKept, PepperMatchesHashes
    <2> QED BY <2>1, <2>2, <2>3 DEF PeppersKept, RotationsAlone, RotationsKnowPeppers
<1> QED BY <1>2, <1>3, <1>4, <1>5

\* A sub-account is about to be inserted.
LEMMA KeepsCreateUser ==
    ASSUME AccountsInv, NEW r \in Requests, NEW u \in Subs, NEW h \in Hashes \cup {NoHash},
           h # NoHash => h.pepper = env, CreateUser(r, u, h)
    PROVE  AccountsInv'
<1> DEFINE n == [Idle EXCEPT !.kind = "create", !.user = u, !.pc = "insert", !.hash = h]
<1>1. n \in Reqs /\ Sound(n)
    BY IdleIsSound DEF Idle, Reqs, Sound, Users
<1>2. n.kind = "create" /\ n.pc = "insert" /\ n.hash = h /\ n.user = u
    BY DEF Idle
<1>3. /\ req[r].pc = "idle" /\ req' = [req EXCEPT ![r] = n]
      /\ torn' = (torn \/ \E o \in Requests : Rotating(o))
      /\ UNCHANGED <<account, env, minted, guesses, opened>>
    BY DEF CreateUser
<1> HIDE DEF n
<1> QED BY <1>1, <1>2, <1>3, ChangeBegins

\* A PIN is about to be replaced, and the session that it was opened under is known.
LEMMA KeepsResetPin ==
    ASSUME AccountsInv, NEW r \in Requests, NEW u \in Subs, NEW pin \in Pins, ResetPin(r, u, pin)
    PROVE  AccountsInv'
<1> DEFINE d == Changed(u, ClearedBy("reset"))
           n == [Idle EXCEPT !.kind = "reset", !.user = u, !.pc = "hash", !.pin = pin, !.dirty = d]
<1>1. /\ d \in SUBSET Columns /\ d \subseteq {"required", "failed", "locked", "token", "expired"}
    BY DEF Changed, ClearedBy, Columns
<1>2. "token" \in d \/ account[u].token = NoToken
    BY DEF Changed, ClearedBy, ResetRow, NoAccount
<1> HIDE DEF d
<1>3. n \in Reqs
    BY <1>1, IdleIsSound DEF Reqs, Users
<1>4. n.kind = "reset" /\ n.pc = "hash" /\ n.dirty = d /\ n.user = u /\ n.pin = pin
    BY DEF Idle
<1>5. /\ req[r].pc = "idle" /\ req' = [req EXCEPT ![r] = n]
      /\ torn' = (torn \/ \E o \in Requests : Rotating(o))
      /\ UNCHANGED <<account, env, minted, guesses, opened>>
    BY DEF ResetPin, d
<1> HIDE DEF n
<1>6. Sound(n)
    BY <1>1, <1>4 DEF Sound
<1> QED BY <1>2, <1>3, <1>4, <1>5, <1>6, ChangeBegins

\* A rotation begins with the owner's PIN, and with every account that has one.
LEMMA KeepsRotatePepper ==
    ASSUME AccountsInv, NEW r \in Requests, NEW pin \in Pins, NEW pepper \in Peppers,
           RotatePepper(r, pin, pepper)
    PROVE  AccountsInv'
<1> USE DEF AccountsInv
<1> DEFINE h == [pin |-> pin, pepper |-> pepper]
           s == {u \in Subs : account[u].exists /\ account[u].hash # NoHash}
           n == [Idle EXCEPT !.kind = "rotate", !.pc = "env", !.pin = pin, !.pepper = pepper,
                             !.hash = h, !.others = s]
<1>1. /\ req' = [req EXCEPT ![r] = n] /\ UNCHANGED <<account, env, minted, guesses, opened>>
      /\ torn' = (torn \/ \E o \in Requests : Changing(o))
      /\ req[r].pc = "idle" /\ SignedIn(Owner) /\ Verifies(pin, account[Owner].hash, env)
    BY DEF RotatePepper, Changing
<1>2. h \in Hashes /\ h # NoHash /\ h.pepper = pepper /\ h.pin = pin /\ s \in SUBSET Subs
    BY AccountsAssumption DEF Hashes
<1>3. /\ account[Owner].exists /\ account[Owner].hash # NoHash /\ account[Owner].hash.pin = pin
    BY <1>1, AccountsAssumption DEF SignedIn, Verifies, Hashes, Typed, AccountsTypeOK
<1>4. \A u \in Subs : account[u].hash # NoHash => u \in s
    BY DEF Typed, NoAccount, Users
<1> HIDE DEF h, s
<1>5. n \in Reqs /\ Sound(n)
    <2>1. n \in Reqs
        BY <1>2, IdleIsSound DEF Reqs
    <2>2. n.kind = "rotate" /\ n.pc = "env" /\ n.hash = h
        BY DEF Idle
    <2> HIDE DEF n
    <2> QED BY <1>2, <2>1, <2>2 DEF Sound
<1>6. n.kind = "rotate" /\ n.pc = "env" /\ n.hash = h /\ n.pepper = pepper /\ n.others = s
    BY DEF Idle
<1> HIDE DEF n
<1>7. /\ req' \in [Requests -> Reqs] /\ \A o \in Requests : Sound(req'[o])
      /\ req'[r] = n /\ \A o \in Requests \ {r} : req'[o] = req[o]
    BY <1>1, <1>5, OneRequest
<1>8. Typed'
    <2>1. torn' \in BOOLEAN
        BY <1>1 DEF Typed, AccountsTypeOK, Changing
    <2> QED BY <1>1, <1>7, <2>1 DEF Typed, AccountsTypeOK, Reqs
<1>9. GuessesCounted'
    <2>1. \A v \in Users : Guessing(v)' \subseteq Guessing(v)
        BY <1>6, <1>7 DEF Guessing
    <2> QED BY <1>1, <2>1, NoMoreGuesses DEF Typed, AccountsTypeOK, Rows
<1>10. PinsKept'
    <2>2. LoginsKnowPins'
        BY <1>1, <1>6, <1>7 DEF PinsKept, LoginsKnowPins, PinKnown, LoggingIn, Reqs
    <2>3. ResetsEndSessions'
        BY <1>1, <1>6, <1>7 DEF PinsKept, ResetsEndSessions
    <2>4. RotationsKnowPins'
        BY <1>1, <1>2, <1>3, <1>6, <1>7 DEF PinsKept, RotationsKnowPins, Rotating
    <2> QED BY <1>1, <2>2, <2>3, <2>4 DEF PinsKept, SessionPinIsCurrent
<1>11. PeppersKept'
    <2> SUFFICES ASSUME ~torn, \A o \in Requests : ~Changing(o) PROVE PeppersKept'
        BY <1>1 DEF PeppersKept
    <2>1. RotationsAlone'
        BY <1>7 DEF RotationsAlone, Rotating, Changing
    <2>2. HashesFresh'
        BY <1>1, <1>6, <1>7 DEF PeppersKept, HashesFresh
    <2>3. RotationsKnowPeppers'
        BY <1>1, <1>2, <1>4, <1>6, <1>7 DEF RotationsKnowPeppers, Rotating, Changing
    <2>4. PepperMatchesHashes'
        BY <1>1, <1>7 DEF PeppersKept, PepperMatchesHashes, Rotating, Changing
    <2> QED BY <2>1, <2>2, <2>3, <2>4 DEF PeppersKept
<1> QED BY <1>8, <1>9, <1>10, <1>11

\* The new pepper is written, and the request keeps the one that every hash is under.
LEMMA KeepsWriteEnv ==
    ASSUME AccountsInv, NEW r \in Requests, WriteEnv(r)
    PROVE  AccountsInv'
<1> USE DEF AccountsInv
<1> DEFINE n == [req[r] EXCEPT !.pc = "commit", !.pepper = env]
<1>1. /\ req[r].pc = "env" /\ env' = req[r].pepper /\ UNCHANGED <<account, minted, guesses, opened, torn>>
    BY DEF WriteEnv
<1>2. /\ req[r] \in Reqs /\ Sound(req[r]) /\ req[r].kind = "rotate" /\ env \in Peppers
      /\ req[r].pepper \in Peppers
    BY <1>1 DEF Typed, AccountsTypeOK, Reqs, Sound
<1>3. req' = [req EXCEPT ![r] = n]
    BY <1>2 DEF WriteEnv, Typed, AccountsTypeOK, Reqs
<1>4. n \in Reqs /\ Sound(n)
    BY <1>1, <1>2 DEF Reqs, Sound
<1>5. n.kind = "rotate" /\ n.pc = "commit" /\ n.hash = req[r].hash /\ n.pepper = env /\ n.others = req[r].others
    BY <1>2 DEF Reqs
<1> HIDE DEF n
<1>6. /\ req' \in [Requests -> Reqs] /\ \A o \in Requests : Sound(req'[o])
      /\ req'[r] = n /\ \A o \in Requests \ {r} : req'[o] = req[o]
    BY <1>3, <1>4, OneRequest
<1>7. Typed'
    BY <1>1, <1>2, <1>6 DEF Typed, AccountsTypeOK, Reqs
<1>8. GuessesCounted'
    <2>1. \A v \in Users : Guessing(v)' \subseteq Guessing(v)
        BY <1>5, <1>6 DEF Guessing
    <2> QED BY <1>1, <2>1, NoMoreGuesses DEF Typed, AccountsTypeOK, Rows
<1>9. PinsKept'
    <2>2. LoginsKnowPins'
        BY <1>1, <1>5, <1>6 DEF PinsKept, LoginsKnowPins, PinKnown, LoggingIn, Reqs
    <2>3. ResetsEndSessions'
        BY <1>1, <1>5, <1>6 DEF PinsKept, ResetsEndSessions
    <2>4. RotationsKnowPins'
        BY <1>1, <1>2, <1>5, <1>6 DEF PinsKept, RotationsKnowPins, Rotating
    <2> QED BY <1>1, <2>2, <2>3, <2>4 DEF PinsKept, SessionPinIsCurrent
<1>10. PeppersKept'
    <2> SUFFICES ASSUME ~torn PROVE PeppersKept'
        BY <1>1 DEF PeppersKept
    <2>1. \A o \in Requests \ {r} : ~Changing(o)
        BY <1>2 DEF PeppersKept, RotationsAlone, Rotating
    <2>2. RotationsAlone'
        BY <1>6, <2>1 DEF RotationsAlone, Rotating, Changing
    <2>3. HashesFresh'
        <3>1. \A o \in Requests \ {r} : req[o].pc # "insert"
            BY <2>1 DEF Changing, Typed, Sound
        <3> QED BY <1>5, <1>6, <2>1, <3>1 DEF HashesFresh, Changing
    <2>4. RotationsKnowPeppers'
        <3>1. \A u \in Users : account[u].hash # NoHash => account[u].hash.pepper = env
            BY <1>1, <2>1 DEF PeppersKept, PepperMatchesHashes, Rotating, Changing
        <3>2. req[r].hash.pepper = req[r].pepper /\ \A u \in Subs : account[u].hash # NoHash => u \in req[r].others
            BY <1>1, <1>2 DEF PeppersKept, RotationsKnowPeppers, Rotating
        <3> QED BY <1>1, <1>5, <1>6, <2>1, <3>1, <3>2 DEF RotationsKnowPeppers, Rotating, Changing
    <2>5. PepperMatchesHashes'
        BY <1>5, <1>6 DEF PepperMatchesHashes, Rotating
    <2> QED BY <2>2, <2>3, <2>4, <2>5 DEF PeppersKept
<1> QED BY <1>7, <1>8, <1>9, <1>10

\* The commit: the owner keeps its PIN, under the new pepper, and the others lose theirs.
LEMMA KeepsCommitRotation ==
    ASSUME AccountsInv, NEW r \in Requests, CommitRotation(r)
    PROVE  AccountsInv'
<1> USE DEF AccountsInv
<1> DEFINE w == [account[Owner] EXCEPT !.hash = req[r].hash]
           c(u) == Cleared(account[u], {"hash", "required", "failed", "locked"})
<1>1. req[r].pc = "commit" /\ Finish(r) /\ UNCHANGED <<env, minted, opened, torn>>
    BY DEF CommitRotation
<1>2. /\ req[r] \in Reqs /\ Sound(req[r]) /\ req[r].kind = "rotate"
      /\ Owner \in Users /\ \A u \in Users : account[u] \in Rows
    BY <1>1 DEF Typed, AccountsTypeOK, Reqs, Rows, Sound, Users
<1>3. account' = [u \in Users |-> IF u = Owner THEN w ELSE IF u \in req[r].others THEN c(u) ELSE account[u]]
    BY DEF CommitRotation
<1>4. /\ w \in Rows /\ w.exists = account[Owner].exists /\ w.hash = req[r].hash /\ w.token = account[Owner].token
      /\ w.failed = account[Owner].failed /\ w.locked = account[Owner].locked
    BY <1>2 DEF Rows, Reqs
<1>5. \A u \in Users : /\ c(u) \in Rows /\ c(u).exists = account[u].exists /\ c(u).hash = NoHash
                       /\ c(u).token = account[u].token
    <2> TAKE u \in Users
    <2> DEFINE s == {"hash", "required", "failed", "locked"}
    <2>1. s \in SUBSET Columns
        BY DEF Columns
    <2>2. "hash" \in s /\ "token" \notin s /\ c(u) = Cleared(account[u], s) /\ account[u] \in Rows
        BY <1>2
    <2> HIDE DEF s, c
    <2> PICK d : d = Cleared(account[u], s)
        OBVIOUS
    <2>3. /\ d \in Rows /\ d.exists = account[u].exists
          /\ d.hash = IF "hash" \in s THEN NoHash ELSE account[u].hash
          /\ d.token = IF "token" \in s THEN NoToken ELSE account[u].token
        BY <2>1, <2>2, ClearedIs
    <2> QED BY <2>2, <2>3
<1>6. req[r].others \subseteq Subs /\ Owner \notin req[r].others
    BY <1>2, AccountsAssumption DEF Reqs
<1> HIDE DEF w, c
<1>7. /\ account' \in [Users -> Rows] /\ account'[Owner] = w
      /\ \A u \in Users \ {Owner} : account'[u] = IF u \in req[r].others THEN c(u) ELSE account[u]
    BY <1>2, <1>3, <1>4, <1>5
<1>8. \A u \in Users : account'[u].exists = account[u].exists /\ account'[u].token = account[u].token
    BY <1>4, <1>5, <1>7
<1>9. /\ guesses' \in [Users -> Nat]
      /\ \A u \in Users : guesses'[u] = IF u \in req[r].others THEN 0 ELSE guesses[u]
    BY DEF CommitRotation, Typed, AccountsTypeOK
<1>10. /\ req'[r] = Idle /\ \A p \in Requests \ {r} : req'[p] = req[p]
       /\ Idle.kind = "none" /\ Idle.pc = "idle" /\ req' \in [Requests -> Reqs]
    BY <1>1, FinishedIs
<1>11. \A u \in Users : account'[u].hash # NoHash =>
            account[u].hash # NoHash /\ account'[u].hash.pin = account[u].hash.pin
    <2>1. account[Owner].hash # NoHash /\ account[Owner].hash.pin = req[r].hash.pin
        BY <1>2 DEF PinsKept, RotationsKnowPins, Rotating
    <2> QED BY <1>4, <1>5, <1>7, <2>1
<1>12. Typed'
    <2>1. \A u \in Users : ~account'[u].exists => account'[u] = NoAccount
        <3>1. account[Owner].exists
            BY <1>2 DEF PinsKept, RotationsKnowPins, Rotating
        <3>2. \A u \in req[r].others : account[u].exists
            BY DEF CommitRotation
        <3> QED BY <1>7, <1>8, <3>1, <3>2 DEF Typed
    <2> QED BY <1>1, <1>7, <1>9, <2>1, FinishedIs DEF Typed, AccountsTypeOK, Reqs, Rows
<1>13. GuessesCounted'
    <2>1. \A v \in Users : Guessing(v)' \subseteq Guessing(v)
        BY <1>1, FinishedIs
    <2>2. \A v \in Users : v \in req[r].others \/
                (account'[v].failed = account[v].failed /\ account'[v].locked = account[v].locked)
        BY <1>4, <1>7
    <2> QED BY <1>7, <1>9, <2>1, <2>2, NoMoreGuesses
<1>14. PinsKept'
    <2>1. LoginsKnowPins'
        <3> SUFFICES ASSUME NEW p \in Requests, LoggingIn(p)'
                     PROVE  PinKnown(p)'
            BY DEF LoginsKnowPins
        <3>1. req'[p] = req[p] /\ PinKnown(p) /\ req[p].user \in Users
            BY <1>10 DEF LoggingIn, PinsKept, LoginsKnowPins, Reqs
        <3> QED BY <1>2, <1>8, <1>10, <1>11, <3>1 DEF PinKnown
    <2>2. ResetsEndSessions'
        BY <1>1, <1>8, <1>10 DEF PinsKept, ResetsEndSessions, Reqs
    <2>3. RotationsKnowPins'
        <3>1. account'[Owner].hash # NoHash
            BY <1>2, <1>4, <1>7 DEF Sound
        <3> QED BY <1>2, <1>8, <1>10, <1>11, <3>1 DEF PinsKept, RotationsKnowPins, Rotating
    <2>4. SessionPinIsCurrent'
        BY <1>1, <1>8, <1>11 DEF PinsKept, SessionPinIsCurrent
    <2> QED BY <2>1, <2>2, <2>3, <2>4 DEF PinsKept
<1>15. PeppersKept'
    <2> SUFFICES ASSUME ~torn PROVE PeppersKept'
        BY <1>1 DEF PeppersKept
    <2>1. \A p \in Requests : ~Rotating(p)'
        BY <1>2, <1>10 DEF PeppersKept, RotationsAlone, Rotating, Changing
    <2>2. HashesFresh'
        BY <1>1, <1>10 DEF PeppersKept, HashesFresh
    <2>3. req[r].hash.pepper = env /\ \A u \in Subs : account[u].hash # NoHash => u \in req[r].others
        BY <1>1, <1>2 DEF PeppersKept, RotationsKnowPeppers, Rotating
    <2>4. PepperMatchesHashes'
        <3>1. \A u \in Users : u = Owner \/ u \in Subs
            BY DEF Users
        <3> QED BY <1>1, <1>4, <1>5, <1>7, <2>3, <3>1 DEF PepperMatchesHashes
    <2> QED BY <2>1, <2>2, <2>4 DEF PeppersKept, RotationsAlone, RotationsKnowPeppers
<1> QED BY <1>12, <1>13, <1>14, <1>15

\* The commit fails: the pepper of before comes back, and every hash is still under it.
LEMMA KeepsCommitRotationFails ==
    ASSUME AccountsInv, NEW r \in Requests, CommitRotationFails(r)
    PROVE  AccountsInv'
<1> USE DEF AccountsInv
<1>1. /\ req[r].pc = "commit" /\ Finish(r) /\ UNCHANGED <<account, minted, guesses, opened, torn>>
      /\ env' = req[r].pepper
    BY DEF CommitRotationFails, PepperAfterFailure
<1>2. req[r] \in Reqs /\ req[r].pepper \in Peppers /\ req[r].kind = "rotate"
    BY <1>1 DEF Typed, AccountsTypeOK, Reqs, Sound
<1>3. /\ req'[r] = Idle /\ \A p \in Requests \ {r} : req'[p] = req[p]
      /\ Idle.kind = "none" /\ Idle.pc = "idle" /\ req' \in [Requests -> Reqs]
    BY <1>1, FinishedIs
<1>4. Typed'
    BY <1>1, <1>2, FinishedIs DEF Typed, AccountsTypeOK, Reqs
<1>5. GuessesCounted'
    <2>1. \A v \in Users : Guessing(v)' \subseteq Guessing(v)
        BY <1>1, FinishedIs
    <2> QED BY <1>1, <2>1, NoMoreGuesses DEF Typed, AccountsTypeOK, Rows
<1>6. PinsKept'
    <2>1. LoginsKnowPins'
        BY <1>1, <1>3 DEF PinsKept, LoginsKnowPins, PinKnown, LoggingIn, Reqs
    <2>2. ResetsEndSessions'
        BY <1>1, <1>3 DEF PinsKept, ResetsEndSessions
    <2>3. RotationsKnowPins'
        BY <1>1, <1>3 DEF PinsKept, RotationsKnowPins, Rotating
    <2> QED BY <1>1, <2>1, <2>2, <2>3 DEF PinsKept, SessionPinIsCurrent
<1>7. PeppersKept'
    <2> SUFFICES ASSUME ~torn PROVE PeppersKept'
        BY <1>1 DEF PeppersKept
    <2>1. \A o \in Requests : ~Changing(o)'
        BY <1>2, <1>3 DEF PeppersKept, RotationsAlone, Rotating, Changing
    <2>2. \A o \in Requests : ~Rotating(o)'
        BY <2>1 DEF Rotating, Changing
    <2>3. HashesFresh'
        <3>1. \A o \in Requests : req'[o].pc # "insert"
            BY <1>1, <2>1, FinishedIs DEF Changing, Sound
        <3> QED BY <2>1, <3>1 DEF HashesFresh, Changing
    <2>4. PepperMatchesHashes'
        BY <1>1, <1>2 DEF PeppersKept, RotationsKnowPeppers, PepperMatchesHashes, Rotating
    <2> QED BY <2>2, <2>3, <2>4 DEF PeppersKept, RotationsAlone, RotationsKnowPeppers
<1> QED BY <1>4, <1>5, <1>6, <1>7

\* The backend dies: the requests are gone, and a rotation between its writes is torn.
LEMMA KeepsAccountsCrash ==
    ASSUME AccountsInv, AccountsCrash
    PROVE  AccountsInv'
<1> USE DEF AccountsInv
<1>1. /\ \A r \in Requests : req'[r] = Idle
      /\ req' = [r \in Requests |-> Idle] /\ UNCHANGED <<account, env, minted, guesses, opened>>
      /\ torn' = (torn \/ \E r \in Requests : Rotating(r) /\ req[r].pc = "commit")
    BY DEF AccountsCrash
<1>2. Idle.kind = "none" /\ Idle.pc = "idle"
    BY DEF Idle
<1>3. Typed'
    <2>1. torn' \in BOOLEAN
        BY <1>1 DEF Typed, AccountsTypeOK, Rotating
    <2> QED BY <1>1, <2>1, IdleIsSound DEF Typed, AccountsTypeOK, Reqs
<1>4. GuessesCounted'
    <2>1. \A v \in Users : Guessing(v)' \subseteq Guessing(v)
        BY <1>1, <1>2 DEF Guessing
    <2> QED BY <1>1, <2>1, NoMoreGuesses DEF Typed, AccountsTypeOK, Rows
<1>5. PinsKept'
    BY <1>1, <1>2 DEF PinsKept, LoginsKnowPins, LoggingIn, ResetsEndSessions, RotationsKnowPins, Rotating,
                      SessionPinIsCurrent
<1>6. PeppersKept'
    BY <1>1, <1>2 DEF PeppersKept, RotationsAlone, HashesFresh, RotationsKnowPeppers, PepperMatchesHashes, Rotating
<1> QED BY <1>3, <1>4, <1>5, <1>6
-------------------------------------------------------------------------------
(* The invariant holds.                                                          *)

\* There are no accounts and no requests at first.
LEMMA InvHoldsAtFirst ==
    ASSUME AccountsInit
    PROVE  AccountsInv
<1> USE DEF AccountsInit
<1>1. Idle.kind = "none" /\ Idle.pc = "idle"
    BY DEF Idle
<1>2. NoAccount \in Rows /\ NoAccount.hash = NoHash /\ NoAccount.token = NoToken /\ NoAccount.failed = 0
    BY DEF NoAccount, Rows
<1>3. Typed
    <2>1. account \in [Users -> Rows] /\ req \in [Requests -> Reqs]
        BY <1>2, IdleIsSound
    <2>2. env \in Peppers /\ minted \in 0..MaxTokens
        BY AccountsAssumption
    <2>3. guesses \in [Users -> Nat] /\ opened \in [Users -> Pins \cup {NoPin}] /\ torn \in BOOLEAN
        OBVIOUS
    <2>4. AccountsTypeOK
        BY <2>1, <2>2, <2>3 DEF AccountsTypeOK, Reqs, Rows
    <2> QED BY <2>4, IdleIsSound DEF Typed
<1>4. GuessesCounted
    <2> SUFFICES ASSUME NEW u \in Users
                 PROVE  0 + Cardinality(Guessing(u)) < LockAt + Cardinality(Requests)
        BY <1>2, AccountsAssumption DEF GuessesCounted
    <2>1. Guessing(u) = {}
        BY <1>1 DEF Guessing
    <2> QED BY <2>1, RequestCard, FS_EmptySet, AccountsAssumption
<1>5. PinsKept
    BY <1>1, <1>2 DEF PinsKept, LoginsKnowPins, LoggingIn, ResetsEndSessions, RotationsKnowPins, Rotating,
                      SessionPinIsCurrent
<1>6. PeppersKept
    BY <1>1, <1>2 DEF PeppersKept, RotationsAlone, HashesFresh, RotationsKnowPeppers, PepperMatchesHashes, Rotating
<1> QED BY <1>3, <1>4, <1>5, <1>6 DEF AccountsInv

\* Every step of the routes keeps it.
LEMMA InvIsKept ==
    ASSUME AccountsInv, [AccountsNext]_accountVars
    PROVE  AccountsInv'
<1>1. ASSUME NEW r \in Requests, NEW u \in Users, NEW pin \in Pins, Switch(r, u, pin)
      PROVE  AccountsInv'
    BY <1>1, KeepsSwitch
<1>2. ASSUME NEW r \in Requests, NEW pin \in Pins, SetupOwner(r, pin)
      PROVE  AccountsInv'
    BY <1>2, KeepsSetupOwner
<1>3. ASSUME NEW r \in Requests, NEW u \in Users, Logout(r, u) \/ Refresh(r, u)
      PROVE  AccountsInv'
    BY <1>3, KeepsLogout, KeepsRefresh
<1>4. ASSUME NEW r \in Requests, NEW u \in Subs,
             \/ CreateUser(r, u, NoHash)
             \/ \E pin \in Pins : CreateUser(r, u, [pin |-> pin, pepper |-> env]) \/ ResetPin(r, u, pin)
             \/ Unlock(r, u) \/ ForceLogout(r, u)
      PROVE  AccountsInv'
    <2>1. CASE CreateUser(r, u, NoHash)
        BY <2>1, KeepsCreateUser
    <2>2. ASSUME NEW pin \in Pins, CreateUser(r, u, [pin |-> pin, pepper |-> env])
          PROVE  AccountsInv'
        <3> DEFINE h == [pin |-> pin, pepper |-> env]
        <3>1. h \in Hashes /\ h.pepper = env
            BY DEF AccountsInv, Typed, AccountsTypeOK, Hashes
        <3>2. CreateUser(r, u, h)
            BY <2>2
        <3> HIDE DEF h
        <3> QED BY <3>1, <3>2, KeepsCreateUser
    <2>3. ASSUME NEW pin \in Pins, ResetPin(r, u, pin)
          PROVE  AccountsInv'
        BY <2>3, KeepsResetPin
    <2> QED BY <1>4, <2>1, <2>2, <2>3, KeepsUnlock, KeepsForceLogout
<1>5. ASSUME NEW r \in Requests, NEW pin \in Pins, NEW pepper \in Peppers, RotatePepper(r, pin, pepper)
      PROVE  AccountsInv'
    BY <1>5, KeepsRotatePepper
<1>6. ASSUME NEW r \in Requests,
             \/ Verify(r) \/ RecordFailure(r) \/ ForgetFailures(r) \/ IssueSession(r)
             \/ Insert(r) \/ Extend(r) \/ HashPin(r) \/ Write(r)
             \/ WriteEnv(r) \/ WriteEnvFails(r) \/ CommitRotation(r) \/ CommitRotationFails(r)
      PROVE  AccountsInv'
    BY <1>6, KeepsVerify, KeepsRecordFailure, KeepsForgetFailures, KeepsIssueSession, KeepsInsert, KeepsExtend,
       KeepsHashPin, KeepsWrite, KeepsWriteEnv, KeepsWriteEnvFails, KeepsCommitRotation, KeepsCommitRotationFails
<1>7. ASSUME NEW u \in Users, Expire(u)
      PROVE  AccountsInv'
    BY <1>7, KeepsExpire
<1>8. ASSUME NEW u \in Subs, DeleteUser(u) \/ \E b \in BOOLEAN : PatchRequired(u, b)
      PROVE  AccountsInv'
    BY <1>8, KeepsDeleteUser, KeepsPatchRequired
<1>9. CASE AccountsCrash
    BY <1>9, KeepsAccountsCrash
<1>10. CASE UNCHANGED accountVars
    <2> USE DEF AccountsInv
    <2>1. UNCHANGED <<account, env, req, minted, guesses, opened, torn>>
        BY <1>10 DEF accountVars
    <2>2. Typed'
        BY <2>1 DEF Typed, AccountsTypeOK
    <2>3. GuessesCounted'
        BY <2>1 DEF GuessesCounted, Guessing
    <2>5. LoginsKnowPins'
        BY <2>1 DEF PinsKept, LoginsKnowPins, LoggingIn, PinKnown, Typed, AccountsTypeOK
    <2>6. PinsKept'
        BY <2>1, <2>5 DEF PinsKept, ResetsEndSessions, RotationsKnowPins, Rotating, SessionPinIsCurrent
    <2>7. PeppersKept'
        BY <2>1 DEF PeppersKept, RotationsAlone, Changing, Rotating, HashesFresh, RotationsKnowPeppers,
                    PepperMatchesHashes
    <2> QED BY <2>2, <2>3, <2>6, <2>7
<1> QED BY <1>1, <1>2, <1>3, <1>4, <1>5, <1>6, <1>7, <1>8, <1>9, <1>10 DEF AccountsNext

\* So it holds throughout.
LEMMA InvHolds == AccountsSpec => []AccountsInv
<1>1. AccountsInit => AccountsInv
    BY InvHoldsAtFirst
<1>2. AccountsInv /\ [AccountsNext]_accountVars => AccountsInv'
    BY InvIsKept
<1> QED BY <1>1, <1>2, PTL DEF AccountsSpec

\* Every row, request and count is of its type, whatever the routes do at once.
THEOREM AccountsTypeCorrect == AccountsSpec => []AccountsTypeOK
<1>1. AccountsInv => AccountsTypeOK
    BY DEF AccountsInv, Typed
<1> QED BY <1>1, InvHolds, PTL

\* However many logins run at once, the lock of _record_failed_pin_attempt admits no
\* more wrong PINs than its threshold and one for each other request.
THEOREM GuessesStayBounded == AccountsSpec => []GuessesBounded
<1>1. AccountsInv => GuessesBounded
    <2> SUFFICES ASSUME AccountsInv, NEW u \in Users
                 PROVE  guesses[u] < LockAt + Cardinality(Requests)
        BY DEF GuessesBounded
    <2>1. guesses[u] + Cardinality(Guessing(u)) < LockAt + Cardinality(Requests)
        BY DEF AccountsInv, GuessesCounted
    <2>2. guesses[u] \in Nat /\ Cardinality(Guessing(u)) \in Nat /\ Cardinality(Requests) \in Nat
        BY RequestCard DEF AccountsInv, Typed, AccountsTypeOK, Guessing
    <2> QED BY <2>1, <2>2, AccountsAssumption
<1> QED BY <1>1, InvHolds, PTL

\* A new PIN (reset_pin) ends the session of the old one, but for a login that had read
\* the old hash when the new one was committed, and for one that opened a session which
\* the reset had not read.
THEOREM SessionsFollowPins == AccountsSpec => []SessionPinIsCurrent
<1>1. AccountsInv => SessionPinIsCurrent
    BY DEF AccountsInv, PinsKept
<1> QED BY <1>1, InvHolds, PTL

\* rotate_pin_pepper leaves no hash that the pepper in .env cannot verify, whichever of its
\* writes fails, unless it is cut off between them or met another change of a PIN.
THEOREM PeppersFollowHashes == AccountsSpec => []PepperMatchesHashes
<1>1. AccountsInv => PepperMatchesHashes
    BY DEF AccountsInv, PeppersKept, PepperMatchesHashes
<1> QED BY <1>1, InvHolds, PTL
===============================================================================
