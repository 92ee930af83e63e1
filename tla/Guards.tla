-------------------------------- MODULE Guards --------------------------------
(* The two in-memory guards of the routes: the sliding window of                 *)
(* core/rate_limit.py and the single-use tokens of                               *)
(* service/utils/confirmation_tokens.py.  Each call reads the clock, waits for   *)
(* the lock, and does its work under it.                                         *)
EXTENDS Integers, FiniteSets

CONSTANTS Keys, Limit, Window,     \* "bucket:ip", with its limit and window
          SweepInterval,           \* _SWEEP_INTERVAL_SECONDS
          Callers,                 \* threads in check_and_record or consume
          Targets,                 \* (resource, resource_id, action)
          Slips, TokenTTL,         \* confirmation tokens, and TOKEN_TTL
          MaxNow,                  \* bound: the clock
          MaxWait,                 \* bound: how long a thread waits for a lock
          Nobody                   \* no target

ASSUME GuardsAssumption ==
    /\ Limit \in [Keys -> Nat \ {0}] /\ Window \in [Keys -> Nat \ {0}]
    /\ SweepInterval \in Nat /\ TokenTTL \in Nat /\ MaxNow \in Nat /\ MaxWait \in Nat
    /\ Nobody \notin Targets

VARIABLES now,        \* time.monotonic()
          attempts,   \* _attempts: the counted attempts of each key
          windows,    \* _windows, 0 for a key that is not there
          lastSweep,  \* _last_sweep
          calls,      \* what each thread waits to do, and when it read the clock
          tokens,     \* _tokens: the target and the expiry of each token
          (* What has happened, for the properties. *)
          allowed,    \* every attempt of each key that was allowed
          refusal,    \* the last refusal: its key and time
          issued,     \* the target each token was issued for
          presented,  \* the tokens that consume has seen
          accepted    \* the consumptions that returned True

guardVars == <<now, attempts, windows, lastSweep, calls, tokens,
              allowed, refusal, issued, presented, accepted>>
limitVars == <<attempts, windows, lastSweep, allowed, refusal>>
tokenVars == <<tokens, issued, presented, accepted>>

\* A list of timestamps, as the set of its entries with their numbers.
Stamps == [n : Nat, at : 0..MaxNow]

NoCall == [op |-> "none"]
NoEntry == [target |-> Nobody, expires |-> 0]

GuardsInit ==
    /\ now = 0
    /\ attempts = [k \in Keys |-> {}]
    /\ windows = [k \in Keys |-> 0]
    /\ lastSweep = 0
    /\ calls = [c \in Callers |-> NoCall]
    /\ tokens = [t \in Slips |-> NoEntry]
    /\ allowed = [k \in Keys |-> {}]
    /\ refusal = NoCall
    /\ issued = [t \in Slips |-> Nobody]
    /\ presented = {}
    /\ accepted = {}
-------------------------------------------------------------------------------
(* core/rate_limit.py                                                            *)

Arrive(c, k) ==
    /\ calls[c] = NoCall
    /\ calls' = [calls EXCEPT ![c] = [op |-> "attempt", key |-> k, at |-> now]]
    /\ UNCHANGED <<now, limitVars, tokenVars>>

After(times, cutoff) == {a \in times : a.at > cutoff}

\* A key whose last attempt has left its window.
\* Mutant of Stale: its first attempt.
StaleByFirst(k, at) ==
    \/ attempts[k] = {}
    \/ \E a \in attempts[k] : a.at <= at - windows[k] /\ \A b \in attempts[k] : a.n <= b.n
Stale(k, at) ==
    \/ attempts[k] = {}
    \/ \E a \in attempts[k] : a.at <= at - windows[k] /\ \A b \in attempts[k] : b.n <= a.n

\* _sweep_expired_locked: the keys it drops, at most once in an interval.
SweepDue(at) == at - lastSweep >= SweepInterval
Swept(at) == IF SweepDue(at) THEN {k \in Keys : Stale(k, at)} ELSE {}

\* check_and_record: the sweep, then the window of the key.
CheckAndRecord(c) ==
    /\ calls[c].op = "attempt"
    /\ LET k == calls[c].key
           at == calls[c].at
           swept == Swept(at)
           times == IF k \in swept THEN {} ELSE After(attempts[k], at - Window[k])
           full == Cardinality(times) >= Limit[k]
           new == [n |-> Cardinality(allowed[k]) + 1, at |-> at]
       IN /\ lastSweep' = IF SweepDue(at) THEN at ELSE lastSweep
          /\ attempts' = [j \in Keys |->
                IF j = k THEN (IF full THEN times ELSE times \cup {new})
                ELSE IF j \in swept THEN {} ELSE attempts[j]]
          /\ windows' = [j \in Keys |->
                IF j = k THEN Window[k] ELSE IF j \in swept THEN 0 ELSE windows[j]]
          /\ IF full
             THEN refusal' = [op |-> "attempt", key |-> k, at |-> at] /\ UNCHANGED allowed
             ELSE allowed' = [allowed EXCEPT ![k] = @ \cup {new}] /\ UNCHANGED refusal
    /\ calls' = [calls EXCEPT ![c] = NoCall]
    /\ UNCHANGED <<now, tokenVars>>
-------------------------------------------------------------------------------
(* service/utils/confirmation_tokens.py                                          *)

\* _expire_stale
Unexpired == [t \in Slips |-> IF tokens[t].expires < now THEN NoEntry ELSE tokens[t]]

\* issue: an unguessable token, so one that was never used before.
Issue(t, target) ==
    /\ issued[t] = Nobody
    /\ tokens' = [Unexpired EXCEPT ![t] = [target |-> target, expires |-> now + TokenTTL]]
    /\ issued' = [issued EXCEPT ![t] = target]
    /\ UNCHANGED <<now, limitVars, calls, presented, accepted>>

\* A client presents a token, perhaps again, perhaps for something else.
Present(c, t, target) ==
    /\ calls[c] = NoCall
    /\ issued[t] # Nobody
    /\ calls' = [calls EXCEPT ![c] = [op |-> "consume", token |-> t, target |-> target, at |-> now]]
    /\ UNCHANGED <<now, limitVars, tokenVars>>

\* Mutant of Popped: a token that does not match stays.
PoppedIfMatching(store, t, target) ==
    IF store[t].target = target THEN [store EXCEPT ![t] = NoEntry] ELSE store
Popped(store, t, target) == [store EXCEPT ![t] = NoEntry]

\* consume: the token is removed whether it matches or not.
Consume(c) ==
    /\ calls[c].op = "consume"
    /\ LET t == calls[c].token
           entry == Unexpired[t]
           target == calls[c].target
       IN /\ tokens' = Popped(Unexpired, t, target)
          /\ presented' = presented \cup {t}
          /\ accepted' =
                IF entry.target = target /\ calls[c].at <= entry.expires
                THEN accepted \cup {[token |-> t, target |-> target, again |-> t \in presented]}
                ELSE accepted
    /\ calls' = [calls EXCEPT ![c] = NoCall]
    /\ UNCHANGED <<now, limitVars, issued>>
-------------------------------------------------------------------------------
Tick ==
    /\ now < MaxNow
    /\ \A c \in Callers : calls[c] # NoCall => now - calls[c].at < MaxWait
    /\ now' = now + 1
    /\ UNCHANGED <<limitVars, calls, tokenVars>>

GuardsNext ==
    \/ \E c \in Callers :
        \/ \E k \in Keys : Arrive(c, k)
        \/ CheckAndRecord(c)
        \/ \E t \in Slips, target \in Targets : Present(c, t, target)
        \/ Consume(c)
    \/ \E t \in Slips, target \in Targets : Issue(t, target)
    \/ Tick

GuardsSpec == GuardsInit /\ [][GuardsNext]_guardVars
-------------------------------------------------------------------------------
GuardsTypeOK ==
    /\ now \in 0..MaxNow
    /\ attempts \in [Keys -> SUBSET Stamps]
    /\ windows \in [Keys -> Nat]
    /\ lastSweep \in 0..MaxNow
    /\ \A c \in Callers : calls[c].op \in {"none", "attempt", "consume"}
    /\ tokens \in [Slips -> [target : Targets \cup {Nobody}, expires : Nat]]
    /\ allowed \in [Keys -> SUBSET Stamps]
    /\ issued \in [Slips -> Targets \cup {Nobody}]
    /\ presented \subseteq Slips
    /\ accepted \subseteq [token : Slips, target : Targets, again : BOOLEAN]

\* The stamps of times in the half-open interval.
Within(times, after, until) ==
    Cardinality({a \in times : after < a.at /\ a.at <= until})

\* Whatever the sweep drops and in whatever order calls that have read the clock
\* get the lock, a key is never allowed more than its limit in a window (less the
\* time such a call may wait), and is refused only when so many allowed attempts
\* are in its window: refused attempts push nothing forward.
LimiterIsExact ==
    /\ \A k \in Keys, t \in 0..MaxNow :
            Within(allowed[k], t - Window[k] + 2 * MaxWait, t) <= Limit[k]
    /\ refusal # NoCall =>
            Within(allowed[refusal.key], refusal.at - Window[refusal.key], MaxNow) >= Limit[refusal.key]

\* A token is accepted when it is presented for the first time, whoever races to
\* present it, and for the target it was issued for, so that a retried or
\* replayed confirmation confirms nothing.
TokensSingleUse == \A a \in accepted : ~a.again /\ a.target = issued[a.token]

\* Neither guard gives an attempt or a confirmation too many, whatever order the
\* threads get its lock in.
GuardsAreExact == LimiterIsExact /\ TokensSingleUse
===============================================================================
