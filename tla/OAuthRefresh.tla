---------------------------- MODULE OAuthRefresh ----------------------------
(***************************************************************************)
(* The stored OAuth credential of a provider and its refresh (packages/ai/    *)
(* src/auth/resolve.ts over packages/coding-agent/src/core/auth-storage.ts):   *)
(* requests of any process read the file, and one that finds the token about  *)
(* to expire refreshes it under the file's lock.  The provider takes a        *)
(* refresh token once: each refresh makes the next.                          *)
(*                                                                         *)
(* What happens under the lock without an await is one step; only a refresh   *)
(* holds it for longer.  The cached copy of the file is used while its        *)
(* revision is the file's, and so never differs from it.                     *)
(***************************************************************************)
EXTENDS Integers, Sequences, FiniteSets

CONSTANTS
    Tasks,         \* bound: operations on the credential at one time
    MaxLogins,     \* bound: logins
    MaxTurns,      \* bound: tokens a login leads to, one after the other
    MaxLate        \* bound: requests that were given up and are under way at a time

\* What the theorems need of them (MCParts_proofs).
TokensAssumption ==
    /\ MaxLogins \in Nat /\ MaxTurns \in Nat \ {0}
    /\ "nobody" \notin Tasks /\ "dead" \notin Tasks

VARIABLES
    file,       \* the credential stored, or Nothing
    holder,     \* of the lock: a task, Nobody, or Dead when its process has died
    task,       \* how far each task is
    stored,     \* the credential it read before it asked for the lock
    current,    \* the credential it read under the lock
    valid,      \* the provider: the turn it accepts of each login so far, or Revoked
    late,       \* tokens of requests that were given up and are still under way
    session,    \* history: the login in force, 0 when logged out
    cut         \* history: a refresh was given up after it was asked for, or its
                \* lock was lost, and its token may be

vars == <<file, holder, task, stored, current, valid, late, session, cut>>

Credential(login, turn, fresh) == [login |-> login, turn |-> turn, fresh |-> fresh]
Nothing == Credential(0, 0, FALSE)
Revoked == 0
Nobody == "nobody"
Dead == "dead"

Init ==
    /\ file = Nothing /\ holder = Nobody
    /\ task = [q \in Tasks |-> "idle"]
    /\ stored = [q \in Tasks |-> Nothing] /\ current = [q \in Tasks |-> Nothing]
    /\ valid = <<>> /\ late = {} /\ session = 0 /\ cut = FALSE

Goto(q, at) == task' = [task EXCEPT ![q] = at]
Release(q) == holder' = IF holder = q THEN Nobody ELSE holder
Done(q) ==
    /\ Goto(q, "idle") /\ Release(q)
    /\ stored' = [stored EXCEPT ![q] = Nothing] /\ current' = [current EXCEPT ![q] = Nothing]

-----------------------------------------------------------------------------
(* Logging in and out: the token is there before the lock is asked for. *)

Login(q) ==
    /\ task[q] = "idle" /\ holder = Nobody /\ Len(valid) < MaxLogins
    /\ file' = Credential(Len(valid) + 1, 1, TRUE)
    /\ valid' = Append(valid, 1) /\ session' = Len(valid) + 1
    /\ UNCHANGED <<holder, task, stored, current, late, cut>>

Logout(q) ==
    /\ task[q] = "idle" /\ holder = Nobody
    /\ file' = Nothing /\ session' = 0
    /\ UNCHANGED <<holder, task, stored, current, valid, late, cut>>

\* Less than the required validity is left.
Expire ==
    /\ file.fresh /\ file' = [file EXCEPT !.fresh = FALSE]
    /\ UNCHANGED <<holder, task, stored, current, valid, late, session, cut>>

-----------------------------------------------------------------------------
(* resolveStoredOAuth. *)

\* The optimistic check, without a lock.
Read(q) ==
    /\ task[q] = "idle" /\ file # Nothing /\ ~file.fresh
    /\ Goto(q, "locking") /\ stored' = [stored EXCEPT ![q] = file]
    /\ UNCHANGED <<file, holder, current, valid, late, session, cut>>

\* The authoritative check: logged out or refreshed meanwhile.
Lock(q) ==
    /\ task[q] = "locking" /\ holder = Nobody
    /\ IF file = Nothing \/ file.fresh
       THEN Done(q)
       ELSE /\ Goto(q, "asking") /\ holder' = q
            /\ current' = [current EXCEPT ![q] = file] /\ UNCHANGED stored
    /\ UNCHANGED <<file, valid, late, session, cut>>

\* A bug: the token that the optimistic check saw is presented.
PresentedFirstRead(q) == stored[q]
Presented(q) == current[q]

\* What the provider makes of a token: one that was used before revokes the login.
Accepts(token) == valid[token.login] = token.turn
Asks(token) ==
    /\ Accepts(token) => token.turn < MaxTurns
    /\ valid' = [valid EXCEPT ![token.login] = IF Accepts(token) THEN token.turn + 1 ELSE Revoked]

\* The provider answers.
Rotate(q) ==
    /\ task[q] = "asking"
    /\ Asks(Presented(q))
    /\ Goto(q, IF Accepts(Presented(q)) THEN "answered" ELSE "refused")
    /\ UNCHANGED <<file, holder, stored, current, late, session, cut>>

\* A request that was given up reaches the provider.
RotateLate ==
    /\ \E token \in late : Asks(token) /\ late' = late \ {token}
    /\ UNCHANGED <<file, holder, task, stored, current, session, cut>>

\* modify: what was read under the lock is written with the rotated credential.
Store(q) ==
    /\ task[q] = "answered"
    /\ file' = Credential(current[q].login, current[q].turn + 1, TRUE)
    /\ Done(q)
    /\ UNCHANGED <<valid, late, session, cut>>

\* A refresh is given up: its request may have come to nothing, be still under way,
\* or have been answered.
GivenUp(q) ==
    \/ task[q] # "answered" /\ UNCHANGED <<late, cut>>
    \/ /\ task[q] = "asking" /\ Cardinality(late) < MaxLate
       /\ late' = late \cup {Presented(q)} /\ cut' = TRUE
    \/ task[q] = "answered" /\ UNCHANGED late /\ cut' = TRUE

\* The refresh fails, is aborted with its request or takes 15 seconds, or the lock
\* turns out to be compromised: nothing is written.
Fail(q) ==
    /\ task[q] \in {"locking", "asking", "answered", "refused"}
    /\ GivenUp(q)
    /\ Done(q)
    /\ UNCHANGED <<file, valid, session>>

-----------------------------------------------------------------------------
(* The lock file. *)

\* The process dies; it may hold the lock.
Crash(q) ==
    /\ task[q] # "idle"
    /\ GivenUp(q)
    /\ Goto(q, "idle") /\ holder' = IF holder = q THEN Dead ELSE holder
    /\ stored' = [stored EXCEPT ![q] = Nothing] /\ current' = [current EXCEPT ![q] = Nothing]
    /\ UNCHANGED <<file, valid, session>>

\* After 30 seconds without an update a lock is taken for stale ...
Stale ==
    /\ holder = Dead /\ holder' = Nobody
    /\ UNCHANGED <<file, task, stored, current, valid, late, session, cut>>

\* ... also that of a process which was suspended.
Compromise(q) ==
    /\ holder = q /\ holder' = Nobody /\ cut' = TRUE
    /\ UNCHANGED <<file, task, stored, current, valid, late, session>>

-----------------------------------------------------------------------------
TaskStep(q) ==
    \/ Login(q) \/ Logout(q) \/ Read(q) \/ Lock(q) \/ Rotate(q) \/ Store(q)
    \/ Fail(q) \/ Crash(q) \/ Compromise(q)
Next == (\E q \in Tasks : TaskStep(q)) \/ RotateLate \/ Expire \/ Stale
Spec == Init /\ [][Next]_vars

-----------------------------------------------------------------------------
Credentials == [login : 0 .. MaxLogins, turn : 0 .. MaxTurns, fresh : BOOLEAN]
TypeOK ==
    /\ file \in Credentials /\ holder \in Tasks \cup {Nobody, Dead}
    /\ task \in [Tasks -> {"idle", "locking", "asking", "answered", "refused"}]
    /\ stored \in [Tasks -> Credentials] /\ current \in [Tasks -> Credentials]
    /\ valid \in Seq(0 .. MaxTurns) /\ Len(valid) <= MaxLogins /\ late \subseteq Credentials
    /\ session \in 0 .. Len(valid) /\ cut \in BOOLEAN

\* "concurrent requests and processes cannot double-refresh a rotated token"
\* (ai/README.md:394): while nobody holds the lock, the file has the token that the
\* provider accepts of the login in force, and none after a logout; unless a
\* refresh was cut: failed, aborted, timed out or crashed when its request could
\* still rotate or had rotated the token, or lost its lock to another.
StoredIsValid ==
    holder = Nobody /\ ~cut =>
        IF session = 0 THEN file = Nothing
        ELSE file.login = session /\ file.turn = valid[session]
=============================================================================
