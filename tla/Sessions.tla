------------------------------ MODULE Sessions ------------------------------
(***************************************************************************)
(* Refresh-token sessions of the UniShop China backend: login, rotation,   *)
(* logout, logout-all, password change and password reset as concurrent    *)
(* MySQL transactions over the tables users and refresh_tokens             *)
(* (refresh_session_service.py, token_repository.py, auth_service.py,      *)
(* password_change_service.py, password_reset_service.py).                 *)
(*                                                                         *)
(* A request is one transaction, taken statement by statement.  InnoDB     *)
(* (REPEATABLE READ, the default: database.py sets no level) gives every   *)
(* row an exclusive lock held to the end of the transaction, lets a        *)
(* locking statement see the newest version of a row, and makes a range    *)
(* scan lock the rows it meets one by one and the gaps it has passed.  A   *)
(* family is named by its first token, as fresh as the uuid4 of the code.  *)
(***************************************************************************)
EXTENDS Naturals, FiniteSets

CONSTANTS
    Users,            \* accounts
    Tokens,           \* the rows refresh_tokens can ever hold (a bound)
    Requests,         \* the transactions that can be open at a time
    NoUser, NoToken, NoRequest,
    MaxFamilies,      \* max_active_session_families_per_user
    Lifetime,         \* refresh_token_expire_days
    AbsoluteLifetime, \* refresh_session_absolute_days
    MaxTime,          \* bound on the clock
    MaxPassword       \* bound on the number of password changes

ASSUME NamesAreDistinct ==
    /\ Users \cap Tokens = {}
    /\ NoUser \notin Users
    /\ NoToken \notin Users \cup Tokens
    /\ NoRequest \notin Requests

\* A table holds finitely many rows.
ASSUME PoolIsFinite == IsFiniteSet(Tokens)

\* validate_session_configuration: 1 <= cap, 1 <= token days <= family days.
ASSUME ConfigurationIsValid ==
    /\ MaxFamilies \in Nat \ {0}
    /\ Lifetime \in Nat \ {0}
    /\ AbsoluteLifetime \in Nat
    /\ Lifetime <= AbsoluteLifetime
    /\ MaxTime \in Nat
    /\ MaxPassword \in Nat

VARIABLES
    now,     \* utc_now()
    account, \* users: [active, password]; password counts the changes
    db,      \* refresh_tokens as committed, what a snapshot read sees
    work,    \* refresh_tokens with every uncommitted write, what locks guard
    owner,   \* who holds the row lock of a user or of a token
    gap,     \* the ranges (a user's rows, a family's rows) r has gap-locked
    pc,      \* the statement r executes next
    ctx      \* the arguments and local variables of r

vars == <<now, account, db, work, owner, gap, pc, ctx>>

Time == 0..MaxTime
Horizon == 0..(MaxTime + AbsoluteLifetime)
Passwords == 0..MaxPassword

\* revocation_reason, with "absent" for no row and "live" for revoked_at NULL.
Closing == {"logout", "logout_all", "reuse_detected", "inactive_account",
            "session_limit", "expired_cleanup"}
Revoked == Closing \cup {"rotated"}

\* A row of refresh_tokens.  password is a history field: the account's
\* password when the family was opened, inherited by every child.
Row == [status: Revoked \cup {"absent", "live"}, user: Users \cup {NoUser},
        family: Tokens \cup {NoToken}, created: Time, expires: Horizon,
        familyExpires: Horizon, replacedBy: Tokens \cup {NoToken},
        password: Passwords]

Blank == [status |-> "absent", user |-> NoUser, family |-> NoToken,
          created |-> 0, expires |-> 0, familyExpires |-> 0,
          replacedBy |-> NoToken, password |-> 0]

PasswordOps == {"change_password", "reset_password"}
AccountWide == PasswordOps \cup {"logout_all"}
Operations == AccountWide \cup {"refresh", "logout", "login"}
Statements == {"idle", "lockToken", "lockUser", "pickOldest", "revokeFamily",
               "revokeUser", "insert", "commit"}

Context == [op: Operations \cup {"none"}, user: Users \cup {NoUser},
            token: Tokens \cup {NoToken}, family: Tokens \cup {NoToken},
            password: Passwords, at: Time,
            reason: Closing \cup {"none"}, excess: Nat]

NoContext == [op |-> "none", user |-> NoUser, token |-> NoToken,
              family |-> NoToken, password |-> 0, at |-> 0,
              reason |-> "none", excess |-> 0]

TypeOK ==
    /\ now \in Time
    /\ account \in [Users -> [active: BOOLEAN, password: Passwords]]
    /\ db \in [Tokens -> Row]
    /\ work \in [Tokens -> Row]
    /\ owner \in [Users \cup Tokens -> Requests \cup {NoRequest}]
    /\ gap \in [Requests -> SUBSET (Users \cup Tokens)]
    /\ pc \in [Requests -> Statements]
    /\ ctx \in [Requests -> Context]

Init ==
    /\ now = 0
    /\ account = [u \in Users |-> [active |-> TRUE, password |-> 0]]
    /\ db = [t \in Tokens |-> Blank]
    /\ work = [t \in Tokens |-> Blank]
    /\ owner = [k \in Users \cup Tokens |-> NoRequest]
    /\ gap = [r \in Requests |-> {}]
    /\ pc = [r \in Requests |-> "idle"]
    /\ ctx = [r \in Requests |-> NoContext]

-----------------------------------------------------------------------------
\* Row locks, range scans and the two ends of a transaction.

Mine(r, k) == owner[k] = r
Available(r, k) == owner[k] \in {r, NoRequest}
Take(r, k) == owner' = [owner EXCEPT ![k] = r]

InRange(t, k) == work[t].status # "absent" /\ k \in {work[t].user, work[t].family}
RowsIn(k) == {t \in Tokens : InRange(t, k)}

\* The index range the scan r executes goes through.
ScanKey(r) == IF pc[r] = "revokeFamily" THEN ctx[r].family ELSE ctx[r].user
Scanning(r) == pc[r] \in {"pickOldest", "revokeFamily", "revokeUser"}

\* Mutant: the gaps are not locked, as under READ COMMITTED.
ScannedRowsOnly(r) == \A t \in RowsIn(ScanKey(r)) : Mine(r, t)

\* A scan is over when it has locked its rows and every gap between them.
Scanned(r) ==
    /\ ScanKey(r) \in gap[r]
    /\ \A t \in RowsIn(ScanKey(r)) : Mine(r, t)

\* Mutant: the end of a transaction forgets its gap locks.
ReleaseRowsOnly(r) ==
    /\ owner' = [k \in DOMAIN owner |-> IF Mine(r, k) THEN NoRequest ELSE owner[k]]
    /\ pc' = [pc EXCEPT ![r] = "idle"]
    /\ ctx' = [ctx EXCEPT ![r] = NoContext]
    /\ UNCHANGED gap

Release(r) ==
    /\ owner' = [k \in DOMAIN owner |-> IF Mine(r, k) THEN NoRequest ELSE owner[k]]
    /\ gap' = [gap EXCEPT ![r] = {}]
    /\ pc' = [pc EXCEPT ![r] = "idle"]
    /\ ctx' = [ctx EXCEPT ![r] = NoContext]

Rollback(r) ==
    /\ work' = [t \in Tokens |-> IF Mine(r, t) THEN db[t] ELSE work[t]]
    /\ Release(r)
    /\ UNCHANGED <<now, account, db>>

Goto(r, statement) == pc' = [pc EXCEPT ![r] = statement]

-----------------------------------------------------------------------------
\* Requests arrive.  A cookie is a committed row, or NoToken for one the
\* table does not know.

Issued == {t \in Tokens : db[t].status # "absent"}

Begin(r, statement, c) ==
    /\ pc[r] = "idle"
    /\ Goto(r, statement)
    /\ ctx' = [ctx EXCEPT ![r] = c]
    /\ UNCHANGED <<now, account, db, work, owner, gap>>

BeginCookieRequest(r, o, t) ==
    Begin(r, "lockToken", [NoContext EXCEPT !.op = o, !.token = t])

BeginLogin(r, u, p) ==
    Begin(r, "lockUser", [NoContext EXCEPT !.op = "login", !.user = u, !.password = p])

\* get_current_user has seen the account active.
BeginLogoutAll(r, u) ==
    /\ account[u].active
    /\ Begin(r, "revokeUser", [NoContext EXCEPT !.op = "logout_all", !.user = u,
                                                 !.reason = "logout_all"])

BeginChangePassword(r, u, p) ==
    /\ account[u].active
    /\ Begin(r, "lockUser", [NoContext EXCEPT !.op = "change_password", !.user = u,
                                               !.password = p, !.reason = "logout_all"])

\* The reset code presented is an input: it may or may not be accepted.
BeginResetPassword(r, u) ==
    Begin(r, "lockUser", [NoContext EXCEPT !.op = "reset_password", !.user = u,
                                            !.reason = "logout_all"])

-----------------------------------------------------------------------------
\* get_for_update_by_hash and the decisions rotate_session and
\* logout_current take on the locked row.

Expired(row, at) == row.expires <= at \/ row.familyExpires <= at

\* Mutant: a used cookie is not told from a live one.
RefusalIgnoresReuse(row) == IF Expired(row, now) THEN "expired_cleanup" ELSE "none"

\* rotate_session revokes the family for this reason, or goes on to the user.
Refusal(row) ==
    IF row.status # "live" THEN "reuse_detected"
    ELSE IF Expired(row, now) THEN "expired_cleanup" ELSE "none"

\* A cookie the table does not know ends the request without a change, and so
\* does a CSRF pair that is not the row's (an input: it may be wrong any time).
RejectCookie(r) ==
    /\ pc[r] = "lockToken"
    /\ ctx[r].token # NoToken => Available(r, ctx[r].token)
    /\ Rollback(r)

\* Mutant: the row is read without FOR UPDATE.
LockTokenUnlocked(r) ==
    LET t == ctx[r].token
        row == db[t]
        reason == IF ctx[r].op = "logout" THEN "logout" ELSE Refusal(row)
    IN  /\ pc[r] = "lockToken"
        /\ t # NoToken
        /\ ctx' = [ctx EXCEPT ![r].user = row.user, ![r].family = row.family,
                              ![r].reason = reason,
                              ![r].at = IF ctx[r].op = "refresh" THEN now ELSE 0]
        /\ Goto(r, IF reason = "none" THEN "lockUser" ELSE "revokeFamily")
        /\ UNCHANGED <<now, account, db, work, owner, gap>>

LockToken(r) ==
    LET t == ctx[r].token
        row == work[t]
        reason == IF ctx[r].op = "logout" THEN "logout" ELSE Refusal(row)
    IN  /\ pc[r] = "lockToken"
        /\ t # NoToken
        /\ Available(r, t)
        /\ Take(r, t)
        /\ ctx' = [ctx EXCEPT ![r].user = row.user, ![r].family = row.family,
                              ![r].reason = reason,
                              ![r].at = IF ctx[r].op = "refresh" THEN now ELSE 0]
        /\ Goto(r, IF reason = "none" THEN "lockUser" ELSE "revokeFamily")
        /\ UNCHANGED <<now, account, db, work, gap>>

-----------------------------------------------------------------------------
\* The user row, and what each service decides once it holds it.

CountActive(u, at) ==
    Cardinality({db[t].family : t \in {s \in Tokens :
        db[s].status = "live" /\ db[s].user = u /\ ~Expired(db[s], at)}})

\* Mutant: the family about to be opened is not counted.
FamiliesOverCap(u, at) ==
    LET count == CountActive(u, at)
    IN  IF count > MaxFamilies THEN count - MaxFamilies ELSE 0

\* max(0, active_count - cap + 1); the count is a snapshot read.
FamiliesToRevoke(u, at) ==
    LET count == CountActive(u, at)
    IN  IF count + 1 > MaxFamilies THEN (count + 1) - MaxFamilies ELSE 0

Authenticated(r) ==
    LET u == ctx[r].user
    IN  account[u].active /\ account[u].password = ctx[r].password

RefreshLockUser(r) ==
    LET u == ctx[r].user
    IN  /\ pc[r] = "lockUser" /\ ctx[r].op = "refresh"
        /\ Available(r, u)
        /\ Take(r, u)
        /\ IF account[u].active
           THEN Goto(r, "insert") /\ UNCHANGED ctx
           ELSE /\ Goto(r, "revokeFamily")
                /\ ctx' = [ctx EXCEPT ![r].reason = "inactive_account"]
        /\ UNCHANGED <<now, account, db, work, gap>>

\* Mutant: the credentials are checked without locking the account.
LoginLockUserUnlocked(r) ==
    LET u == ctx[r].user
        excess == FamiliesToRevoke(u, now)
    IN  /\ pc[r] = "lockUser" /\ ctx[r].op = "login"
        /\ Authenticated(r)
        /\ ctx' = [ctx EXCEPT ![r].at = now, ![r].excess = excess,
                              ![r].reason = "session_limit"]
        /\ Goto(r, IF excess > 0 THEN "pickOldest" ELSE "insert")
        /\ UNCHANGED <<now, account, db, work, owner, gap>>

\* The role list is the first snapshot read: it fixes what the count sees.
LoginLockUser(r) ==
    LET u == ctx[r].user
        excess == FamiliesToRevoke(u, now)
    IN  /\ pc[r] = "lockUser" /\ ctx[r].op = "login"
        /\ Available(r, u)
        /\ Authenticated(r)
        /\ Take(r, u)
        /\ ctx' = [ctx EXCEPT ![r].at = now, ![r].excess = excess,
                              ![r].reason = "session_limit"]
        /\ Goto(r, IF excess > 0 THEN "pickOldest" ELSE "insert")
        /\ UNCHANGED <<now, account, db, work, gap>>

ChangePasswordLockUser(r) ==
    LET u == ctx[r].user
    IN  /\ pc[r] = "lockUser" /\ ctx[r].op = "change_password"
        /\ Available(r, u)
        /\ Authenticated(r)
        /\ Take(r, u)
        /\ Goto(r, "revokeUser")
        /\ UNCHANGED <<now, account, db, work, gap, ctx>>

\* A challenge that is available and matches is consumed (module PasswordReset).
ResetPasswordLockUser(r) ==
    LET u == ctx[r].user
    IN  /\ pc[r] = "lockUser" /\ ctx[r].op = "reset_password"
        /\ Available(r, u)
        /\ account[u].active
        /\ account[u].password < MaxPassword
        /\ Take(r, u)
        /\ ctx' = [ctx EXCEPT ![r].password = account[u].password]
        /\ Goto(r, "revokeUser")
        /\ UNCHANGED <<now, account, db, work, gap>>

\* A login fails on its credentials; a change also on a new password that is
\* the old one, a reset on its code (inputs: they may fail any time).
RejectCredentials(r) ==
    /\ pc[r] = "lockUser" /\ ctx[r].op \in PasswordOps \cup {"login"}
    /\ Available(r, ctx[r].user)
    /\ ctx[r].op \in PasswordOps \/ ~Authenticated(r)
    /\ Rollback(r)

-----------------------------------------------------------------------------
\* Range scans: get_oldest_active_family, revoke_family, revoke_all_for_user.

LockRow(r) ==
    /\ Scanning(r)
    /\ \E t \in RowsIn(ScanKey(r)) : owner[t] = NoRequest /\ Take(r, t)
    /\ UNCHANGED <<now, account, db, work, gap, pc, ctx>>

LockGap(r) ==
    /\ Scanning(r)
    /\ ScanKey(r) \notin gap[r]
    /\ gap' = [gap EXCEPT ![r] = @ \cup {ScanKey(r)}]
    /\ UNCHANGED <<now, account, db, work, owner, pc, ctx>>

\* Live rows of the login's account, read through the locks just taken.
Candidates(r) ==
    {t \in Tokens : /\ work[t].status = "live"
                    /\ work[t].user = ctx[r].user
                    /\ ~Expired(work[t], ctx[r].at)}

PickOldest(r) ==
    /\ pc[r] = "pickOldest"
    /\ Scanned(r)
    /\ \/ /\ Candidates(r) = {}
          /\ Goto(r, "insert")
          /\ UNCHANGED ctx
       \/ \E t \in Candidates(r) :
            /\ \A s \in Candidates(r) : work[t].created <= work[s].created
            /\ ctx' = [ctx EXCEPT ![r].family = work[t].family]
            /\ Goto(r, "revokeFamily")
    /\ UNCHANGED <<now, account, db, work, owner, gap>>

Revoke(rows, reason) ==
    work' = [t \in Tokens |->
                IF t \in rows THEN [work[t] EXCEPT !.status = reason] ELSE work[t]]

\* Mutant: only the presented row is revoked.
RevocablePresented(r) == {ctx[r].token} \cap Tokens

\* Mutant: every revocation includes the rows already revoked.
RevocableAll(r) == RowsIn(ScanKey(r))

\* include_revoked for a reused token: its reason replaces every other one.
Revocable(r) ==
    {t \in RowsIn(ScanKey(r)) :
        work[t].status = "live" \/ ctx[r].reason = "reuse_detected"}

RevokeFamily(r) ==
    /\ pc[r] = "revokeFamily"
    /\ Scanned(r)
    /\ Revoke(Revocable(r), ctx[r].reason)
    /\ IF ctx[r].op = "login"
       THEN /\ ctx' = [ctx EXCEPT ![r].excess = @ - 1]
            /\ Goto(r, IF ctx[r].excess > 1 THEN "pickOldest" ELSE "insert")
       ELSE Goto(r, "commit") /\ UNCHANGED ctx
    /\ UNCHANGED <<now, account, db, owner, gap>>

\* Mutant: the rows are updated as a snapshot read found them.
RevokeUserUnscanned(r) ==
    /\ pc[r] = "revokeUser"
    /\ Revoke({t \in Revocable(r) : Available(r, t)}, ctx[r].reason)
    /\ Goto(r, "commit")
    /\ UNCHANGED <<now, account, db, owner, gap, ctx>>

RevokeUser(r) ==
    /\ pc[r] = "revokeUser"
    /\ Scanned(r)
    /\ Revoke(Revocable(r), ctx[r].reason)
    /\ Goto(r, "commit")
    /\ UNCHANGED <<now, account, db, owner, gap, ctx>>

-----------------------------------------------------------------------------
\* _create_token_record: an insert waits for every gap lock on its ranges.

Fresh == {t \in Tokens : work[t].status = "absent"}

\* The ranges the new row of r falls in.
InsertKeys(r) ==
    IF ctx[r].op = "refresh" THEN {ctx[r].user, ctx[r].family} ELSE {ctx[r].user}

GapsOpen(r) == \A q \in Requests \ {r} : gap[q] \cap InsertKeys(r) = {}

Earlier(a, b) == IF a <= b THEN a ELSE b

NewRow(u, f, at, familyExpires, p) ==
    [Blank EXCEPT !.status = "live", !.user = u, !.family = f, !.created = now,
                  !.expires = Earlier(at + Lifetime, familyExpires),
                  !.familyExpires = familyExpires, !.password = p]

\* A new family for the login.
OpenFamily(r) ==
    LET u == ctx[r].user
        at == ctx[r].at
    IN  /\ pc[r] = "insert" /\ ctx[r].op = "login"
        /\ GapsOpen(r)
        /\ \E t \in Fresh :
             /\ Take(r, t)
             /\ work' = [work EXCEPT ![t] =
                    NewRow(u, t, at, at + AbsoluteLifetime, ctx[r].password)]
        /\ Goto(r, "commit")
        /\ UNCHANGED <<now, account, db, gap, ctx>>

\* Mutant: mark_token_rotated is forgotten.
RotateKeepsParent(r) ==
    LET old == work[ctx[r].token]
    IN  /\ pc[r] = "insert" /\ ctx[r].op = "refresh"
        /\ GapsOpen(r)
        /\ \E t \in Fresh :
             /\ Take(r, t)
             /\ work' = [work EXCEPT ![t] = NewRow(old.user, old.family, ctx[r].at,
                                                  old.familyExpires, old.password)]
        /\ Goto(r, "commit")
        /\ UNCHANGED <<now, account, db, gap, ctx>>

\* Mutant: each rotation gives the family a new deadline, from the time of the insert.
RotateExtendsFamily(r) ==
    LET parent == ctx[r].token
        old == work[parent]
    IN  /\ pc[r] = "insert" /\ ctx[r].op = "refresh"
        /\ GapsOpen(r)
        /\ \E t \in Fresh :
             /\ Take(r, t)
             /\ work' = [work EXCEPT
                    ![t] = NewRow(old.user, old.family, ctx[r].at,
                                  now + AbsoluteLifetime, old.password),
                    ![parent].status = "rotated",
                    ![parent].replacedBy = t]
        /\ Goto(r, "commit")
        /\ UNCHANGED <<now, account, db, gap, ctx>>

\* The child, and mark_token_rotated on its parent.
Rotate(r) ==
    LET parent == ctx[r].token
        old == work[parent]
    IN  /\ pc[r] = "insert" /\ ctx[r].op = "refresh"
        /\ GapsOpen(r)
        /\ \E t \in Fresh :
             /\ Take(r, t)
             /\ work' = [work EXCEPT
                    ![t] = NewRow(old.user, old.family, ctx[r].at,
                                  old.familyExpires, old.password),
                    ![parent].status = "rotated",
                    ![parent].replacedBy = t]
        /\ Goto(r, "commit")
        /\ UNCHANGED <<now, account, db, gap, ctx>>

Commit(r) ==
    /\ pc[r] = "commit"
    /\ db' = [t \in Tokens |-> IF Mine(r, t) THEN work[t] ELSE db[t]]
    /\ account' = IF ctx[r].op \in PasswordOps
                  THEN [account EXCEPT ![ctx[r].user].password = @ + 1]
                  ELSE account
    /\ Release(r)
    /\ UNCHANGED <<now, work>>

-----------------------------------------------------------------------------
\* Failures, the database's deadlock detection, and the environment.

\* A crash, a lost connection, a lock-wait timeout or any other exception:
\* get_db rolls the open transaction back and the request answers 500.
Abort(r) == pc[r] # "idle" /\ Rollback(r)

Waits(r, q) ==
    /\ q # r
    /\ \/ pc[r] = "lockToken" /\ ctx[r].token # NoToken /\ Mine(q, ctx[r].token)
       \/ pc[r] = "lockUser" /\ Mine(q, ctx[r].user)
       \/ Scanning(r) /\ \E t \in RowsIn(ScanKey(r)) : Mine(q, t)
       \/ pc[r] = "insert" /\ gap[q] \cap InsertKeys(r) # {}

\* r is on a cycle of waits: some permutation of a set around r is all waits.
Deadlocked(r) ==
    \E S \in SUBSET Requests : r \in S /\ \E next \in [S -> S] :
        /\ \A p \in S : Waits(p, next[p])
        /\ \A p, q \in S : next[p] = next[q] => p = q

\* Error 1213, which no session service retries.
DeadlockVictim(r) == Deadlocked(r) /\ Rollback(r)

Tick ==
    /\ now < MaxTime
    /\ now' = now + 1
    /\ UNCHANGED <<account, db, work, owner, gap, pc, ctx>>

\* An administrator suspends or restores an account; no code in src does.
ChangeStatus(u) ==
    /\ owner[u] = NoRequest
    /\ account' = [account EXCEPT ![u].active = ~@]
    /\ UNCHANGED <<now, db, work, owner, gap, pc, ctx>>

\* Every open login or refresh may still need a row of the bounded pool; a
\* refresh with a revoked cookie never does.
RoomForARow ==
    Cardinality(Fresh) > Cardinality({r \in Requests :
        pc[r] \notin {"idle", "commit"} /\ ctx[r].op \in {"login", "refresh"}})

Arrive(r) ==
    \/ \E t \in Issued \cup {NoToken} :
         \/ /\ (t # NoToken /\ db[t].status = "live") => RoomForARow
            /\ BeginCookieRequest(r, "refresh", t)
         \/ BeginCookieRequest(r, "logout", t)
    \/ \E u \in Users, p \in Passwords : RoomForARow /\ BeginLogin(r, u, p)
    \/ \E u \in Users : BeginLogoutAll(r, u) \/ BeginResetPassword(r, u)
    \/ \E u \in Users, p \in Passwords : p < MaxPassword /\ BeginChangePassword(r, u, p)

\* The next statement of r, once the locks it needs are free.
Step(r) ==
    \/ RejectCookie(r) \/ LockToken(r)
    \/ RefreshLockUser(r) \/ LoginLockUser(r)
    \/ ChangePasswordLockUser(r) \/ ResetPasswordLockUser(r) \/ RejectCredentials(r)
    \/ LockRow(r) \/ LockGap(r)
    \/ PickOldest(r) \/ RevokeFamily(r) \/ RevokeUser(r)
    \/ OpenFamily(r) \/ Rotate(r)
    \/ Commit(r)

Next ==
    \/ \E r \in Requests : Arrive(r) \/ Step(r) \/ DeadlockVictim(r) \/ Abort(r)
    \/ Tick
    \/ \E u \in Users : ChangeStatus(u)

Spec == Init /\ [][Next]_vars

\* InnoDB grants queued locks in turn and breaks every cycle of waits; nothing
\* makes a client send a request, a clock tick or an administrator act.
FairSpec ==
    /\ Spec
    /\ \A r \in Requests : SF_vars(Step(r)) /\ WF_vars(DeadlockVictim(r))
=============================================================================
