--------------------------- MODULE PasswordReset ---------------------------
(***************************************************************************)
(* Password recovery: request_reset issues a pending code, delivers it     *)
(* outside any transaction and activates it in a second one;               *)
(* reset_password spends it; change_password voids it                      *)
(* (password_reset_service.py, password_reset_code_repository.py,          *)
(* password_change_service.py).                                            *)
(*                                                                         *)
(* Every transaction here begins by locking the row of its user, so one is *)
(* a single step.  What it relies on from before the lock is not: the      *)
(* clock is read first, and the issuing request remembers the credential.  *)
(* The sessions these transactions revoke are in module Sessions.          *)
(***************************************************************************)
EXTENDS Integers, FiniteSets

CONSTANTS
    Users,
    Codes,        \* the rows password_reset_codes can ever hold (a bound)
    Requests,     \* the requests that can be open at a time
    NoUser, NoCode,
    Expiry,       \* password_reset_code_expiry_minutes
    Cooldown,     \* password_reset_cooldown_seconds
    Hour,         \* the window of password_reset_hourly_limit_requests
    HourlyLimit,
    MaxAttempts,  \* password_reset_max_attempts
    MaxTime,      \* bound on the clock
    MaxPassword   \* bound on the number of password changes

\* Apart from the bounds, what Settings (config.py) demands of its fields.
ConstantsAreValid ==
    /\ NoUser \notin Users /\ NoCode \notin Codes
    /\ IsFiniteSet(Codes)
    /\ {Expiry, Cooldown, Hour, HourlyLimit, MaxAttempts} \subseteq Nat \ {0}
    /\ MaxTime \in Nat /\ MaxPassword \in Nat

VARIABLES
    now,     \* utc_now()
    account, \* users: [active, password]; password counts the changes
    code,    \* password_reset_codes
    pc,      \* what r does next
    ctx      \* the local variables of r

vars == <<now, account, code, pc, ctx>>

Time == 0..MaxTime
Passwords == 0..MaxPassword

\* A row; used is used_at # NULL, which a pending code has from the start.
\* credential is the password the issuing request saw.
Row == [exists: BOOLEAN, user: Users \cup {NoUser}, used: BOOLEAN,
        created: Time, expires: 0..(MaxTime + Expiry),
        attempts: 0..MaxAttempts, credential: Passwords]

Blank == [exists |-> FALSE, user |-> NoUser, used |-> FALSE, created |-> 0,
          expires |-> 0, attempts |-> 0, credential |-> 0]

Stages == {"idle", "issue", "deliver", "activate", "complete", "change"}

\* at is the clock as read before the transaction.
Context == [user: Users \cup {NoUser}, at: Time, code: Codes \cup {NoCode},
            password: Passwords]

NoContext == [user |-> NoUser, at |-> 0, code |-> NoCode, password |-> 0]

TypeOK ==
    /\ now \in Time
    /\ account \in [Users -> [active: BOOLEAN, password: Passwords]]
    /\ code \in [Codes -> Row]
    /\ pc \in [Requests -> Stages]
    /\ ctx \in [Requests -> Context]

Init ==
    /\ now = 0
    /\ account = [u \in Users |-> [active |-> TRUE, password |-> 0]]
    /\ code = [c \in Codes |-> Blank]
    /\ pc = [r \in Requests |-> "idle"]
    /\ ctx = [r \in Requests |-> NoContext]

-----------------------------------------------------------------------------
\* The repository's queries.

CodesOf(u) == {c \in Codes : code[c].exists /\ code[c].user = u}

\* get_latest_for_user: created_at decides, and the row id between equals.
IsLatest(c, u) == c \in CodesOf(u) /\ \A d \in CodesOf(u) : code[d].created <= code[c].created

CreatedSince(u, since) == Cardinality({c \in CodesOf(u) : code[c].created >= since})

Outstanding(u, at) == {c \in CodesOf(u) : ~code[c].used /\ code[c].expires > at}

\* rows with used_at set for every code of the set.
Spent(codes) == [c \in Codes |-> IF c \in codes THEN [code[c] EXCEPT !.used = TRUE]
                                 ELSE code[c]]

Goto(r, stage) == pc' = [pc EXCEPT ![r] = stage]

Finish(r) == Goto(r, "idle") /\ ctx' = [ctx EXCEPT ![r] = NoContext]

-----------------------------------------------------------------------------
\* A request reads the clock, then waits for its user's row.

Begin(r, stage, u, c, p) ==
    /\ pc[r] = "idle"
    /\ Goto(r, stage)
    /\ ctx' = [ctx EXCEPT ![r] = [user |-> u, at |-> now, code |-> c, password |-> p]]
    /\ UNCHANGED <<now, account, code>>

\* A reset presents the number of some code ever issued, or a wrong one.
BeginForgot(r, u) == Begin(r, "issue", u, NoCode, 0)
BeginReset(r, u, c) == Begin(r, "complete", u, c, 0)
BeginChange(r, u, p) == account[u].active /\ Begin(r, "change", u, NoCode, p)

-----------------------------------------------------------------------------
\* request_reset

\* Mutant: one code too many.
MayIssueOneMore(u, at) ==
    /\ CreatedSince(u, at - Hour) <= HourlyLimit
    /\ \A c \in Codes : IsLatest(c, u) => at - code[c].created >= Cooldown

\* _may_issue
MayIssue(u, at) ==
    /\ CreatedSince(u, at - Hour) < HourlyLimit
    /\ \A c \in Codes : IsLatest(c, u) => at - code[c].created >= Cooldown

\* The first transaction voids the outstanding codes and inserts a pending one.
Issue(r) ==
    LET u == ctx[r].user
        at == ctx[r].at
    IN  /\ pc[r] = "issue"
        /\ account[u].active
        /\ MayIssue(u, at)
        /\ \E c \in Codes :
             /\ ~code[c].exists
             /\ code' = [Spent(Outstanding(u, at)) EXCEPT ![c] =
                    [exists |-> TRUE, user |-> u, used |-> TRUE, created |-> at,
                     expires |-> at + Expiry, attempts |-> 0,
                     credential |-> account[u].password]]
             /\ ctx' = [ctx EXCEPT ![r].code = c, ![r].password = account[u].password]
        /\ Goto(r, "deliver")
        /\ UNCHANGED <<now, account>>

\* An ineligible account, a delivery provider that is off, or too many requests.
\* (The provider is an input: it may be off any time.)
Decline(r) ==
    /\ pc[r] = "issue"
    /\ Finish(r)
    /\ UNCHANGED <<now, account, code>>

\* deliver_reset_code runs outside any transaction, for as long as it takes.
Deliver(r) ==
    /\ pc[r] = "deliver"
    /\ Goto(r, "activate")
    /\ UNCHANGED <<now, account, code, ctx>>

\* The provider refuses, raises, or the process dies: the code stays pending.
FailDelivery(r) ==
    /\ pc[r] = "deliver"
    /\ Finish(r)
    /\ UNCHANGED <<now, account, code>>

\* Mutant: a code issued since is not looked for.
StillCurrentIgnoringNewer(r) ==
    /\ account[ctx[r].user].active
    /\ account[ctx[r].user].password = ctx[r].password

\* Mutant: the password may have changed during the delivery.
StillCurrentIgnoringPassword(r) ==
    /\ account[ctx[r].user].active
    /\ IsLatest(ctx[r].code, ctx[r].user)

\* The second transaction activates the code unless something has overtaken it.
StillCurrent(r) ==
    LET u == ctx[r].user
    IN  /\ account[u].active
        /\ account[u].password = ctx[r].password
        /\ IsLatest(ctx[r].code, u)

Activate(r) ==
    /\ pc[r] = "activate"
    /\ StillCurrent(r)
    /\ code' = [code EXCEPT ![ctx[r].code].used = FALSE]
    /\ Finish(r)
    /\ UNCHANGED <<now, account>>

Overtaken(r) ==
    /\ pc[r] = "activate"
    /\ ~StillCurrent(r)
    /\ Finish(r)
    /\ UNCHANGED <<now, account, code>>

-----------------------------------------------------------------------------
\* reset_password and change_password

\* challenge_is_available, for the latest row c of the account
Challenge(r, c) ==
    LET u == ctx[r].user
    IN  /\ account[u].active
        /\ IsLatest(c, u)
        /\ ~code[c].used
        /\ code[c].expires > ctx[r].at
        /\ code[c].attempts < MaxAttempts

\* A match replaces the password and spends every unused code of the account.
Complete(r) ==
    LET u == ctx[r].user
        c == ctx[r].code
    IN  /\ pc[r] = "complete"
        /\ c # NoCode /\ Challenge(r, c)
        /\ account[u].password < MaxPassword
        /\ account' = [account EXCEPT ![u].password = @ + 1]
        /\ code' = Spent({d \in CodesOf(u) : ~code[d].used})
        /\ Finish(r)
        /\ UNCHANGED now

\* A wrong number costs the available challenge an attempt.
Miss(r) ==
    /\ pc[r] = "complete"
    /\ \E c \in Codes : /\ c # ctx[r].code /\ Challenge(r, c)
                        /\ code' = [code EXCEPT ![c].attempts = @ + 1]
    /\ Finish(r)
    /\ UNCHANGED <<now, account>>

Refuse(r) ==
    /\ pc[r] = "complete"
    /\ \A c \in Codes : ~Challenge(r, c)
    /\ Finish(r)
    /\ UNCHANGED <<now, account, code>>

Change(r) ==
    LET u == ctx[r].user
    IN  /\ pc[r] = "change"
        /\ account[u].active /\ account[u].password = ctx[r].password
        /\ account' = [account EXCEPT ![u].password = @ + 1]
        /\ code' = Spent(Outstanding(u, ctx[r].at))
        /\ Finish(r)
        /\ UNCHANGED now

\* A wrong password, a suspended account, or a new password that is the old one.
RefuseChange(r) ==
    /\ pc[r] = "change"
    /\ Finish(r)
    /\ UNCHANGED <<now, account, code>>

-----------------------------------------------------------------------------
\* A crash or an exception before the commit leaves the rows as they were.
Abort(r) ==
    /\ pc[r] # "idle"
    /\ Finish(r)
    /\ UNCHANGED <<now, account, code>>

Tick ==
    /\ now < MaxTime
    /\ now' = now + 1
    /\ UNCHANGED <<account, code, pc, ctx>>

\* An administrator suspends or restores an account; no code in src does.
ChangeStatus(u) ==
    /\ account' = [account EXCEPT ![u].active = ~@]
    /\ UNCHANGED <<now, code, pc, ctx>>

\* The pool has a row for every request that may still issue a code.
RoomForACode ==
    Cardinality({c \in Codes : ~code[c].exists})
        > Cardinality({r \in Requests : pc[r] = "issue"})

Arrive(r) ==
    \/ \E u \in Users : RoomForACode /\ BeginForgot(r, u)
    \/ \E u \in Users, c \in Codes : code[c].exists /\ BeginReset(r, u, c)
    \/ \E u \in Users : BeginReset(r, u, NoCode)
    \/ \E u \in Users, p \in Passwords : p < MaxPassword /\ BeginChange(r, u, p)

Forgot(r) == \/ Issue(r) \/ Decline(r) \/ Deliver(r) \/ FailDelivery(r)
             \/ Activate(r) \/ Overtaken(r)
Reset(r) == Complete(r) \/ Miss(r) \/ Refuse(r)

Next ==
    \/ \E r \in Requests : \/ Arrive(r) \/ Forgot(r) \/ Reset(r)
                           \/ Change(r) \/ RefuseChange(r) \/ Abort(r)
    \/ Tick
    \/ \E u \in Users : ChangeStatus(u)

Spec == Init /\ [][Next]_vars
=============================================================================
