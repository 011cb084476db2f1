------------------------- MODULE EmailVerification -------------------------
(***************************************************************************)
(* Verifying the address of an account: resend commits a pending code,     *)
(* delivers it outside any transaction and activates or cancels it in a    *)
(* second one; verify spends the active code                               *)
(* (email_verification_service.py, email_verification_code_repository.py). *)
(*                                                                         *)
(* Every transaction locks the row of its user before it decides, so it is *)
(* one step from there.  Two things are older than the lock: the clock,    *)
(* and the snapshot of the hourly count, which the authentication of the   *)
(* request opened (the other reads of resend are locking, hence current).  *)
(* No code in src changes the address of an account, so the comparison of  *)
(* the address with the destination of the code is left out.               *)
(***************************************************************************)
EXTENDS Integers, FiniteSets

CONSTANTS
    Users,
    Codes,        \* the rows email_verification_codes can ever hold (a bound)
    Requests,     \* the requests that can be open at a time
    NoUser, NoCode,
    Expiry,       \* email_verification_code_expiry_minutes
    Cooldown,     \* email_verification_cooldown_seconds
    Hour,         \* the window of email_verification_hourly_limit_requests
    HourlyLimit,
    MaxAttempts,  \* email_verification_max_attempts
    Patience,     \* the longest time from authentication to the user's lock
    MaxTime       \* bound on the clock

\* Apart from the bounds, what Settings (config.py) demands of its fields.
ConstantsAreValid ==
    /\ NoUser \notin Users /\ NoCode \notin Codes
    /\ IsFiniteSet(Codes)
    /\ {Expiry, Cooldown, Hour, HourlyLimit, MaxAttempts} \subseteq Nat \ {0}
    /\ Patience \in Nat /\ MaxTime \in Nat

VARIABLES
    now,     \* utc_now()
    account, \* users: [active, verified]
    code,    \* email_verification_codes
    pc,      \* what r does next
    ctx      \* the local variables of r

vars == <<now, account, code, pc, ctx>>

Time == 0..MaxTime

\* activated and used stand for activated_at # NULL and used_at # NULL.
Row == [exists: BOOLEAN, user: Users \cup {NoUser}, activated: BOOLEAN, used: BOOLEAN,
        created: Time, expires: 0..(MaxTime + Expiry), attempts: 0..MaxAttempts]

Blank == [exists |-> FALSE, user |-> NoUser, activated |-> FALSE, used |-> FALSE,
          created |-> 0, expires |-> 0, attempts |-> 0]

Stages == {"idle", "authenticated", "issue", "deliver", "activate", "cancel", "verify"}

\* seen is the snapshot of the table, opened at since; at is the clock as read.
Context == [user: Users \cup {NoUser}, since: Time, seen: SUBSET Codes, at: Time,
            code: Codes \cup {NoCode}]

NoContext == [user |-> NoUser, since |-> 0, seen |-> {}, at |-> 0, code |-> NoCode]

TypeOK ==
    /\ now \in Time
    /\ account \in [Users -> [active: BOOLEAN, verified: BOOLEAN]]
    /\ code \in [Codes -> Row]
    /\ pc \in [Requests -> Stages]
    /\ ctx \in [Requests -> Context]

\* A registered account has a verified phone; its email is not verified.
Init ==
    /\ now = 0
    /\ account = [u \in Users |-> [active |-> TRUE, verified |-> FALSE]]
    /\ code = [c \in Codes |-> Blank]
    /\ pc = [r \in Requests |-> "idle"]
    /\ ctx = [r \in Requests |-> NoContext]

-----------------------------------------------------------------------------
\* The repository's queries and updates.

CodesOf(u) == {c \in Codes : code[c].exists /\ code[c].user = u}

Pending(c) == ~code[c].activated /\ ~code[c].used
Active(c) == code[c].activated /\ ~code[c].used

\* get_latest_created_for_user: created_at decides, the row id between equals.
IsLatest(c, u) == c \in CodesOf(u) /\ \A d \in CodesOf(u) : code[d].created <= code[c].created

\* get_latest_active_for_user
IsLatestActive(c, u) ==
    /\ c \in CodesOf(u) /\ Active(c)
    /\ \A d \in CodesOf(u) : Active(d) => code[d].created <= code[c].created

\* count_created_since, over the rows a snapshot shows
CountedSince(u, seen, since) ==
    Cardinality({c \in CodesOf(u) \cap seen : code[c].created >= since})

\* Rows with used_at set for every code of the set.
Spent(codes) == [c \in Codes |-> IF c \in codes THEN [code[c] EXCEPT !.used = TRUE]
                                 ELSE code[c]]

\* _eligible
Eligible(u) == account[u].active /\ ~account[u].verified

Goto(r, stage) == pc' = [pc EXCEPT ![r] = stage]

Finish(r) == Goto(r, "idle") /\ ctx' = [ctx EXCEPT ![r] = NoContext]

-----------------------------------------------------------------------------
\* resend

\* get_current_user reads in the session of the request: the snapshot.
Authenticate(r, u) ==
    /\ pc[r] = "idle" /\ account[u].active
    /\ Goto(r, "authenticated")
    /\ ctx' = [ctx EXCEPT ![r].user = u, ![r].since = now,
                          ![r].seen = {c \in Codes : code[c].exists}]
    /\ UNCHANGED <<now, account, code>>

ReadClock(r) ==
    /\ pc[r] = "authenticated"
    /\ Goto(r, "issue")
    /\ ctx' = [ctx EXCEPT ![r].at = now]
    /\ UNCHANGED <<now, account, code>>

MayIssue(r) ==
    LET u == ctx[r].user
        at == ctx[r].at
    IN  /\ \A c \in Codes : IsLatest(c, u) => at - code[c].created >= Cooldown
        /\ CountedSince(u, ctx[r].seen, at - Hour) < HourlyLimit

\* Issuing leaves the code that is in use as it is.
Kept(u) == {}

\* The first transaction inserts a pending code.
Issue(r) ==
    LET u == ctx[r].user
        at == ctx[r].at
    IN  /\ pc[r] = "issue"
        /\ Eligible(u)
        /\ MayIssue(r)
        /\ \E c \in Codes :
             /\ ~code[c].exists
             /\ code' = [Spent(Kept(u)) EXCEPT ![c] =
                    [exists |-> TRUE, user |-> u, activated |-> FALSE, used |-> FALSE,
                     created |-> at, expires |-> at + Expiry, attempts |-> 0]]
             /\ ctx' = [ctx EXCEPT ![r].code = c, ![r].since = 0, ![r].seen = {}]
        /\ Goto(r, "deliver")
        /\ UNCHANGED <<now, account>>

\* Not eligible, provider off (an input: any time), or too many requests.
Decline(r) ==
    /\ pc[r] = "issue"
    /\ Finish(r)
    /\ UNCHANGED <<now, account, code>>

Deliver(r) ==
    /\ pc[r] = "deliver"
    /\ Goto(r, "activate")
    /\ UNCHANGED <<now, account, code, ctx>>

\* The provider refuses or raises, or the second transaction fails.
Fail(r) ==
    /\ pc[r] \in {"deliver", "activate"}
    /\ Goto(r, "cancel")
    /\ UNCHANGED <<now, account, code, ctx>>

\* The conditions of the second transaction and of activate_pending.
StillWanted(r) ==
    LET c == ctx[r].code
    IN  /\ Eligible(ctx[r].user)
        /\ IsLatest(c, ctx[r].user)
        /\ Pending(c) /\ code[c].expires > ctx[r].at

\* Mutant: the previous code stays active.
Predecessors(c) == {}

\* invalidate_active_for_user, excluding c
Superseded(c) == {d \in CodesOf(code[c].user) \ {c} : Active(d)}

Activate(r) ==
    LET c == ctx[r].code
    IN  /\ pc[r] = "activate"
        /\ StillWanted(r)
        /\ code' = [Spent(Superseded(c)) EXCEPT ![c].activated = TRUE]
        /\ Finish(r)
        /\ UNCHANGED <<now, account>>

\* cancel_pending, in the second transaction or in _cancel_pending's own
CancelPending(r) ==
    LET c == ctx[r].code
    IN  /\ pc[r] = "cancel" \/ (pc[r] = "activate" /\ ~StillWanted(r))
        /\ code' = Spent({d \in {c} : Pending(d)})
        /\ Finish(r)
        /\ UNCHANGED <<now, account>>

-----------------------------------------------------------------------------
\* verify

\* The number presented is that of some code ever issued, or a wrong one.
BeginVerify(r, u, c) ==
    /\ pc[r] = "idle" /\ account[u].active
    /\ Goto(r, "verify")
    /\ ctx' = [ctx EXCEPT ![r].user = u, ![r].at = now, ![r].code = c]
    /\ UNCHANGED <<now, account, code>>

\* challenge_available, for the latest active row c of the account
Challenge(r, c) ==
    LET u == ctx[r].user
    IN  /\ Eligible(u)
        /\ IsLatestActive(c, u)
        /\ code[c].expires > ctx[r].at
        /\ code[c].attempts < MaxAttempts

\* A match spends the code, marks the address and voids any other active code.
Verify(r) ==
    LET u == ctx[r].user
        c == ctx[r].code
    IN  /\ pc[r] = "verify"
        /\ c # NoCode /\ Challenge(r, c)
        /\ account' = [account EXCEPT ![u].verified = TRUE]
        /\ code' = Spent({c} \cup Superseded(c))
        /\ Finish(r)
        /\ UNCHANGED now

Miss(r) ==
    /\ pc[r] = "verify"
    /\ \E c \in Codes : /\ c # ctx[r].code /\ Challenge(r, c)
                        /\ code' = [code EXCEPT ![c].attempts = @ + 1]
    /\ Finish(r)
    /\ UNCHANGED <<now, account>>

Refuse(r) ==
    /\ pc[r] = "verify"
    /\ \A c \in Codes : ~Challenge(r, c)
    /\ Finish(r)
    /\ UNCHANGED <<now, account, code>>

-----------------------------------------------------------------------------
\* A crash or an exception; a pending code whose request is gone stays pending.
Abort(r) ==
    /\ pc[r] # "idle"
    /\ Finish(r)
    /\ UNCHANGED <<now, account, code>>

\* No request waits for the lock beyond Patience (innodb_lock_wait_timeout).
Tick ==
    /\ now < MaxTime
    /\ \A r \in Requests :
         pc[r] \in {"authenticated", "issue"} => now - ctx[r].since < Patience
    /\ now' = now + 1
    /\ UNCHANGED <<account, code, pc, ctx>>

\* An administrator suspends or restores an account; no code in src does.
ChangeStatus(u) ==
    /\ account' = [account EXCEPT ![u].active = ~@]
    /\ UNCHANGED <<now, code, pc, ctx>>

\* The pool has a row for every request that may still issue a code.
RoomForACode ==
    Cardinality({c \in Codes : ~code[c].exists})
        > Cardinality({r \in Requests : pc[r] \in {"authenticated", "issue"}})

Arrive(r) ==
    \/ \E u \in Users : RoomForACode /\ Authenticate(r, u)
    \/ \E u \in Users, c \in Codes : code[c].exists /\ BeginVerify(r, u, c)
    \/ \E u \in Users : BeginVerify(r, u, NoCode)

Resend(r) == \/ ReadClock(r) \/ Issue(r) \/ Decline(r) \/ Deliver(r) \/ Fail(r)
             \/ Activate(r) \/ CancelPending(r)

Next ==
    \/ \E r \in Requests : \/ Arrive(r) \/ Resend(r)
                           \/ Verify(r) \/ Miss(r) \/ Refuse(r) \/ Abort(r)
    \/ Tick
    \/ \E u \in Users : ChangeStatus(u)

Spec == Init /\ [][Next]_vars
=============================================================================
