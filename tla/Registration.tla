---------------------------- MODULE Registration ----------------------------
(***************************************************************************)
(* Registering an account and verifying its phone: register checks for     *)
(* duplicates, inserts the account, its BUYER role and a first code;       *)
(* resend replaces the code; both send it after their commit and expire it *)
(* in a transaction of its own when that fails; verify spends the newest   *)
(* code (auth_service.py RegistrationService,                              *)
(* phone_verification_service.py, phone_verification_code_repository.py).  *)
(*                                                                         *)
(* resend and verify begin by locking the row of the account, and their    *)
(* plain reads open their snapshot after that, so each is one step; only   *)
(* the clock is read before.  A phone never changes hands in src, so the   *)
(* codes of a phone are the codes of its account.                          *)
(***************************************************************************)
EXTENDS Integers, FiniteSets

CONSTANTS
    Users,        \* the rows users can ever hold (a bound)
    Codes,        \* the rows phone_verification_codes can ever hold (a bound)
    Requests,     \* the requests that can be open at a time
    Emails, Phones,
    None,         \* no such value: NULL
    Expiry,       \* the ten minutes of a code
    Cooldown,     \* the 60 seconds between two codes
    Hour,
    HourlyLimit,  \* the five codes of a phone in an hour
    MaxAttempts,  \* the five wrong numbers of a code
    MaxTime       \* bound on the clock

ConstantsAreValid ==
    /\ None \notin (Users \cup Codes \cup Emails \cup Phones)
    /\ IsFiniteSet(Users) /\ IsFiniteSet(Codes)
    /\ Expiry \in Nat \ {0} /\ Cooldown \in Nat \ {0} /\ Hour \in Nat \ {0}
    /\ HourlyLimit \in Nat \ {0} /\ MaxAttempts \in Nat \ {0} /\ MaxTime \in Nat

VARIABLES
    now,     \* utc_now()
    account, \* users, with the BUYER row of user_roles
    code,    \* phone_verification_codes
    pc,      \* what r does next
    ctx      \* the local variables of r

vars == <<now, account, code, pc, ctx>>

Time == 0..MaxTime

Account == [exists: BOOLEAN, email: Emails \cup {None}, phone: Phones \cup {None},
            active: BOOLEAN, verified: BOOLEAN, buyer: BOOLEAN]

NoAccount == [exists |-> FALSE, email |-> None, phone |-> None,
              active |-> FALSE, verified |-> FALSE, buyer |-> FALSE]

\* spent is verified_at # NULL.
Row == [exists: BOOLEAN, user: Users \cup {None}, spent: BOOLEAN,
        created: Time, expires: -1..(MaxTime + Expiry), attempts: 0..MaxAttempts]

Blank == [exists |-> FALSE, user |-> None, spent |-> FALSE,
          created |-> 0, expires |-> 0, attempts |-> 0]

Stages == {"idle", "check", "insert", "resend", "send", "expire", "verify"}

\* at is the clock as read before the lock.
Context == [email: Emails \cup {None}, phone: Phones \cup {None}, at: Time,
            code: Codes \cup {None}]

NoContext == [email |-> None, phone |-> None, at |-> 0, code |-> None]

TypeOK ==
    /\ now \in Time
    /\ account \in [Users -> Account]
    /\ code \in [Codes -> Row]
    /\ pc \in [Requests -> Stages]
    /\ ctx \in [Requests -> Context]

Init ==
    /\ now = 0
    /\ account = [u \in Users |-> NoAccount]
    /\ code = [c \in Codes |-> Blank]
    /\ pc = [r \in Requests |-> "idle"]
    /\ ctx = [r \in Requests |-> NoContext]

-----------------------------------------------------------------------------
\* The repositories' queries.

\* get_by_email and get_by_phone; also what the unique indexes refuse.
Owners(email, phone) ==
    {u \in Users : /\ account[u].exists
                   /\ \/ email # None /\ account[u].email = email
                      \/ phone # None /\ account[u].phone = phone}

CodesOf(u) == {c \in Codes : code[c].exists /\ code[c].user = u}

\* get_latest_for_user, get_latest_for_phone: the row id decides between equals.
IsLatest(c, u) == c \in CodesOf(u) /\ \A d \in CodesOf(u) : code[d].created <= code[c].created

CreatedSince(u, since) == Cardinality({c \in CodesOf(u) : code[c].created >= since})

\* create_code: created_at is the time of the insert.
NewCode(c, u, expires) ==
    code' = [code EXCEPT ![c] = [exists |-> TRUE, user |-> u, spent |-> FALSE,
                 created |-> now, expires |-> expires, attempts |-> 0]]

Goto(r, stage) == pc' = [pc EXCEPT ![r] = stage]

Finish(r) == Goto(r, "idle") /\ ctx' = [ctx EXCEPT ![r] = NoContext]

Begin(r, stage, email, phone, c) ==
    /\ pc[r] = "idle"
    /\ Goto(r, stage)
    /\ ctx' = [ctx EXCEPT ![r] = [email |-> email, phone |-> phone, at |-> now, code |-> c]]
    /\ UNCHANGED <<now, account, code>>

-----------------------------------------------------------------------------
\* register

\* _check_duplicates reads without locks, then the password is hashed.
CheckDuplicates(r) ==
    /\ pc[r] = "check"
    /\ Owners(ctx[r].email, ctx[r].phone) = {}
    /\ Goto(r, "insert")
    /\ UNCHANGED <<now, account, code, ctx>>

\* Mutant: the check is trusted, as if the columns had no unique index.
FreeSinceTheCheck(r) == TRUE

\* What the unique indexes of users accept.
Free(r) == Owners(ctx[r].email, ctx[r].phone) = {}

\* The account, its role and, with a phone, its first code, in one commit.
Insert(r) ==
    /\ pc[r] = "insert"
    /\ Free(r)
    /\ \E u \in Users :
         /\ ~account[u].exists
         /\ account' = [account EXCEPT ![u] =
                [exists |-> TRUE, email |-> ctx[r].email, phone |-> ctx[r].phone,
                 active |-> TRUE, verified |-> FALSE, buyer |-> TRUE]]
         /\ IF ctx[r].phone = None
            THEN Finish(r) /\ UNCHANGED code
            ELSE \E c \in Codes :
                   /\ ~code[c].exists
                   /\ NewCode(c, u, now + Expiry)
                   /\ Goto(r, "send")
                   /\ ctx' = [ctx EXCEPT ![r].code = c]
    /\ UNCHANGED now

\* A duplicate: seen by the check, or the IntegrityError of the insert.
Conflict(r) ==
    /\ pc[r] \in {"check", "insert"}
    /\ Owners(ctx[r].email, ctx[r].phone) # {}
    /\ Finish(r)
    /\ UNCHANGED <<now, account, code>>

-----------------------------------------------------------------------------
\* resend

Awaits(u) == account[u].active /\ ~account[u].verified

MayIssue(u, at) ==
    /\ \A c \in Codes : IsLatest(c, u) => at - code[c].created >= Cooldown
    /\ CreatedSince(u, at - Hour) < HourlyLimit

Resend(r) ==
    /\ pc[r] = "resend"
    /\ \E u \in Owners(None, ctx[r].phone), c \in Codes :
         /\ Awaits(u) /\ MayIssue(u, ctx[r].at)
         /\ ~code[c].exists
         /\ NewCode(c, u, ctx[r].at + Expiry)
         /\ ctx' = [ctx EXCEPT ![r].code = c]
    /\ Goto(r, "send")
    /\ UNCHANGED <<now, account>>

\* No such account, nothing to verify, too soon, too many, or SMS switched off.
Decline(r) ==
    /\ pc[r] = "resend"
    /\ Finish(r)
    /\ UNCHANGED <<now, account, code>>

-----------------------------------------------------------------------------
\* The message, sent outside any transaction

Sent(r) ==
    /\ pc[r] = "send"
    /\ Finish(r)
    /\ UNCHANGED <<now, account, code>>

\* The provider raises or does not confirm.
SendRefused(r) ==
    /\ pc[r] = "send"
    /\ Goto(r, "expire")
    /\ UNCHANGED <<now, account, code, ctx>>

\* _expire_unsent_code: no account is locked.
Expire(r) ==
    /\ pc[r] = "expire"
    /\ code' = [code EXCEPT ![ctx[r].code].expires = now - 1]
    /\ Finish(r)
    /\ UNCHANGED <<now, account>>

\* Its failure is swallowed.
ExpireFails(r) ==
    /\ pc[r] = "expire"
    /\ Finish(r)
    /\ UNCHANGED <<now, account, code>>

-----------------------------------------------------------------------------
\* verify; the number presented is that of some code ever issued, or a wrong one.

\* Mutant: an older code that has not expired is as good.
ChallengeAny(r, u, c) ==
    /\ Awaits(u)
    /\ c \in CodesOf(u) /\ ~code[c].spent
    /\ ctx[r].at < code[c].expires
    /\ code[c].attempts < MaxAttempts

\* c is the newest code of u and can be answered.
Challenge(r, u, c) ==
    /\ Awaits(u)
    /\ IsLatest(c, u) /\ ~code[c].spent
    /\ ctx[r].at < code[c].expires
    /\ code[c].attempts < MaxAttempts

Verify(r) ==
    LET c == ctx[r].code
    IN  /\ pc[r] = "verify" /\ c # None
        /\ \E u \in Owners(None, ctx[r].phone) :
             /\ Challenge(r, u, c)
             /\ account' = [account EXCEPT ![u].verified = TRUE]
        /\ code' = [code EXCEPT ![c].spent = TRUE]
        /\ Finish(r)
        /\ UNCHANGED now

Miss(r) ==
    /\ pc[r] = "verify"
    /\ \E u \in Owners(None, ctx[r].phone), c \in Codes \ {ctx[r].code} :
         Challenge(r, u, c) /\ code' = [code EXCEPT ![c].attempts = @ + 1]
    /\ Finish(r)
    /\ UNCHANGED <<now, account>>

\* Unknown, suspended, verified before, expired or exhausted.
Refuse(r) ==
    /\ pc[r] = "verify"
    /\ \A u \in Owners(None, ctx[r].phone), c \in Codes : ~Challenge(r, u, c)
    /\ Finish(r)
    /\ UNCHANGED <<now, account, code>>

-----------------------------------------------------------------------------
\* A crash or an exception; what was committed stays.
Abort(r) ==
    /\ pc[r] # "idle"
    /\ Finish(r)
    /\ UNCHANGED <<now, account, code>>

Tick ==
    /\ now < MaxTime
    /\ now' = now + 1
    /\ UNCHANGED <<account, code, pc, ctx>>

\* An administrator suspends or restores an account; no code in src does.
ChangeStatus(u) ==
    /\ account[u].exists
    /\ account' = [account EXCEPT ![u].active = ~@]
    /\ UNCHANGED <<now, code, pc, ctx>>

\* The pools have rows for every request that may still insert one.
Inserting == Cardinality({r \in Requests : pc[r] \in {"check", "insert", "resend"}})
RoomForACode == Cardinality({c \in Codes : ~code[c].exists}) > Inserting
RoomForAUser == Cardinality({u \in Users : ~account[u].exists}) > Inserting

Arrive(r) ==
    \/ \E email \in Emails \cup {None}, phone \in Phones \cup {None} :
         /\ email # None \/ phone # None
         /\ RoomForAUser /\ RoomForACode
         /\ Begin(r, "check", email, phone, None)
    \/ \E phone \in Phones : RoomForACode /\ Begin(r, "resend", None, phone, None)
    \/ \E phone \in Phones, c \in Codes \cup {None} :
         /\ c # None => code[c].exists
         /\ Begin(r, "verify", None, phone, c)

Register(r) == CheckDuplicates(r) \/ Insert(r) \/ Conflict(r)
SendCode(r) == Sent(r) \/ SendRefused(r) \/ Expire(r) \/ ExpireFails(r)
VerifyPhone(r) == Verify(r) \/ Miss(r) \/ Refuse(r)

Next ==
    \/ \E r \in Requests : \/ Arrive(r) \/ Register(r) \/ Resend(r) \/ Decline(r)
                           \/ SendCode(r) \/ VerifyPhone(r) \/ Abort(r)
    \/ Tick
    \/ \E u \in Users : ChangeStatus(u)

Spec == Init /\ [][Next]_vars
=============================================================================
