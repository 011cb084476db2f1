------------------------ MODULE PasswordResetSafety ------------------------
(***************************************************************************)
(* What must be true of the codes of module PasswordReset.                 *)
(***************************************************************************)
EXTENDS PasswordReset

\* A code that a reset arriving now would accept, given its number.
Usable(c) == /\ code[c].exists /\ ~code[c].used
             /\ code[c].expires > now /\ code[c].attempts < MaxAttempts

UndeliveredBy(r) == pc[r] \in {"issue", "deliver", "activate"}

\* However slow a delivery is and whatever is issued meanwhile, the only usable
\* code of an account is its newest, and only once it was delivered
\* (request_reset: pending, delivered, activated).
OnlyTheNewestIsUsable ==
    \A c \in Codes : Usable(c) =>
        /\ IsLatest(c, code[c].user)
        /\ \A r \in Requests : UndeliveredBy(r) => ctx[r].code # c

\* No usable code was issued for a password the account no longer has, whether
\* the password changed before, during or after the delivery; so no code is
\* good for a second reset.
CodesFollowThePassword ==
    \A c \in Codes : Usable(c) => code[c].credential = account[code[c].user].password

HourBefore(u, at) == {d \in CodesOf(u) : code[d].created \in (at - Hour)..at}

Apart(c, d) == \/ code[d].created >= code[c].created + Cooldown
               \/ code[c].created >= code[d].created + Cooldown

\* The limits of _may_issue hold for any two codes and any hour, although a
\* request may have read the clock long before it is served.
IssuingIsLimited ==
    \A c \in Codes : code[c].exists =>
        /\ Cardinality(HourBefore(code[c].user, code[c].created)) <= HourlyLimit
        /\ \A d \in CodesOf(code[c].user) \ {c} : Apart(c, d)

\* "Expired, consumed, superseded, pending, or exhausted challenges cannot be
\* revived" (PHASE_5B_SECURE_PASSWORD_RESET.md): the number a reset is accepted
\* with belongs to a code that has not expired.
AcceptedCodesAreUnexpired ==
    \A r \in Requests :
        pc[r] = "complete" /\ ctx[r].code # NoCode /\ Challenge(r, ctx[r].code) =>
            code[ctx[r].code].expires > now

-----------------------------------------------------------------------------
\* The inductive invariant behind the first three.

Delivering(r) == pc[r] \in {"deliver", "activate"}

\* What r knows of the world: no clock is ahead, and the code it delivers is
\* pending, its user's, and of the password that was looked at.
ContextIsSound(r) ==
    /\ ctx[r].at <= now
    /\ pc[r] # "idle" => ctx[r].user \in Users
    /\ pc[r] = "issue" => ctx[r].code = NoCode
    /\ pc[r] = "change" => ctx[r].password < MaxPassword
    /\ Delivering(r) =>
        /\ ctx[r].code \in Codes
        /\ LET row == code[ctx[r].code]
           IN  /\ row.exists /\ row.used
               /\ row.user = ctx[r].user /\ row.credential = ctx[r].password

NoCodeIsDeliveredTwice ==
    \A r, q \in Requests : Delivering(r) /\ Delivering(q) /\ r # q => ctx[r].code # ctx[q].code

RowsHaveOwners == \A c \in Codes : code[c].exists => code[c].user \in Users

RecoveryInvariant ==
    /\ TypeOK
    /\ RowsHaveOwners
    /\ \A r \in Requests : ContextIsSound(r)
    /\ NoCodeIsDeliveredTwice
    /\ OnlyTheNewestIsUsable
    /\ CodesFollowThePassword
    /\ IssuingIsLimited
=============================================================================
