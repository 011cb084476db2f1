---------------------- MODULE EmailVerificationSafety ----------------------
(***************************************************************************)
(* What must be true of the codes of module EmailVerification.             *)
(***************************************************************************)
EXTENDS EmailVerification

\* However deliveries overtake each other, an account has at most one active
\* code, the newest of those that ever were active, and it is not one that is
\* still being delivered (resend: pending, delivered, activated).
OnlyTheNewestIsActive ==
    \A c \in Codes : Active(c) =>
        /\ \A d \in CodesOf(code[c].user) \ {c} :
             code[d].activated => code[d].used /\ code[d].created <= code[c].created
        /\ \A r \in Requests : pc[r] \in {"deliver", "activate", "cancel"} => ctx[r].code # c

\* Once the address is verified no code is active, and none becomes active
\* when a delivery that was under way ends (_eligible, verify).
VerifiedEndsTheCodes ==
    \A u \in Users : account[u].verified => \A c \in CodesOf(u) : ~Active(c)

\* An account has one active code, the newest that was delivered, and none once its
\* address is verified (resend, verify).
NewestUntilVerified == OnlyTheNewestIsActive /\ VerifiedEndsTheCodes

\* "rolling generation cap: 5 per user per hour" and "resend cooldown"
\* (PHASE_5D_SECURE_EMAIL_VERIFICATION.md), for any two codes and any hour,
\* although the count is read from a snapshot older than the lock.
IssuingIsLimited ==
    \A c \in Codes : code[c].exists =>
        LET u == code[c].user
            at == code[c].created
        IN  /\ Cardinality({d \in CodesOf(u) : code[d].created \in (at - Hour)..at})
                 <= HourlyLimit
            /\ \A d \in CodesOf(u) \ {c} :
                 \/ code[d].created >= at + Cooldown
                 \/ code[d].created + Cooldown <= at

-----------------------------------------------------------------------------
\* The inductive invariant behind NewestUntilVerified.

Delivering(r) == pc[r] \in {"deliver", "activate", "cancel"}

\* The code r delivers is its user's and was never active.
DeliveryIsSound(r) ==
    /\ pc[r] # "idle" => ctx[r].user \in Users
    /\ Delivering(r) =>
        /\ ctx[r].code \in Codes
        /\ LET row == code[ctx[r].code]
           IN  row.exists /\ ~row.activated /\ row.user = ctx[r].user

NoCodeIsDeliveredTwice ==
    \A r, q \in Requests : Delivering(r) /\ Delivering(q) /\ r # q => ctx[r].code # ctx[q].code

ActivatedCodesExist == \A c \in Codes : code[c].activated => code[c].exists

VerificationInvariant ==
    /\ TypeOK
    /\ \A r \in Requests : DeliveryIsSound(r)
    /\ NoCodeIsDeliveredTwice
    /\ ActivatedCodesExist
    /\ NewestUntilVerified
=============================================================================
