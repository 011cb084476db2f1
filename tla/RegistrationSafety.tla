------------------------- MODULE RegistrationSafety -------------------------
(***************************************************************************)
(* What must be true of the accounts and codes of module Registration.     *)
(***************************************************************************)
EXTENDS Registration

\* Registrations that pass the duplicate check together still end in accounts
\* that share neither address nor phone, each with its BUYER role and, if it has
\* a phone, with a code to verify it (register: one commit, unique indexes).
AccountsAreWhole ==
    \A u \in Users : account[u].exists =>
        /\ Owners(account[u].email, account[u].phone) = {u}
        /\ account[u].buyer
        /\ (account[u].phone # None) = (CodesOf(u) # {})

\* A verified phone was verified by one code, the newest the account had, and no
\* other is issued after it, whatever was under way (verify, resend).
VerifiedByTheNewest ==
    \A u \in Users :
        LET spent == {c \in CodesOf(u) : code[c].spent}
        IN  /\ account[u].verified = (spent # {})
            /\ \A c \in spent : IsLatest(c, u) /\ spent = {c}

\* "at most five code records may be created per phone in a rolling hour. The
\* registration code counts" and the 60 seconds between two codes
\* (PHASE_3_PHONE_VERIFICATION.md), although the clock is read before the lock.
IssuingIsLimited ==
    \A c \in Codes : code[c].exists =>
        LET u == code[c].user
            at == code[c].created
        IN  /\ Cardinality({d \in CodesOf(u) : code[d].created \in (at - Hour)..at})
                 <= HourlyLimit
            /\ \A d \in CodesOf(u) \ {c} :
                 \/ code[d].created >= at + Cooldown
                 \/ code[d].created + Cooldown <= at

-----------------------------------------------------------------------------
\* What the proofs need beside the properties.

\* A code was issued to an account, in the past.
CodesHaveOwners ==
    \A c \in Codes : code[c].exists =>
        code[c].user \in Users /\ account[code[c].user].exists /\ code[c].created <= now

\* A request's clock is not ahead, it registers an address or a phone, and what
\* it sends is a code.
RequestIsSound(r) ==
    /\ ctx[r].at <= now
    /\ pc[r] \in {"check", "insert"} => ctx[r].email # None \/ ctx[r].phone # None
    /\ pc[r] \in {"send", "expire"} => ctx[r].code \in Codes

\* The inductive invariant.
RegistrationInvariant ==
    /\ TypeOK /\ CodesHaveOwners
    /\ \A r \in Requests : RequestIsSound(r)
    /\ AccountsAreWhole /\ VerifiedByTheNewest /\ IssuingIsLimited
=============================================================================
