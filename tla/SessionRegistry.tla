-------------------------- MODULE SessionRegistry --------------------------
(***************************************************************************)
(* What the session services promise: logins, refreshes, logouts and       *)
(* password changes as single indivisible steps on families of sessions.   *)
(* There are no transactions, locks, rows or clocks here, only what a      *)
(* holder of a refresh cookie can rely on (PHASE_4B_REFRESH_SESSIONS.md,   *)
(* "Token and session-family design").                                     *)
(***************************************************************************)
EXTENDS Naturals, FiniteSets

CONSTANTS Users, Tokens, NoUser, NoToken

VARIABLES
    password, \* password[u]: how often u's password has changed
    used,     \* the tokens that were ever handed out
    opener,   \* opener[f]: who opened the family that began with token f
    holder    \* holder[f]: its usable token, NoToken when it has none

rvars == <<password, used, opener, holder>>

RInit ==
    /\ password = [u \in Users |-> 0]
    /\ used = {}
    /\ opener = [f \in Tokens |-> NoUser]
    /\ holder = [f \in Tokens |-> NoToken]

Open == {f \in Tokens : holder[f] # NoToken}
OpenOf(u) == {f \in Open : opener[f] = u}

Close(families) ==
    holder' = [f \in Tokens |-> IF f \in families THEN NoToken ELSE holder[f]]

\* A login opens a family and may close others of the same user.
Login(u, f) ==
    /\ f \notin used
    /\ used' = used \cup {f}
    /\ opener' = [opener EXCEPT ![f] = u]
    /\ \E evicted \in SUBSET OpenOf(u) :
         holder' = [g \in Tokens |-> IF g = f THEN f
                                     ELSE IF g \in evicted THEN NoToken ELSE holder[g]]
    /\ UNCHANGED password

\* The usable token is exchanged for one that was never handed out.
Refresh(f, t) ==
    /\ t \notin used
    /\ used' = used \cup {t}
    /\ f \in Open
    /\ holder' = [holder EXCEPT ![f] = t]
    /\ UNCHANGED <<password, opener>>

\* A logout, a reused or expired cookie, or a suspended account.
End(f) == UNCHANGED <<password, used, opener>> /\ Close({f})

LogoutAll(u) == UNCHANGED <<password, used, opener>> /\ Close(OpenOf(u))

ChangePassword(u) ==
    /\ password' = [password EXCEPT ![u] = @ + 1]
    /\ UNCHANGED <<used, opener>>
    /\ Close(OpenOf(u))

RNext ==
    \/ \E u \in Users, f \in Tokens : Login(u, f)
    \/ \E f, t \in Tokens : Refresh(f, t)
    \/ \E f \in Tokens : End(f)
    \/ \E u \in Users : LogoutAll(u) \/ ChangePassword(u)

RSpec == RInit /\ [][RNext]_rvars
=============================================================================
