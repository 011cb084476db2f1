--------------------------- MODULE SessionSafety ---------------------------
(***************************************************************************)
(* What must be true of the concurrent session services of module          *)
(* Sessions, and the promise of module SessionRegistry they implement.     *)
(***************************************************************************)
EXTENDS Sessions

Live(t) == db[t].status = "live"
Siblings(s, t) == /\ db[s].status # "absent" /\ db[t].status # "absent"
                  /\ db[s].family = db[t].family

\* Two refreshes never leave two usable cookies of one family: rotation hands
\* over the single live row (rotate_session, mark_token_rotated).
OneLiveTokenPerFamily ==
    \A s, t \in Tokens : Siblings(s, t) /\ Live(s) /\ Live(t) => s = t

\* Once a family was revoked for any reason but a rotation, no row of it is
\* live again, whatever rotation was under way when it was revoked.
ClosedFamilyStaysClosed ==
    \A s, t \in Tokens : Siblings(s, t) /\ db[s].status \in Closing => ~Live(t)

\* No usable session was opened with a password the account no longer has,
\* however logins and refreshes overlap change_password and reset_password.
LiveSessionsHaveCurrentPassword ==
    \A t \in Tokens : Live(t) => db[t].password = account[db[t].user].password

\* "a transactional user row lock serializes logins": when a login commits, the account
\* has at most max_active_session_families_per_user usable families, whatever other
\* requests have committed since it counted them (enforce_session_limit).
AfterCommit(r, t) == IF Mine(r, t) THEN work[t] ELSE db[t]

UsableAfter(r) ==
    {t \in Tokens : /\ AfterCommit(r, t).status = "live"
                    /\ AfterCommit(r, t).user = ctx[r].user
                    /\ ~Expired(AfterCommit(r, t), ctx[r].at)}

FamiliesAfter(r) == {AfterCommit(r, t).family : t \in UsableAfter(r)}

LoginsStayWithinCap ==
    \A r \in Requests : pc[r] = "commit" /\ ctx[r].op = "login" =>
        Cardinality(FamiliesAfter(r)) <= MaxFamilies

\* When logout_all or a password change is about to commit it holds every row of
\* the account, another request's uncommitted child included, and none is live.
LogoutAllCoversEverySession ==
    \A r \in Requests :
        pc[r] = "commit" /\ ctx[r].op \in AccountWide =>
            \A t \in RowsIn(ctx[r].user) : Mine(r, t) /\ work[t].status # "live"

\* The 401 that makes the browser drop its cookies (SessionRefreshError after
\* the commit) is only sent for a family the same commit leaves without a live row.
RejectionClosesFamily ==
    \A r \in Requests :
        pc[r] = "commit" /\ ctx[r].op = "refresh" /\ ctx[r].reason # "none" =>
            \A t \in RowsIn(ctx[r].family) : Mine(r, t) /\ work[t].status # "live"

\* replaced_by_token_id makes each family one unforked chain from its first
\* token: every other row has exactly one parent, with its user and deadline.
Parents(t) == {s \in Tokens : db[s].status # "absent" /\ db[s].replacedBy = t}

FamilyIsOneChain ==
    \A t \in Tokens : db[t].status # "absent" =>
        /\ Parents(t) = {} <=> t = db[t].family
        /\ \A s \in Parents(t) :
             /\ Parents(t) = {s}
             /\ db[s].family = db[t].family
             /\ db[s].user = db[t].user
             /\ db[s].familyExpires = db[t].familyExpires
             /\ db[s].created <= db[t].created
        /\ db[t].expires <= db[t].familyExpires

\* A revoked row stays revoked, keeps its successor, and its reason changes
\* only when a reuse is detected.
RevocationIsFinal ==
    [][\A t \in Tokens : db[t].status \in Revoked =>
          /\ db'[t].status \in {db[t].status, "reuse_detected"}
          /\ db'[t].replacedBy = db[t].replacedBy]_vars

\* Every request is answered: a lock cycle is broken by the database and no
\* request waits for a lock forever.
RequestsAreAnswered ==
    \A r \in Requests : pc[r] # "idle" ~> pc[r] = "idle"

-----------------------------------------------------------------------------
\* The inductive invariant behind the safety properties.

\* A row that exists belongs to a family, and a family to one user; what is
\* committed stays, and only a family's first row can be its uncommitted root.
RowsAreWellFormed ==
    \A t \in Tokens :
        /\ work[t].status # "absent" =>
             /\ work[t].user \in Users
             /\ work[t].family \in Tokens
             /\ work[t].family = t \/ db[work[t].family].status # "absent"
             /\ work[t].user = work[work[t].family].user
        /\ db[t].status # "absent" =>
             /\ work[t].status # "absent"
             /\ work[t].user = db[t].user
             /\ work[t].family = db[t].family

\* Every uncommitted write is under a row lock, and only rows are locked.
WritesAreLocked ==
    \A t \in Tokens :
        /\ owner[t] = NoRequest => work[t] = db[t]
        /\ work[t].status = "absent" => owner[t] = NoRequest

\* Versions a of one row and b of another row of its family can coexist.
Compatible(a, b) ==
    a.status # "absent" /\ b.status # "absent" /\ a.family = b.family =>
        /\ ~(a.status = "live" /\ b.status \in Closing \cup {"live"})
        /\ ~(b.status = "live" /\ a.status \in Closing)

\* Rows of one transaction commit together; any other two rows may end up in
\* either of their versions.
FamiliesAreConsistent ==
    \A s, t \in Tokens : s # t =>
        /\ Compatible(db[s], db[t])
        /\ Compatible(work[s], work[t])
        /\ (owner[s] # owner[t] \/ owner[s] = NoRequest) => Compatible(db[s], work[t])

PasswordsAreCurrent ==
    \A t \in Tokens :
        /\ db[t].status = "live" => db[t].password = account[db[t].user].password
        /\ work[t].status = "live" => work[t].password = account[work[t].user].password

\* Which operation executes which statement, with what it has looked up.
ContextMatches(r) ==
    /\ pc[r] \in {"idle", "lockToken"} => \A k \in Users \cup Tokens : ~Mine(r, k)
    /\ pc[r] = "lockToken" =>
         /\ ctx[r].op \in {"refresh", "logout"}
         /\ ctx[r].token # NoToken => db[ctx[r].token].status # "absent"
    /\ pc[r] = "lockUser" =>
         /\ ctx[r].op \in PasswordOps \cup {"refresh", "login"}
         /\ ctx[r].user \in Users
         /\ ctx[r].op \in PasswordOps => ctx[r].reason = "logout_all"
    /\ pc[r] = "pickOldest" => ctx[r].op = "login" /\ ctx[r].reason \in Closing
    /\ pc[r] = "revokeFamily" => /\ ctx[r].op \in {"refresh", "logout", "login"}
                                 /\ ctx[r].family \in Tokens
                                 /\ ctx[r].reason \in Closing
    /\ pc[r] = "revokeUser" => /\ ctx[r].op \in AccountWide
                               /\ ctx[r].reason = "logout_all"
    /\ pc[r] \in {"revokeUser", "commit"} =>
         (ctx[r].op \in AccountWide => ctx[r].user \in Users)
    /\ pc[r] = "insert" => ctx[r].op \in {"refresh", "login"}
    /\ pc[r] \in {"revokeFamily", "commit"} =>
         (ctx[r].op = "refresh" /\ ctx[r].reason # "none" =>
             ctx[r].family \in Tokens /\ db[ctx[r].family].status # "absent")

\* A refresh holds its token, live and as committed, until it replaces it.
HoldsToken(r) ==
    LET t == ctx[r].token
    IN  ctx[r].op = "refresh" /\ pc[r] \in {"lockUser", "insert"} =>
            /\ t \in Tokens
            /\ Mine(r, t)
            /\ work[t] = db[t]
            /\ work[t].status = "live"
            /\ ctx[r].user = work[t].user
            /\ ctx[r].family = work[t].family
            /\ ctx[r].reason = "none"

\* Login and password change hold the account they have authenticated.
HoldsAccount(r) ==
    LET u == ctx[r].user
        holding == \/ /\ ctx[r].op = "login"
                      /\ pc[r] \in {"pickOldest", "revokeFamily", "insert"}
                   \/ /\ ctx[r].op \in PasswordOps
                      /\ pc[r] \in {"revokeUser", "commit"}
    IN  holding =>
            /\ u \in Users
            /\ Mine(r, u)
            /\ account[u].password = ctx[r].password

\* What keeps the counters in their types.
CountersFit(r) ==
    /\ ctx[r].op = "change_password" => ctx[r].password < MaxPassword
    /\ ctx[r].op = "reset_password" /\ pc[r] # "lockUser" =>
          ctx[r].password < MaxPassword
    /\ pc[r] \in {"pickOldest", "revokeFamily"} /\ ctx[r].op = "login" =>
          ctx[r].excess > 0

\* A range revoked by r stays closed until r ends: no row of it is live, none
\* is another request's, and the gap lock keeps new ones out.
ClosedRange(r, k) ==
    /\ k \in gap[r]
    /\ \A t \in RowsIn(k) : Mine(r, t) /\ work[t].status # "live"

RevokedRangeIsClosed(r) ==
    pc[r] = "commit" =>
        /\ ctx[r].op \in AccountWide => ClosedRange(r, ctx[r].user)
        /\ ctx[r].op = "refresh" /\ ctx[r].reason # "none" => ClosedRange(r, ctx[r].family)

RequestInvariant(r) ==
    /\ ContextMatches(r)
    /\ HoldsToken(r)
    /\ HoldsAccount(r)
    /\ CountersFit(r)
    /\ RevokedRangeIsClosed(r)

RowInvariant ==
    /\ RowsAreWellFormed
    /\ WritesAreLocked
    /\ FamiliesAreConsistent
    /\ PasswordsAreCurrent

\* Strengthens the safety properties to one that every step preserves.
SessionInvariant ==
    /\ TypeOK
    /\ RowInvariant
    /\ \A r \in Requests : RequestInvariant(r)

-----------------------------------------------------------------------------
\* Why families are chains: what rows say of their origin, and of one another.

RowsKeepOrigin ==
    \A t \in Tokens :
        /\ db[t].status = "absent" => db[t] = Blank
        /\ work[t].status = "absent" => work[t] = Blank
        /\ db[t].status # "absent" => /\ work[t].created = db[t].created
                                      /\ work[t].expires = db[t].expires
                                      /\ work[t].familyExpires = db[t].familyExpires
        /\ work[t].created <= now
        /\ work[t].expires <= work[t].familyExpires
        /\ db[t].status = "live" => db[t].replacedBy = NoToken
        /\ work[t].status = "live" => work[t].replacedBy = NoToken

\* A child is committed together with the mark on its parent.
LinksArePaired ==
    \A s, t \in Tokens :
        /\ db[s].replacedBy = t => work[s].replacedBy = t
        /\ work[s].replacedBy = t =>
             /\ work[t].status # "absent" /\ t # work[t].family
             /\ work[s].family = work[t].family
             /\ work[s].user = work[t].user
             /\ work[s].familyExpires = work[t].familyExpires
             /\ work[s].created <= work[t].created
             /\ \/ db[s].replacedBy = t /\ db[t].status # "absent"
                \/ /\ db[s].replacedBy = NoToken /\ db[t].status = "absent"
                   /\ owner[s] = owner[t] /\ owner[s] # NoRequest

LinksAreUnforked ==
    /\ \A s, q, t \in Tokens : work[s].replacedBy = t /\ work[q].replacedBy = t => s = q
    /\ \A t \in Tokens : work[t].status # "absent" /\ t # work[t].family =>
         \E s \in Tokens : work[s].replacedBy = t

\* A family is named by a row that is its own family.
RootsStand ==
    \A t \in Tokens : work[t].status # "absent" =>
        work[work[t].family].family = work[t].family

ChainInvariant == RowsKeepOrigin /\ LinksArePaired /\ LinksAreUnforked /\ RootsStand

-----------------------------------------------------------------------------
\* What a transaction has written and not yet committed, as one operation.

Born(r) == {t \in Tokens : Mine(r, t) /\ db[t].status = "absent"}
Ended(r) == {t \in Tokens : Mine(r, t) /\ db[t].status = "live" /\ work[t].status # "live"}

WritesFit(r) ==
    /\ pc[r] # "idle" => ctx[r].op # "none"
    /\ pc[r] = "insert" => Mine(r, ctx[r].user)
    /\ pc[r] = "revokeFamily" /\ ctx[r].op = "login" =>
         \E t \in UsableAfter(r) : Mine(r, t) /\ work[t].family = ctx[r].family
    /\ \A t \in Born(r) : /\ pc[r] = "commit" /\ ctx[r].op \in {"login", "refresh"}
                          /\ ctx[r].op = "refresh" => ctx[r].reason = "none"
                          /\ work[t].status = "live" /\ Mine(r, work[t].user)
                          /\ Born(r) = {t}
    /\ pc[r] = "commit" /\ ctx[r].op = "login" =>
         \E t \in Born(r) : work[t].family = t /\ work[t].user = ctx[r].user
    /\ pc[r] = "commit" /\ ctx[r].op = "refresh" /\ ctx[r].reason = "none" =>
         \E t \in Born(r), s \in Ended(r) : /\ work[t].family = ctx[r].family
                                           /\ t # ctx[r].family
    /\ \A t \in Ended(r) : IF ctx[r].op \in {"refresh", "logout"}
                           THEN db[t].family = ctx[r].family
                           ELSE db[t].user = ctx[r].user

WritesAreOperations == \A r \in Requests : WritesFit(r)

\* How many families a login has left, while it evicts.
LoginMakesRoom(r) ==
    ctx[r].op = "login" =>
        /\ pc[r] \in {"pickOldest", "revokeFamily"} =>
             Cardinality(FamiliesAfter(r)) + 1 <= MaxFamilies + ctx[r].excess
        /\ pc[r] = "insert" => Cardinality(FamiliesAfter(r)) + 1 <= MaxFamilies
        /\ pc[r] = "commit" => Cardinality(FamiliesAfter(r)) <= MaxFamilies

LoginsMakeRoom == \A r \in Requests : LoginMakesRoom(r)

-----------------------------------------------------------------------------
\* What the documentation says of the cap and the code does not do.

\* "Up to 10 active families are allowed" (PHASE_4B_REFRESH_SESSIONS.md): a user never
\* has more usable families than the configured cap.
WithinFamilyCap == \A u \in Users : CountActive(u, now) <= MaxFamilies

Evicting(r) == pc[r] = "revokeFamily" /\ ctx[r].op = "login"

\* "the oldest excess family is revoked" (PHASE_4B_REFRESH_SESSIONS.md): no
\* usable family of the account was opened before the one a login evicts.
EvictsOldestFamily ==
    \A r \in Requests : Evicting(r) =>
        \A t \in Candidates(r) :
            work[ctx[r].family].created <= work[work[t].family].created

-----------------------------------------------------------------------------
\* The committed rows seen as families.

LiveMembersOf(f) == {t \in Tokens : Live(t) /\ db[t].family = f}

UsedView == {t \in Tokens : db[t].status # "absent"}
OpenerView == [f \in Tokens |-> IF db[f].family = f THEN db[f].user ELSE NoUser]
HolderView == [f \in Tokens |-> IF LiveMembersOf(f) = {} THEN NoToken
                                ELSE CHOOSE t \in LiveMembersOf(f) : TRUE]
PasswordView == [u \in Users |-> account[u].password]

Registry == INSTANCE SessionRegistry
    WITH password <- PasswordView, used <- UsedView,
         opener <- OpenerView, holder <- HolderView

\* The transactions implement the indivisible operations of SessionRegistry.
ImplementsRegistry == Registry!RSpec
=============================================================================
