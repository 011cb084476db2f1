--------------------------- MODULE SessionProofs ---------------------------
(***************************************************************************)
(* Proofs that the session services keep SessionInvariant, for every set   *)
(* of users, rows and requests and every configuration; that the rows of a *)
(* family form one chain; that the transactions implement SessionRegistry; *)
(* and that logins keep to the cap.                                        *)
(***************************************************************************)
EXTENDS SessionSafety, FiniteSetTheorems, TLAPS

\* The two sets of operation names are expanded everywhere.
USE DEF PasswordOps, AccountWide

\* The count of families is a natural number: the pool of rows is finite.
LEMMA CountIsNatural == \A u, at : CountActive(u, at) \in Nat
<1> TAKE u, at
<1> DEFINE A == {s \in Tokens : db[s].status = "live" /\ db[s].user = u
                                 /\ ~Expired(db[s], at)}
           F == {db[t].family : t \in A}
           f == [t \in A |-> db[t].family]
<1>1. IsFiniteSet(A)
  BY PoolIsFinite, FS_Subset
<1>2. f \in Surjection(A, F)
  BY DEF Surjection
<1>3. IsFiniteSet(F)
  <2> HIDE DEF A, F, f
  <2> QED BY <1>1, <1>2, FS_Surjection
<1> QED
  BY <1>3, FS_CardinalityType DEF CountActive

\* How many families a login evicts is a natural number.
LEMMA ExcessIsNatural == \A u, at : FamiliesToRevoke(u, at) \in Nat
  BY CountIsNatural, ConfigurationIsValid DEF FamiliesToRevoke

\* A new row has the type of a row.
LEMMA NewRowType ==
  ASSUME now \in Time, NEW u \in Users \cup {NoUser}, NEW f \in Tokens \cup {NoToken},
         NEW at \in Time, NEW d \in Horizon, NEW p \in Passwords
  PROVE  NewRow(u, f, at, d, p) \in Row
<1>1. at + Lifetime \in Nat /\ at \in Nat /\ d \in Nat
  BY ConfigurationIsValid DEF Time, Horizon
<1>2. Earlier(at + Lifetime, d) \in Horizon
  BY <1>1, ConfigurationIsValid DEF Earlier, Time, Horizon
<1> QED
  BY <1>2 DEF NewRow, Blank, Row, Time, Revoked, Closing

\* The context of an idle request is well typed.
LEMMA NoContextType == NoContext \in Context
  BY ConfigurationIsValid DEF NoContext, Context, Passwords, Time

\* A database without sessions satisfies the invariant (Init).
THEOREM InitEstablishesInvariant == Init => SessionInvariant
<1> SUFFICES ASSUME Init PROVE SessionInvariant
  OBVIOUS
<1> USE DEF Init, Blank, NoContext
<1>1. TypeOK
  BY ConfigurationIsValid
     DEF TypeOK, Row, Context, Time, Horizon, Passwords, Statements, Operations,
         Closing, Revoked
<1>2. RowsAreWellFormed
  BY DEF RowsAreWellFormed
<1>3. WritesAreLocked
  BY DEF WritesAreLocked
<1>4. FamiliesAreConsistent
  BY DEF FamiliesAreConsistent, Compatible
<1>5. PasswordsAreCurrent
  BY DEF PasswordsAreCurrent
<1>6. ASSUME NEW r \in Requests PROVE RequestInvariant(r)
  <2>1. pc[r] = "idle" /\ ctx[r].op = "none" /\ r # NoRequest
    BY NamesAreDistinct
  <2>2. \A k \in Users \cup Tokens : ~Mine(r, k)
    BY <2>1 DEF Mine
  <2>3. ContextMatches(r)
    BY <2>1, <2>2 DEF ContextMatches
  <2> QED
    BY <2>1, <2>3 DEF RequestInvariant, HoldsToken, HoldsAccount, CountersFit,
                      RevokedRangeIsClosed
<1> QED
  BY <1>1, <1>2, <1>3, <1>4, <1>5, <1>6 DEF SessionInvariant, RowInvariant

-----------------------------------------------------------------------------
\* What a step of r leaves alone: the other requests, their rows and accounts,
\* and the ranges they have gap-locked.

\* A range that no insert of a new family can open.
Anchored(k) == k \in Users \/ (k \in Tokens /\ db[k].status # "absent")

Frame(r) ==
    /\ \A q \in Requests \ {r} :
         /\ pc'[q] = pc[q] /\ ctx'[q] = ctx[q] /\ gap'[q] = gap[q]
         /\ \A k \in Users \cup Tokens : owner'[k] = q <=> owner[k] = q
         /\ \A t \in Tokens : Mine(q, t) => work'[t] = work[t] /\ db'[t] = db[t]
         /\ \A u \in Users : Mine(q, u) => account'[u].password = account[u].password
         /\ \A k \in gap[q], t \in Tokens : Anchored(k) /\ InRange(t, k)' => InRange(t, k)
    /\ \A t \in Tokens : db[t].status # "absent" => db'[t].status # "absent"

\* A step of r on its own context, its locks and its gaps leaves what the
\* invariant says of every other request as it was.
LEMMA OthersKeepInvariant ==
  ASSUME SessionInvariant, NEW r, Frame(r)
  PROVE  \A q \in Requests \ {r} : RequestInvariant(q)'
<1> TAKE q \in Requests \ {r}
<1>0. RequestInvariant(q) /\ TypeOK
  BY DEF SessionInvariant
<1>1. /\ pc'[q] = pc[q] /\ ctx'[q] = ctx[q] /\ gap'[q] = gap[q]
      /\ \A k \in Users \cup Tokens : owner'[k] = q <=> owner[k] = q
      /\ \A t \in Tokens : Mine(q, t) => work'[t] = work[t] /\ db'[t] = db[t]
      /\ \A u \in Users : Mine(q, u) => account'[u].password = account[u].password
      /\ \A k \in gap[q], t \in Tokens : Anchored(k) /\ InRange(t, k)' => InRange(t, k)
      /\ \A t \in Tokens : db[t].status # "absent" => db'[t].status # "absent"
  BY DEF Frame
<1>2. ContextMatches(q)'
  <2>1. ctx[q].token \in Tokens \cup {NoToken}
    BY <1>0 DEF TypeOK, Context
  <2> QED
    BY <1>0, <1>1, <2>1 DEF RequestInvariant, ContextMatches, Mine
<1>3. HoldsToken(q)'
  BY <1>0, <1>1 DEF RequestInvariant, HoldsToken, Mine
<1>4. HoldsAccount(q)'
  BY <1>0, <1>1 DEF RequestInvariant, HoldsAccount, Mine
<1>5. CountersFit(q)'
  BY <1>0, <1>1 DEF RequestInvariant, CountersFit
<1>6. RevokedRangeIsClosed(q)'
  <2>1. ASSUME NEW k, Anchored(k), ClosedRange(q, k) PROVE ClosedRange(q, k)'
    <3>1. k \in gap[q]
      BY <2>1 DEF ClosedRange
    <3>2. ASSUME NEW t \in RowsIn(k)' PROVE Mine(q, t)' /\ work'[t].status # "live"
      <4>1. t \in Tokens /\ InRange(t, k)'
        BY DEF RowsIn
      <4>2. t \in RowsIn(k)
        BY <1>1, <2>1, <3>1, <4>1 DEF RowsIn
      <4> QED
        BY <1>1, <2>1, <4>1, <4>2 DEF ClosedRange, Mine
    <3> QED
      BY <1>1, <3>1, <3>2 DEF ClosedRange
  <2>2. pc[q] = "commit" =>
          /\ ctx[q].op \in AccountWide => Anchored(ctx[q].user)
          /\ ctx[q].op = "refresh" /\ ctx[q].reason # "none" => Anchored(ctx[q].family)
    BY <1>0 DEF RequestInvariant, ContextMatches, Anchored
  <2> QED
    BY <1>0, <1>1, <2>1, <2>2 DEF RequestInvariant, RevokedRangeIsClosed
<1> QED
  BY <1>2, <1>3, <1>4, <1>5, <1>6 DEF RequestInvariant

\* A step of r keeps the invariant if it keeps the types, the rows, what r
\* itself relies on, and the frame.
LEMMA StepKeepsInvariant ==
  ASSUME SessionInvariant, NEW r, Frame(r), TypeOK', RowInvariant',
         r \in Requests => RequestInvariant(r)'
  PROVE  SessionInvariant'
  BY OthersKeepInvariant DEF SessionInvariant

\* Taking locks on rows that exist changes nothing of the rows.
LEMMA LockingKeepsRows ==
  ASSUME SessionInvariant, UNCHANGED <<db, work, account>>,
         \A t \in Tokens :
            \/ owner'[t] = owner[t]
            \/ /\ owner[t] = NoRequest /\ owner'[t] \in Requests
               /\ work[t].status # "absent"
  PROVE  RowInvariant'
<1>0. RowInvariant
  BY DEF SessionInvariant
<1>1. RowsAreWellFormed'
  BY <1>0 DEF RowInvariant, RowsAreWellFormed
<1>2. WritesAreLocked'
  BY <1>0, NamesAreDistinct DEF RowInvariant, WritesAreLocked
<1>3. FamiliesAreConsistent'
  <2> SUFFICES ASSUME NEW s \in Tokens, NEW t \in Tokens, s # t
               PROVE  /\ Compatible(db'[s], db'[t]) /\ Compatible(work'[s], work'[t])
                      /\ owner'[s] # owner'[t] \/ owner'[s] = NoRequest =>
                            Compatible(db'[s], work'[t])
    BY DEF FamiliesAreConsistent, Compatible
  <2>1. Compatible(db[s], db[t]) /\ Compatible(work[s], work[t])
    BY <1>0 DEF RowInvariant, FamiliesAreConsistent
  <2>2. owner'[s] # owner'[t] \/ owner'[s] = NoRequest =>
           owner[s] # owner[t] \/ owner[s] = NoRequest
    BY NamesAreDistinct
  <2>3. owner[s] # owner[t] \/ owner[s] = NoRequest => Compatible(db[s], work[t])
    BY <1>0 DEF RowInvariant, FamiliesAreConsistent
  <2> QED
    BY <2>1, <2>2, <2>3
<1>4. PasswordsAreCurrent'
  BY <1>0 DEF RowInvariant, PasswordsAreCurrent
<1> QED
  BY <1>1, <1>2, <1>3, <1>4 DEF RowInvariant

\* Every rollback, whatever caused it.
LEMMA RollbackKeepsInvariant ==
  ASSUME SessionInvariant, NEW r \in Requests, Rollback(r)
  PROVE  SessionInvariant'
<1>0. /\ TypeOK /\ RowInvariant
      /\ now' = now /\ account' = account /\ db' = db
      /\ work' = [t \in Tokens |-> IF Mine(r, t) THEN db[t] ELSE work[t]]
      /\ owner' = [k \in DOMAIN owner |-> IF Mine(r, k) THEN NoRequest ELSE owner[k]]
      /\ gap' = [gap EXCEPT ![r] = {}]
      /\ pc' = [pc EXCEPT ![r] = "idle"]
      /\ ctx' = [ctx EXCEPT ![r] = NoContext]
      /\ DOMAIN owner = Users \cup Tokens
  BY DEF SessionInvariant, Rollback, Release, TypeOK
<1>1. TypeOK'
  BY <1>0, NoContextType DEF TypeOK, Statements
<1>2. Frame(r)
  <2>1. ASSUME NEW t \in Tokens, NEW k, InRange(t, k)' PROVE InRange(t, k)
    BY <1>0, <2>1 DEF InRange, RowInvariant, RowsAreWellFormed
  <2>2. \A q \in Requests \ {r} : \A k \in Users \cup Tokens : owner'[k] = q <=> owner[k] = q
    BY <1>0, NamesAreDistinct DEF Mine
  <2> QED
    BY <1>0, <2>1, <2>2 DEF Frame, Mine, TypeOK
<1>3. RowInvariant'
  <2>1. RowsAreWellFormed'
    BY <1>0 DEF RowInvariant, RowsAreWellFormed
  <2>2. WritesAreLocked'
    BY <1>0 DEF RowInvariant, WritesAreLocked, RowsAreWellFormed, Mine
  <2>3. FamiliesAreConsistent'
    <3> SUFFICES ASSUME NEW s \in Tokens, NEW t \in Tokens, s # t
               PROVE  /\ Compatible(db'[s], db'[t]) /\ Compatible(work'[s], work'[t])
                      /\ owner'[s] # owner'[t] \/ owner'[s] = NoRequest =>
                            Compatible(db'[s], work'[t])
      BY DEF FamiliesAreConsistent, Compatible
    <3>1. /\ Compatible(db[s], db[t]) /\ Compatible(work[s], work[t])
          /\ owner[s] # owner[t] \/ owner[s] = NoRequest =>
                Compatible(db[s], work[t]) /\ Compatible(db[t], work[s])
      BY <1>0 DEF RowInvariant, FamiliesAreConsistent
    <3>2. \A a, b : Compatible(a, b) => Compatible(b, a)
      BY DEF Compatible
    <3>3. Compatible(work'[s], work'[t]) /\ Compatible(db'[s], db'[t])
      BY <1>0, <3>1, <3>2, NamesAreDistinct DEF Mine
    <3>4. owner'[s] # owner'[t] \/ owner'[s] = NoRequest => Compatible(db'[s], work'[t])
      BY <1>0, <3>1, NamesAreDistinct DEF Mine, RowInvariant, WritesAreLocked
    <3> QED
      BY <3>3, <3>4
  <2>4. PasswordsAreCurrent'
    BY <1>0 DEF RowInvariant, PasswordsAreCurrent
  <2> QED
    BY <2>1, <2>2, <2>3, <2>4 DEF RowInvariant
<1>4. RequestInvariant(r)'
  <2>1. pc'[r] = "idle" /\ ctx'[r] = NoContext /\ r # NoRequest
    BY <1>0, NamesAreDistinct DEF TypeOK
  <2>2. \A k \in Users \cup Tokens : ~Mine(r, k)'
    BY <1>0, <2>1 DEF Mine
  <2>3. ContextMatches(r)'
    BY <2>1, <2>2 DEF ContextMatches
  <2> QED
    BY <2>1, <2>3 DEF RequestInvariant, HoldsToken, HoldsAccount, CountersFit,
                      RevokedRangeIsClosed, NoContext
<1> QED
  BY <1>1, <1>2, <1>3, <1>4, StepKeepsInvariant

-----------------------------------------------------------------------------
\* The actions of a request, one lemma each.

\* A request that arrives holds no lock and keeps the invariant.
LEMMA BeginKeepsInvariant ==
  ASSUME SessionInvariant, NEW r \in Requests, NEW statement, NEW c \in Context,
         Begin(r, statement, c),
         \/ /\ statement = "lockToken"
            /\ c.op \in {"refresh", "logout"}
            /\ c.token # NoToken => db[c.token].status # "absent"
         \/ /\ statement = "lockUser"
            /\ c.op \in PasswordOps \cup {"login"}
            /\ c.user \in Users
            /\ c.op \in PasswordOps => c.reason = "logout_all"
         \/ /\ statement = "revokeUser"
            /\ c.op = "logout_all"
            /\ c.user \in Users
            /\ c.reason = "logout_all",
         c.op = "change_password" => c.password < MaxPassword
  PROVE  SessionInvariant'
<1>0. /\ TypeOK /\ RowInvariant /\ RequestInvariant(r)
      /\ UNCHANGED <<now, account, db, work, owner, gap>>
      /\ pc' = [pc EXCEPT ![r] = statement] /\ ctx' = [ctx EXCEPT ![r] = c]
      /\ pc[r] = "idle"
  BY DEF SessionInvariant, Begin, Goto
<1>1. TypeOK'
  BY <1>0 DEF TypeOK, Statements
<1>2. Frame(r)
  BY <1>0 DEF Frame, TypeOK, InRange
<1>3. RowInvariant'
  BY <1>0, LockingKeepsRows
<1>4. RequestInvariant(r)'
  <2>1. pc'[r] = statement /\ ctx'[r] = c
    BY <1>0 DEF TypeOK
  <2>2. \A k \in Users \cup Tokens : ~Mine(r, k)'
    BY <1>0 DEF RequestInvariant, ContextMatches, Mine
  <2>3. ContextMatches(r)'
    BY <1>0, <2>1, <2>2 DEF ContextMatches
  <2> QED
    BY <2>1, <2>3 DEF RequestInvariant, HoldsToken, HoldsAccount, CountersFit,
                      RevokedRangeIsClosed
<1> QED
  BY <1>1, <1>2, <1>3, <1>4, StepKeepsInvariant

\* Every kind of arrival is such a request (the routes of auth/routes.py).
LEMMA ArriveKeepsInvariant ==
  ASSUME SessionInvariant, NEW r \in Requests, Arrive(r)
  PROVE  SessionInvariant'
<1>1. CASE \E t \in Issued \cup {NoToken}, o \in {"refresh", "logout"} :
             BeginCookieRequest(r, o, t)
  <2> PICK t \in Issued \cup {NoToken}, o \in {"refresh", "logout"} :
             BeginCookieRequest(r, o, t)
    BY <1>1
  <2> DEFINE c == [NoContext EXCEPT !.op = o, !.token = t]
  <2>1. /\ c \in Context
        /\ c.op = o /\ c.token = t
    BY NoContextType DEF Context, Operations, Issued
  <2>2. t # NoToken => db[t].status # "absent"
    BY DEF Issued
  <2>3. Begin(r, "lockToken", c)
    BY DEF BeginCookieRequest
  <2> HIDE DEF c
  <2> QED
    BY <2>1, <2>2, <2>3, BeginKeepsInvariant
<1>2. CASE \E u \in Users, p \in Passwords : BeginLogin(r, u, p)
  <2> PICK u \in Users, p \in Passwords : BeginLogin(r, u, p)
    BY <1>2
  <2> DEFINE c == [NoContext EXCEPT !.op = "login", !.user = u, !.password = p]
  <2>1. c \in Context /\ c.op = "login" /\ c.user = u
    BY NoContextType DEF Context, Operations
  <2>2. Begin(r, "lockUser", c)
    BY DEF BeginLogin
  <2> HIDE DEF c
  <2> QED
    BY <2>1, <2>2, BeginKeepsInvariant
<1>3. CASE \E u \in Users : BeginLogoutAll(r, u)
  <2> PICK u \in Users : BeginLogoutAll(r, u)
    BY <1>3
  <2> DEFINE c == [NoContext EXCEPT !.op = "logout_all", !.user = u,
                                    !.reason = "logout_all"]
  <2>1. /\ c \in Context /\ c.op = "logout_all" /\ c.reason = "logout_all"
        /\ c.user = u
    BY NoContextType DEF Context, Operations, Closing
  <2>2. Begin(r, "revokeUser", c)
    BY DEF BeginLogoutAll
  <2> HIDE DEF c
  <2> QED
    BY <2>1, <2>2, BeginKeepsInvariant
<1>4. CASE \E u \in Users, p \in Passwords :
             p < MaxPassword /\ BeginChangePassword(r, u, p)
  <2> PICK u \in Users, p \in Passwords : p < MaxPassword /\ BeginChangePassword(r, u, p)
    BY <1>4
  <2> DEFINE c == [NoContext EXCEPT !.op = "change_password", !.user = u,
                                    !.password = p, !.reason = "logout_all"]
  <2>1. /\ c \in Context /\ c.op = "change_password" /\ c.user = u /\ c.password = p
        /\ c.reason = "logout_all"
    BY NoContextType DEF Context, Operations, Closing
  <2>2. Begin(r, "lockUser", c)
    BY DEF BeginChangePassword
  <2> HIDE DEF c
  <2> QED
    BY <2>1, <2>2, BeginKeepsInvariant
<1>5. CASE \E u \in Users : BeginResetPassword(r, u)
  <2> PICK u \in Users : BeginResetPassword(r, u)
    BY <1>5
  <2> DEFINE c == [NoContext EXCEPT !.op = "reset_password", !.user = u,
                                    !.reason = "logout_all"]
  <2>1. /\ c \in Context /\ c.op = "reset_password" /\ c.reason = "logout_all"
        /\ c.user = u
    BY NoContextType DEF Context, Operations, Closing
  <2>2. Begin(r, "lockUser", c)
    BY DEF BeginResetPassword
  <2> HIDE DEF c
  <2> QED
    BY <2>1, <2>2, BeginKeepsInvariant
<1> QED
  BY <1>1, <1>2, <1>3, <1>4, <1>5 DEF Arrive

\* The parts every locking action shares: r takes k and goes on to a statement.
LEMMA TakingALock ==
  ASSUME SessionInvariant, NEW r \in Requests, NEW k \in Users \cup Tokens,
         Available(r, k), Take(r, k),
         account' = account, db' = db, work' = work, gap' = gap,
         k \in Tokens => work[k].status # "absent",
         NEW statement \in Statements, Goto(r, statement),
         NEW c \in Context, ctx' = [ctx EXCEPT ![r] = c]
  PROVE  /\ now' = now => TypeOK'
         /\ Frame(r)
         /\ RowInvariant'
         /\ pc'[r] = statement /\ ctx'[r] = c /\ owner'[k] = r
         /\ \A j \in Users \cup Tokens : owner[j] = r => owner'[j] = r
<1>0. TypeOK /\ owner' = [owner EXCEPT ![k] = r] /\ pc' = [pc EXCEPT ![r] = statement]
  BY DEF SessionInvariant, Take, Goto
<1>1. now' = now => TypeOK'
  BY <1>0 DEF TypeOK
<1>2. Frame(r)
  BY <1>0, NamesAreDistinct DEF Frame, TypeOK, InRange, Available
<1>3. RowInvariant'
  <2>1. \A t \in Tokens : \/ owner'[t] = owner[t]
                          \/ /\ owner[t] = NoRequest /\ owner'[t] \in Requests
                             /\ work[t].status # "absent"
    BY <1>0 DEF TypeOK, Available
  <2> QED
    BY <2>1, LockingKeepsRows
<1> QED
  BY <1>0, <1>1, <1>2, <1>3 DEF TypeOK, Mine

\* Locking the presented cookie's row keeps the invariant (get_for_update_by_hash).
LEMMA LockTokenKeepsInvariant ==
  ASSUME SessionInvariant, NEW r \in Requests, LockToken(r)
  PROVE  SessionInvariant'
<1>0. /\ TypeOK /\ RowInvariant /\ RequestInvariant(r)
      /\ pc[r] = "lockToken" /\ ctx[r].token # NoToken
      /\ UNCHANGED <<account, db, work, gap>> /\ now' = now
  BY DEF SessionInvariant, LockToken
<1>1. PICK t \in Tokens : t = ctx[r].token
  BY <1>0 DEF TypeOK, Context
<1>2. PICK row \in Row, old \in Context : row = work[t] /\ old = ctx[r]
  BY <1>0 DEF TypeOK
<1>3. PICK reason : reason = IF old.op = "logout" THEN "logout" ELSE Refusal(row)
  OBVIOUS
<1>4. PICK next, at : /\ next = IF reason = "none" THEN "lockUser" ELSE "revokeFamily"
                      /\ at = IF old.op = "refresh" THEN now ELSE 0
  OBVIOUS
<1>c. PICK c : c = [old EXCEPT !.user = row.user, !.family = row.family,
                               !.reason = reason, !.at = at]
  OBVIOUS
<1>5. /\ Available(r, t) /\ Take(r, t) /\ Goto(r, next)
      /\ ctx' = [ctx EXCEPT ![r] = c]
  <2>1. LockToken(r) <=>
          /\ pc[r] = "lockToken" /\ t # NoToken /\ Available(r, t) /\ Take(r, t)
          /\ ctx' = [ctx EXCEPT ![r].user = row.user, ![r].family = row.family,
                                ![r].reason = reason, ![r].at = at]
          /\ Goto(r, next)
          /\ UNCHANGED <<now, account, db, work, gap>>
    BY <1>1, <1>2, <1>3, <1>4 DEF LockToken
  <2> QED
    BY <1>0, <1>2, <1>c, <2>1 DEF TypeOK, Context
<1>6. /\ db[t].status # "absent" /\ old.op \in {"refresh", "logout"} /\ row = db[t]
      /\ row.status # "absent" /\ row.user \in Users /\ row.family \in Tokens
      /\ db[row.family].status # "absent"
  <2>1. /\ db[t].status # "absent" /\ old.op \in {"refresh", "logout"}
        /\ owner[t] = NoRequest
    BY <1>0, <1>1, <1>2, <1>5 DEF RequestInvariant, ContextMatches, Available, Mine
  <2> QED
    BY <1>0, <1>2, <2>1 DEF RowInvariant, RowsAreWellFormed, WritesAreLocked
<1>7. /\ reason \in Closing \cup {"none"}
      /\ reason = "none" => row.status = "live" /\ old.op = "refresh"
  BY <1>3, <1>6 DEF Refusal, Closing
<1>8. /\ c \in Context /\ next \in Statements
      /\ c.op = old.op /\ c.token = t /\ c.user = row.user
      /\ c.family = row.family /\ c.reason = reason /\ c.password = old.password
  <2>1. at \in Time /\ next \in Statements
    BY <1>0, <1>4, ConfigurationIsValid DEF TypeOK, Time, Statements
  <2> QED
    BY <1>1, <1>2, <1>c, <1>6, <1>7, <2>1 DEF Context
<1>9. /\ TypeOK' /\ Frame(r) /\ RowInvariant'
      /\ pc'[r] = next /\ ctx'[r] = c /\ owner'[t] = r
  <2>1. work[t].status # "absent"
    BY <1>2, <1>6
  <2>2. t \in Users \cup Tokens /\ c \in Context /\ next \in Statements
    BY <1>8
  <2>3. /\ account' = account /\ db' = db /\ work' = work /\ gap' = gap
        /\ now' = now
    BY <1>0
  <2> QED
    BY <1>5, <2>1, <2>2, <2>3, TakingALock
<1>10. RequestInvariant(r)'
  <2>1. ContextMatches(r)'
    BY <1>0, <1>4, <1>6, <1>7, <1>8, <1>9 DEF ContextMatches
  <2>2. HoldsToken(r)'
    BY <1>0, <1>2, <1>4, <1>6, <1>7, <1>8, <1>9 DEF HoldsToken, Mine
  <2> QED
    BY <1>4, <1>6, <1>8, <1>9, <2>1, <2>2
       DEF RequestInvariant, HoldsAccount, CountersFit, RevokedRangeIsClosed
<1> QED
  BY <1>9, <1>10, StepKeepsInvariant

\* A refresh that locks its account keeps the invariant (rotate_session).
LEMMA RefreshLockUserKeepsInvariant ==
  ASSUME SessionInvariant, NEW r \in Requests, RefreshLockUser(r)
  PROVE  SessionInvariant'
<1>0. /\ TypeOK /\ RowInvariant /\ RequestInvariant(r)
      /\ pc[r] = "lockUser" /\ ctx[r].op = "refresh"
  BY DEF SessionInvariant, RefreshLockUser
<1>1. PICK t \in Tokens, u \in Users, old \in Context :
         t = ctx[r].token /\ u = ctx[r].user /\ old = ctx[r]
  BY <1>0 DEF TypeOK, RequestInvariant, HoldsToken, ContextMatches
<1>2. PICK next, c : /\ next = IF account[u].active THEN "insert" ELSE "revokeFamily"
                     /\ c = IF account[u].active THEN old
                            ELSE [old EXCEPT !.reason = "inactive_account"]
  OBVIOUS
<1>3. /\ Available(r, u) /\ Take(r, u) /\ Goto(r, next)
      /\ account' = account /\ db' = db /\ work' = work /\ gap' = gap /\ now' = now
  BY <1>1, <1>2 DEF RefreshLockUser
<1>4. ctx' = [ctx EXCEPT ![r] = c]
  BY <1>0, <1>1, <1>2 DEF RefreshLockUser, TypeOK, Context
<1>5. /\ next \in Statements /\ c \in Context
      /\ c.op = "refresh" /\ c.user = u /\ c.token = t /\ c.family = old.family
      /\ next = "insert" => c = old
      /\ next = "revokeFamily" => c.reason \in Closing
  BY <1>0, <1>1, <1>2 DEF Statements, Context, Closing
<1>6. /\ Mine(r, t) /\ work[t] = db[t] /\ work[t].status = "live"
      /\ old.user = work[t].user /\ old.family = work[t].family /\ old.reason = "none"
  BY <1>0, <1>1 DEF RequestInvariant, HoldsToken
<1>7. /\ TypeOK' /\ Frame(r) /\ RowInvariant'
      /\ pc'[r] = next /\ ctx'[r] = c /\ owner'[u] = r
      /\ \A j \in Users \cup Tokens : owner[j] = r => owner'[j] = r
  <2>1. u \in Users \cup Tokens /\ (u \in Tokens => work[u].status # "absent")
    BY NamesAreDistinct
  <2>2. c \in Context /\ next \in Statements
    BY <1>5
  <2> QED
    BY <1>3, <1>4, <2>1, <2>2, TakingALock
<1>8. RequestInvariant(r)'
  <2>1. old.family \in Tokens /\ db[old.family].status # "absent"
    BY <1>0, <1>6 DEF RowInvariant, RowsAreWellFormed
  <2>2. ContextMatches(r)'
    BY <1>2, <1>3, <1>5, <1>7, <2>1 DEF ContextMatches
  <2>3. HoldsToken(r)'
    BY <1>2, <1>3, <1>5, <1>6, <1>7 DEF HoldsToken, Mine
  <2> QED
    BY <1>2, <1>5, <1>7, <2>2, <2>3
       DEF RequestInvariant, HoldsAccount, CountersFit, RevokedRangeIsClosed
<1> QED
  BY <1>7, <1>8, StepKeepsInvariant

\* A login that authenticates keeps the invariant (authenticate).
LEMMA LoginLockUserKeepsInvariant ==
  ASSUME SessionInvariant, NEW r \in Requests, LoginLockUser(r)
  PROVE  SessionInvariant'
<1>0. /\ TypeOK /\ RowInvariant /\ RequestInvariant(r)
      /\ pc[r] = "lockUser" /\ ctx[r].op = "login"
  BY DEF SessionInvariant, LoginLockUser
<1>1. PICK u \in Users, old \in Context : u = ctx[r].user /\ old = ctx[r]
  BY <1>0 DEF TypeOK, RequestInvariant, ContextMatches
<1>2. PICK excess \in Nat : excess = FamiliesToRevoke(u, now)
  BY ExcessIsNatural
<1>3. PICK next, c : /\ next = IF excess > 0 THEN "pickOldest" ELSE "insert"
                     /\ c = [old EXCEPT !.at = now, !.excess = excess,
                                        !.reason = "session_limit"]
  OBVIOUS
<1>4. /\ Available(r, u) /\ Take(r, u) /\ Goto(r, next)
      /\ account' = account /\ db' = db /\ work' = work /\ gap' = gap /\ now' = now
      /\ Authenticated(r)
  BY <1>1, <1>2, <1>3 DEF LoginLockUser
<1>5. ctx' = [ctx EXCEPT ![r] = c]
  BY <1>0, <1>1, <1>2, <1>3 DEF LoginLockUser, TypeOK, Context
<1>6. /\ next \in Statements /\ c \in Context /\ c.op = "login" /\ c.user = u
      /\ c.password = old.password /\ c.excess = excess /\ c.reason \in Closing
  BY <1>0, <1>1, <1>3 DEF TypeOK, Statements, Context, Closing
<1>7. /\ TypeOK' /\ Frame(r) /\ RowInvariant'
      /\ pc'[r] = next /\ ctx'[r] = c /\ owner'[u] = r
  <2>1. u \in Users \cup Tokens /\ (u \in Tokens => work[u].status # "absent")
    BY NamesAreDistinct
  <2>2. c \in Context /\ next \in Statements
    BY <1>6
  <2> QED
    BY <1>4, <1>5, <2>1, <2>2, TakingALock
<1>8. RequestInvariant(r)'
  <2>1. ContextMatches(r)'
    BY <1>3, <1>6, <1>7 DEF ContextMatches
  <2>2. HoldsAccount(r)'
    BY <1>0, <1>1, <1>4, <1>6, <1>7 DEF HoldsAccount, Authenticated, Mine
  <2> QED
    BY <1>3, <1>6, <1>7, <2>1, <2>2
       DEF RequestInvariant, HoldsToken, CountersFit, RevokedRangeIsClosed
<1> QED
  BY <1>7, <1>8, StepKeepsInvariant

\* A change that verifies the current password keeps the invariant (change_password).
LEMMA ChangePasswordLockUserKeepsInvariant ==
  ASSUME SessionInvariant, NEW r \in Requests, ChangePasswordLockUser(r)
  PROVE  SessionInvariant'
<1>0. /\ TypeOK /\ RowInvariant /\ RequestInvariant(r)
      /\ pc[r] = "lockUser" /\ ctx[r].op = "change_password"
  BY DEF SessionInvariant, ChangePasswordLockUser
<1>1. PICK u \in Users, c \in Context : u = ctx[r].user /\ c = ctx[r]
  BY <1>0 DEF TypeOK, RequestInvariant, ContextMatches
<1>2. PICK next \in Statements : next = "revokeUser"
  BY DEF Statements
<1>3. /\ Available(r, u) /\ Take(r, u) /\ Goto(r, next)
      /\ account' = account /\ db' = db /\ work' = work /\ gap' = gap /\ now' = now
  BY <1>1, <1>2 DEF ChangePasswordLockUser
<1>4. ctx' = [ctx EXCEPT ![r] = c]
  BY <1>0, <1>1 DEF ChangePasswordLockUser, TypeOK
<1>5. /\ TypeOK' /\ Frame(r) /\ RowInvariant'
      /\ pc'[r] = next /\ ctx'[r] = c /\ owner'[u] = r
  <2>1. u \in Users \cup Tokens /\ (u \in Tokens => work[u].status # "absent")
    BY NamesAreDistinct
  <2>2. c \in Context /\ next \in Statements
    OBVIOUS
  <2> QED
    BY <1>3, <1>4, <2>1, <2>2, TakingALock
<1>6. RequestInvariant(r)'
  <2>1. ContextMatches(r)'
    BY <1>0, <1>1, <1>2, <1>5 DEF RequestInvariant, ContextMatches
  <2>2. account[u].password = c.password
    BY <1>1 DEF ChangePasswordLockUser, Authenticated
  <2>3. HoldsAccount(r)'
    BY <1>0, <1>1, <1>3, <1>5, <2>2 DEF HoldsAccount, Mine
  <2> QED
    BY <1>0, <1>1, <1>2, <1>5, <2>1, <2>3
       DEF RequestInvariant, HoldsToken, CountersFit, RevokedRangeIsClosed
<1> QED
  BY <1>5, <1>6, StepKeepsInvariant

\* A reset whose code is accepted keeps the invariant (reset_password).
LEMMA ResetPasswordLockUserKeepsInvariant ==
  ASSUME SessionInvariant, NEW r \in Requests, ResetPasswordLockUser(r)
  PROVE  SessionInvariant'
<1>0. /\ TypeOK /\ RowInvariant /\ RequestInvariant(r)
      /\ pc[r] = "lockUser" /\ ctx[r].op = "reset_password"
  BY DEF SessionInvariant, ResetPasswordLockUser
<1>1. PICK u \in Users, old \in Context : u = ctx[r].user /\ old = ctx[r]
  BY <1>0 DEF TypeOK, RequestInvariant, ContextMatches
<1>2. PICK p \in Passwords : p = account[u].password
  BY <1>0 DEF TypeOK
<1>3. PICK c : c = [old EXCEPT !.password = p]
  OBVIOUS
<1>4. PICK next \in Statements : next = "revokeUser"
  BY DEF Statements
<1>5. /\ Available(r, u) /\ Take(r, u) /\ Goto(r, next)
      /\ account' = account /\ db' = db /\ work' = work /\ gap' = gap /\ now' = now
      /\ p < MaxPassword
  BY <1>1, <1>2, <1>4 DEF ResetPasswordLockUser
<1>6. ctx' = [ctx EXCEPT ![r] = c]
  BY <1>0, <1>1, <1>2, <1>3 DEF ResetPasswordLockUser, TypeOK, Context
<1>7. /\ c \in Context /\ next \in Statements /\ c.op = "reset_password" /\ c.user = u
      /\ c.password = p /\ c.reason = old.reason
  BY <1>0, <1>1, <1>3 DEF Context
<1>8. /\ TypeOK' /\ Frame(r) /\ RowInvariant'
      /\ pc'[r] = next /\ ctx'[r] = c /\ owner'[u] = r
  <2>1. u \in Users \cup Tokens /\ (u \in Tokens => work[u].status # "absent")
    BY NamesAreDistinct
  <2>2. c \in Context /\ next \in Statements
    BY <1>7
  <2> QED
    BY <1>5, <1>6, <2>1, <2>2, TakingALock
<1>9. RequestInvariant(r)'
  <2>1. ContextMatches(r)'
    BY <1>0, <1>1, <1>4, <1>7, <1>8 DEF RequestInvariant, ContextMatches
  <2>2. HoldsAccount(r)'
    BY <1>2, <1>5, <1>7, <1>8 DEF HoldsAccount, Mine
  <2> QED
    BY <1>4, <1>5, <1>7, <1>8, <2>1, <2>2
       DEF RequestInvariant, HoldsToken, CountersFit, RevokedRangeIsClosed
<1> QED
  BY <1>8, <1>9, StepKeepsInvariant

-----------------------------------------------------------------------------
\* Scans.

\* A scan that locks a row keeps the invariant.
LEMMA LockRowKeepsInvariant ==
  ASSUME SessionInvariant, NEW r \in Requests, LockRow(r)
  PROVE  SessionInvariant'
<1>0. /\ TypeOK /\ RowInvariant /\ RequestInvariant(r) /\ Scanning(r)
      /\ UNCHANGED <<now, account, db, work, gap, pc, ctx>>
  BY DEF SessionInvariant, LockRow
<1>1. PICK t \in Tokens :
         /\ work[t].status # "absent" /\ owner[t] = NoRequest
         /\ owner' = [owner EXCEPT ![t] = r]
  BY DEF LockRow, RowsIn, InRange, Take
<1>2. TypeOK'
  BY <1>0, <1>1 DEF TypeOK
<1>3. Frame(r)
  BY <1>0, <1>1, NamesAreDistinct DEF Frame, InRange, TypeOK
<1>4. RowInvariant'
  BY <1>0, <1>1, LockingKeepsRows DEF TypeOK
<1>5. RequestInvariant(r)'
  <2>1. pc[r] \in {"pickOldest", "revokeFamily", "revokeUser"}
    BY <1>0 DEF Scanning
  <2>2. ContextMatches(r)' /\ CountersFit(r)'
    BY <1>0, <2>1 DEF RequestInvariant, ContextMatches, CountersFit
  <2>3. HoldsAccount(r)'
    BY <1>0, <1>1 DEF RequestInvariant, HoldsAccount, Mine, TypeOK
  <2> QED
    BY <1>0, <2>1, <2>2, <2>3 DEF RequestInvariant, HoldsToken, RevokedRangeIsClosed
<1> QED
  BY <1>2, <1>3, <1>4, <1>5, StepKeepsInvariant

\* A scan that locks a gap keeps the invariant.
LEMMA LockGapKeepsInvariant ==
  ASSUME SessionInvariant, NEW r \in Requests, LockGap(r)
  PROVE  SessionInvariant'
<1>0. /\ TypeOK /\ RowInvariant /\ RequestInvariant(r) /\ Scanning(r)
      /\ gap' = [gap EXCEPT ![r] = @ \cup {ScanKey(r)}]
      /\ UNCHANGED <<now, account, db, work, owner, pc, ctx>>
  BY DEF SessionInvariant, LockGap
<1>1. pc[r] \in {"pickOldest", "revokeFamily", "revokeUser"}
  BY <1>0 DEF Scanning
<1>2. ScanKey(r) \in Users \cup Tokens
  BY <1>0, <1>1 DEF ScanKey, RequestInvariant, ContextMatches, HoldsAccount
<1>3. TypeOK'
  BY <1>0, <1>2 DEF TypeOK
<1>4. Frame(r)
  BY <1>0 DEF Frame, InRange, TypeOK
<1>5. RowInvariant'
  BY <1>0, LockingKeepsRows
<1>6. RequestInvariant(r)'
  BY <1>0, <1>1 DEF RequestInvariant, ContextMatches, HoldsToken, HoldsAccount,
                    CountersFit, RevokedRangeIsClosed, Mine
<1> QED
  BY <1>3, <1>4, <1>5, <1>6, StepKeepsInvariant

\* Choosing the family to evict keeps the invariant (get_oldest_active_family).
LEMMA PickOldestKeepsInvariant ==
  ASSUME SessionInvariant, NEW r \in Requests, PickOldest(r)
  PROVE  SessionInvariant'
<1>0. /\ TypeOK /\ RowInvariant /\ RequestInvariant(r) /\ pc[r] = "pickOldest"
      /\ UNCHANGED <<now, account, db, work, owner, gap>>
  BY DEF SessionInvariant, PickOldest
<1>1. PICK old \in Context : old = ctx[r]
  BY <1>0 DEF TypeOK
<1>2. /\ old.op = "login" /\ old.reason \in Closing /\ old.user \in Users
      /\ Mine(r, old.user) /\ account[old.user].password = old.password
      /\ old.excess > 0
  BY <1>0, <1>1 DEF RequestInvariant, ContextMatches, HoldsAccount, CountersFit
<1>3. PICK next \in {"insert", "revokeFamily"}, f \in Tokens \cup {NoToken} :
         /\ pc' = [pc EXCEPT ![r] = next]
         /\ ctx' = [ctx EXCEPT ![r] = [old EXCEPT !.family = f]]
         /\ next = "revokeFamily" => f \in Tokens
  <2>1. CASE Candidates(r) = {}
    <3>1. pc' = [pc EXCEPT ![r] = "insert"] /\ ctx' = ctx
      BY <2>1 DEF PickOldest, Goto
    <3>2. old.family \in Tokens \cup {NoToken} /\ old = [old EXCEPT !.family = old.family]
      BY DEF Context
    <3>3. ctx' = [ctx EXCEPT ![r] = [old EXCEPT !.family = old.family]]
      BY <1>0, <1>1, <3>1, <3>2 DEF TypeOK
    <3> QED
      BY <3>1, <3>2, <3>3
  <2>2. CASE Candidates(r) # {}
    <3>1. PICK t \in Candidates(r) :
             /\ ctx' = [ctx EXCEPT ![r].family = work[t].family]
             /\ pc' = [pc EXCEPT ![r] = "revokeFamily"]
      BY <2>2 DEF PickOldest, Goto
    <3>2. work[t].family \in Tokens
      BY <1>0 DEF Candidates, RowInvariant, RowsAreWellFormed
    <3> QED
      BY <1>0, <1>1, <3>1, <3>2 DEF TypeOK
  <2> QED
    BY <2>1, <2>2
<1>4. PICK c \in Context : c = [old EXCEPT !.family = f]
  BY DEF Context
<1>5. /\ pc'[r] = next /\ ctx'[r] = c
      /\ c.op = "login" /\ c.family = f /\ c.reason \in Closing /\ c.user = old.user
      /\ c.password = old.password /\ c.excess = old.excess
  BY <1>0, <1>1, <1>2, <1>3, <1>4 DEF TypeOK, Context
<1>6. TypeOK'
  BY <1>0, <1>3, <1>4 DEF TypeOK, Statements
<1>7. Frame(r)
  BY <1>0, <1>3 DEF Frame, InRange, TypeOK
<1>8. RowInvariant'
  BY <1>0, LockingKeepsRows
<1>9. RequestInvariant(r)'
  <2>1. ContextMatches(r)'
    BY <1>3, <1>5 DEF ContextMatches
  <2>2. HoldsAccount(r)'
    BY <1>0, <1>2, <1>3, <1>5 DEF HoldsAccount, Mine
  <2> QED
    BY <1>2, <1>3, <1>5, <2>1, <2>2
       DEF RequestInvariant, HoldsToken, CountersFit, RevokedRangeIsClosed
<1> QED
  BY <1>6, <1>7, <1>8, <1>9, StepKeepsInvariant

\* Revoking every live row of a range that r holds.
LEMMA RevokingARange ==
  ASSUME SessionInvariant, NEW r \in Requests, NEW k \in Users \cup Tokens,
         \A t \in RowsIn(k) : Mine(r, t),
         NEW reason \in Closing, NEW rows \in SUBSET RowsIn(k),
         \A t \in RowsIn(k) : work[t].status = "live" => t \in rows,
         Revoke(rows, reason),
         account' = account, db' = db, owner' = owner
  PROVE  /\ work' \in [Tokens -> Row]
         /\ RowInvariant'
         /\ \A t \in Tokens : owner[t] # r => work'[t] = work[t]
         /\ \A t \in Tokens : \A j : InRange(t, j)' => InRange(t, j)
         /\ \A t \in RowsIn(k)' : Mine(r, t)' /\ work'[t].status # "live"
<1>0. /\ TypeOK /\ RowInvariant /\ rows \subseteq Tokens /\ r # NoRequest
      /\ work' = [t \in Tokens |->
                     IF t \in rows THEN [work[t] EXCEPT !.status = reason] ELSE work[t]]
  BY NamesAreDistinct DEF SessionInvariant, Revoke, RowsIn
<1>1. work' \in [Tokens -> Row]
  <2>1. ASSUME NEW row \in Row PROVE [row EXCEPT !.status = reason] \in Row
    BY DEF Row, Revoked
  <2> QED
    BY <1>0, <2>1 DEF TypeOK
<1>2. \A t \in Tokens :
         /\ t \in rows => owner[t] = r /\ work[t].status # "absent"
                           /\ work'[t].status = reason
         /\ t \notin rows => work'[t] = work[t]
         /\ work'[t].user = work[t].user /\ work'[t].family = work[t].family
         /\ work'[t].password = work[t].password
  BY <1>0 DEF TypeOK, Row, RowsIn, InRange, Mine
<1>3. reason # "absent" /\ reason # "live"
  BY DEF Closing
<1>4. RowsAreWellFormed'
  BY <1>0, <1>2, <1>3 DEF RowInvariant, RowsAreWellFormed
<1>5. WritesAreLocked'
  BY <1>0, <1>2, <1>3 DEF RowInvariant, WritesAreLocked
<1>6. PasswordsAreCurrent'
  BY <1>0, <1>2, <1>3 DEF RowInvariant, PasswordsAreCurrent
<1>7. \A s, t \in Tokens : s \in rows /\ work[t].status # "absent"
           /\ work[t].family = work[s].family => t \in RowsIn(k)
  <2> SUFFICES ASSUME NEW s \in rows, NEW t \in Tokens, work[t].status # "absent",
                      work[t].family = work[s].family
               PROVE  k \in {work[t].user, work[t].family}
    BY <1>0 DEF RowsIn, InRange
  <2>1. s \in Tokens /\ work[s].status # "absent" /\ k \in {work[s].user, work[s].family}
    BY <1>0 DEF RowsIn, InRange
  <2>2. work[t].user = work[work[t].family].user /\ work[s].user = work[work[s].family].user
    BY <1>0, <2>1 DEF RowInvariant, RowsAreWellFormed
  <2> QED
    BY <2>1, <2>2
<1>8. FamiliesAreConsistent'
  <2> SUFFICES ASSUME NEW s \in Tokens, NEW t \in Tokens, s # t
               PROVE  /\ Compatible(db'[s], db'[t]) /\ Compatible(work'[s], work'[t])
                      /\ owner'[s] # owner'[t] \/ owner'[s] = NoRequest =>
                            Compatible(db'[s], work'[t])
    BY DEF FamiliesAreConsistent, Compatible
  <2>1. /\ Compatible(db[s], db[t]) /\ Compatible(work[s], work[t])
        /\ owner[s] # owner[t] \/ owner[s] = NoRequest => Compatible(db[s], work[t])
    BY <1>0 DEF RowInvariant, FamiliesAreConsistent
  <2>2. Compatible(work'[s], work'[t])
    BY <1>2, <1>3, <1>7, <2>1 DEF Compatible
  <2>3. ASSUME owner[s] # owner[t] \/ owner[s] = NoRequest PROVE Compatible(db[s], work'[t])
    <3>1. CASE t \notin rows
      BY <1>2, <2>1, <2>3, <3>1
    <3>2. CASE t \in rows
      <4>1. owner[t] = r /\ owner[s] # r /\ s \notin RowsIn(k)
        BY <1>0, <1>2, <2>3, <3>2 DEF Mine
      <4>2. work[s].status # "absent" => work[s].family # work[t].family
        BY <1>7, <3>2, <4>1
      <4>3. db[s].status # "absent" => db[s].family # work'[t].family
        BY <1>0, <1>2, <4>2 DEF RowInvariant, RowsAreWellFormed
      <4> QED
        BY <4>3 DEF Compatible
    <3> QED
      BY <3>1, <3>2
  <2> QED
    BY <2>1, <2>2, <2>3
<1>9. \A t \in Tokens : \A j : InRange(t, j)' => InRange(t, j)
  BY <1>2 DEF InRange
<1>10. \A t \in RowsIn(k)' : Mine(r, t)' /\ work'[t].status # "live"
  BY <1>2, <1>3, <1>9 DEF RowsIn, Mine
<1> QED
  BY <1>1, <1>2, <1>4, <1>5, <1>6, <1>8, <1>9, <1>10 DEF RowInvariant

\* Revoking a scanned family keeps the invariant (revoke_family).
LEMMA RevokeFamilyKeepsInvariant ==
  ASSUME SessionInvariant, NEW r \in Requests, RevokeFamily(r)
  PROVE  SessionInvariant'
<1>0. /\ TypeOK /\ RequestInvariant(r) /\ pc[r] = "revokeFamily" /\ Scanned(r)
      /\ Revoke(Revocable(r), ctx[r].reason)
      /\ now' = now /\ account' = account /\ db' = db /\ owner' = owner /\ gap' = gap
  BY DEF SessionInvariant, RevokeFamily
<1>1. PICK old \in Context, k \in Tokens, reason \in Closing :
         old = ctx[r] /\ k = ctx[r].family /\ reason = ctx[r].reason
  BY <1>0 DEF TypeOK, RequestInvariant, ContextMatches
<1>2. PICK next \in {"pickOldest", "insert", "commit"}, c \in Context :
         /\ pc' = [pc EXCEPT ![r] = next] /\ ctx' = [ctx EXCEPT ![r] = c]
         /\ next = "commit" => old.op # "login" /\ c = old
         /\ next # "commit" =>
              /\ old.op = "login" /\ c.op = "login" /\ c.user = old.user
              /\ c.password = old.password /\ c.reason = reason
         /\ next = "pickOldest" => c.excess > 0
  <2>1. CASE old.op # "login"
    BY <1>0, <1>1, <2>1 DEF RevokeFamily, Goto, TypeOK
  <2>2. CASE old.op = "login"
    <3>1. old.excess > 0 /\ old.excess \in Nat
      BY <1>0, <1>1, <2>2 DEF RequestInvariant, CountersFit, Context
    <3>2. PICK c : c = [old EXCEPT !.excess = old.excess - 1]
      OBVIOUS
    <3>3. /\ c \in Context /\ c.op = "login" /\ c.user = old.user
          /\ c.password = old.password /\ c.reason = reason /\ c.excess = old.excess - 1
      BY <1>1, <2>2, <3>1, <3>2 DEF Context
    <3>4. ctx' = [ctx EXCEPT ![r] = c]
      BY <1>0, <1>1, <2>2, <3>2 DEF RevokeFamily, TypeOK, Context
    <3>5. PICK next : next = IF old.excess > 1 THEN "pickOldest" ELSE "insert"
      OBVIOUS
    <3>6. pc' = [pc EXCEPT ![r] = next]
      BY <1>1, <2>2, <3>5 DEF RevokeFamily, Goto
    <3>7. /\ next \in {"pickOldest", "insert", "commit"} /\ next # "commit"
          /\ next = "pickOldest" => c.excess > 0
      BY <3>1, <3>3, <3>5
    <3> QED
      BY <2>2, <3>3, <3>4, <3>6, <3>7
  <2> QED
    BY <2>1, <2>2
<1>3. /\ work' \in [Tokens -> Row]
      /\ RowInvariant'
      /\ \A t \in Tokens : owner[t] # r => work'[t] = work[t]
      /\ \A t \in Tokens : \A j : InRange(t, j)' => InRange(t, j)
      /\ \A t \in RowsIn(k)' : Mine(r, t)' /\ work'[t].status # "live"
  <2>1. PICK rows : rows = Revocable(r)
    OBVIOUS
  <2>2. /\ ScanKey(r) = k /\ k \in Users \cup Tokens /\ rows \in SUBSET RowsIn(k)
        /\ \A t \in RowsIn(k) : Mine(r, t)
        /\ \A t \in RowsIn(k) : work[t].status = "live" => t \in rows
    BY <1>0, <1>1, <2>1 DEF ScanKey, Scanned, Revocable
  <2>3. Revoke(rows, reason) /\ account' = account /\ db' = db /\ owner' = owner
    BY <1>0, <1>1, <2>1
  <2> QED
    BY <2>2, <2>3, RevokingARange
<1>4. TypeOK'
  BY <1>0, <1>2, <1>3 DEF TypeOK, Statements
<1>5. Frame(r)
  BY <1>0, <1>2, <1>3 DEF Frame, TypeOK, Mine
<1>6. RequestInvariant(r)'
  <2>1. pc'[r] = next /\ ctx'[r] = c
    BY <1>0, <1>2 DEF TypeOK
  <2>2. ContextMatches(r)'
    BY <1>0, <1>1, <1>2, <2>1 DEF ContextMatches, RequestInvariant
  <2>3. HoldsAccount(r)'
    <3>1. CASE next = "commit"
      <4>1. c.op \in {"refresh", "logout"}
        BY <1>0, <1>1, <1>2, <3>1 DEF RequestInvariant, ContextMatches
      <4> QED
        BY <2>1, <3>1, <4>1 DEF HoldsAccount
    <3>2. CASE next # "commit"
      <4>1. /\ old.user \in Users /\ Mine(r, old.user)
            /\ account[old.user].password = old.password
        BY <1>0, <1>1, <1>2, <3>2 DEF RequestInvariant, HoldsAccount
      <4> QED
        BY <1>0, <1>2, <2>1, <3>2, <4>1 DEF HoldsAccount, Mine
    <3> QED
      BY <3>1, <3>2
  <2>4. RevokedRangeIsClosed(r)'
    <3>1. k \in gap'[r]
      BY <1>0, <1>1 DEF Scanned, ScanKey
    <3>2. ClosedRange(r, k)'
      BY <1>3, <3>1 DEF ClosedRange
    <3> QED
      BY <1>0, <1>1, <1>2, <2>1, <3>2
         DEF RevokedRangeIsClosed, RequestInvariant, ContextMatches
  <2> QED
    BY <1>0, <1>1, <1>2, <2>1, <2>2, <2>3, <2>4
       DEF RequestInvariant, ContextMatches, HoldsToken, CountersFit
<1> QED
  BY <1>3, <1>4, <1>5, <1>6, StepKeepsInvariant

\* Revoking a scanned account keeps the invariant (revoke_all_for_user).
LEMMA RevokeUserKeepsInvariant ==
  ASSUME SessionInvariant, NEW r \in Requests, RevokeUser(r)
  PROVE  SessionInvariant'
<1>0. /\ TypeOK /\ RequestInvariant(r) /\ pc[r] = "revokeUser" /\ Scanned(r)
      /\ Revoke(Revocable(r), ctx[r].reason)
      /\ pc' = [pc EXCEPT ![r] = "commit"] /\ ctx' = ctx
      /\ now' = now /\ account' = account /\ db' = db /\ owner' = owner /\ gap' = gap
  BY DEF SessionInvariant, RevokeUser, Goto
<1>1. PICK k \in Users, reason \in Closing :
         k = ctx[r].user /\ reason = ctx[r].reason
  BY <1>0 DEF RequestInvariant, ContextMatches, Closing
<1>2. ctx[r].op \in AccountWide
  BY <1>0 DEF RequestInvariant, ContextMatches
<1>3. /\ work' \in [Tokens -> Row]
      /\ RowInvariant'
      /\ \A t \in Tokens : owner[t] # r => work'[t] = work[t]
      /\ \A t \in Tokens : \A j : InRange(t, j)' => InRange(t, j)
      /\ \A t \in RowsIn(k)' : Mine(r, t)' /\ work'[t].status # "live"
  <2>1. PICK rows : rows = Revocable(r)
    OBVIOUS
  <2>2. /\ ScanKey(r) = k /\ k \in Users \cup Tokens /\ rows \in SUBSET RowsIn(k)
        /\ \A t \in RowsIn(k) : Mine(r, t)
        /\ \A t \in RowsIn(k) : work[t].status = "live" => t \in rows
    BY <1>0, <1>1, <2>1 DEF ScanKey, Scanned, Revocable
  <2>3. Revoke(rows, reason) /\ account' = account /\ db' = db /\ owner' = owner
    BY <1>0, <1>1, <2>1
  <2> QED
    BY <2>2, <2>3, RevokingARange
<1>4. TypeOK'
  BY <1>0, <1>3 DEF TypeOK, Statements
<1>5. Frame(r)
  BY <1>0, <1>3 DEF Frame, TypeOK, Mine
<1>6. RequestInvariant(r)'
  <2>1. pc'[r] = "commit" /\ ctx'[r] = ctx[r]
    BY <1>0 DEF TypeOK
  <2>2. ContextMatches(r)'
    BY <1>0, <1>1, <1>2, <2>1 DEF ContextMatches
  <2>3. HoldsAccount(r)'
    BY <1>0, <2>1 DEF HoldsAccount, RequestInvariant, Mine
  <2>4. k \in gap'[r]
    BY <1>0, <1>1 DEF Scanned, ScanKey
  <2>5. ClosedRange(r, k)'
    BY <1>3, <2>4 DEF ClosedRange
  <2> QED
    BY <1>0, <1>1, <1>2, <2>1, <2>2, <2>3, <2>5
       DEF RequestInvariant, HoldsToken, CountersFit, RevokedRangeIsClosed
<1> QED
  BY <1>3, <1>4, <1>5, <1>6, StepKeepsInvariant

-----------------------------------------------------------------------------
\* Inserts and commits.

\* A login's new family keeps the invariant (create_login_session).
LEMMA OpenFamilyKeepsInvariant ==
  ASSUME SessionInvariant, NEW r \in Requests, OpenFamily(r)
  PROVE  SessionInvariant'
<1>0. /\ TypeOK /\ RowInvariant /\ RequestInvariant(r)
      /\ pc[r] = "insert" /\ ctx[r].op = "login" /\ GapsOpen(r) /\ r # NoRequest
      /\ pc' = [pc EXCEPT ![r] = "commit"]
      /\ now' = now /\ account' = account /\ db' = db /\ gap' = gap /\ ctx' = ctx
  BY NamesAreDistinct DEF SessionInvariant, OpenFamily, Goto
<1>1. PICK u \in Users, at \in Time, p \in Passwords :
         u = ctx[r].user /\ at = ctx[r].at /\ p = ctx[r].password
  BY <1>0 DEF TypeOK, Context, RequestInvariant, HoldsAccount
<1>2. Mine(r, u) /\ account[u].password = p
  BY <1>0, <1>1 DEF RequestInvariant, HoldsAccount
<1>a. PICK t \in Tokens :
         /\ work[t].status = "absent"
         /\ owner' = [owner EXCEPT ![t] = r]
         /\ work' = [work EXCEPT ![t] = NewRow(u, t, at, at + AbsoluteLifetime, p)]
  BY <1>1 DEF OpenFamily, Fresh, Take
<1>3. PICK row :
         /\ work[t].status = "absent"
         /\ row = NewRow(u, t, at, at + AbsoluteLifetime, p)
         /\ owner' = [owner EXCEPT ![t] = r]
         /\ work' = [work EXCEPT ![t] = row]
  BY <1>a
<1>4. row \in Row
  <2>1. at + AbsoluteLifetime \in Horizon /\ now \in Time
    BY <1>0, ConfigurationIsValid DEF TypeOK, Time, Horizon
  <2>2. u \in Users \cup {NoUser} /\ t \in Tokens \cup {NoToken}
    OBVIOUS
  <2> QED
    BY <1>3, <2>1, <2>2, NewRowType
<1>5. row.status = "live" /\ row.user = u /\ row.family = t /\ row.password = p
  BY <1>3 DEF NewRow, Blank
<1>6. /\ db[t].status = "absent" /\ owner[t] = NoRequest
      /\ \A s \in Tokens : s # t =>
           /\ db[s].status # "absent" => db[s].family # t
           /\ work[s].status # "absent" => work[s].family # t
  BY <1>0, <1>3 DEF RowInvariant, RowsAreWellFormed, WritesAreLocked
<1>7. work'[t] = row /\ owner'[t] = r /\ \A s \in Tokens : s # t =>
         work'[s] = work[s] /\ owner'[s] = owner[s]
  BY <1>0, <1>3 DEF TypeOK
<1>8. TypeOK'
  BY <1>0, <1>3, <1>4 DEF TypeOK, Statements
<1>9. Frame(r)
  <2>1. ASSUME NEW q \in Requests \ {r}, NEW k \in gap[q], NEW s \in Tokens,
               Anchored(k), InRange(s, k)'
        PROVE  InRange(s, k)
    <3>1. CASE s # t
      BY <1>7, <2>1, <3>1 DEF InRange
    <3>2. CASE s = t
      <4>1. k \in {u, t}
        BY <1>5, <1>7, <2>1, <3>2 DEF InRange
      <4>2. k # u
        BY <1>0, <1>1, <2>1 DEF GapsOpen, InsertKeys
      <4>3. k # t
        BY <1>6, <2>1, NamesAreDistinct DEF Anchored
      <4> QED
        BY <4>1, <4>2, <4>3
    <3> QED
      BY <3>1, <3>2
  <2>2. \A q \in Requests \ {r}, k \in Users \cup Tokens : owner'[k] = q <=> owner[k] = q
    BY <1>0, <1>3, <1>6, NamesAreDistinct DEF TypeOK
  <2>3. \A q \in Requests \ {r}, s \in Tokens : Mine(q, s) => work'[s] = work[s]
    BY <1>6, <1>7, NamesAreDistinct DEF Mine
  <2> QED
    BY <1>0, <2>1, <2>2, <2>3 DEF Frame, TypeOK
<1>10. RowInvariant'
  <2>1. RowsAreWellFormed'
    BY <1>0, <1>5, <1>6, <1>7 DEF RowInvariant, RowsAreWellFormed
  <2>2. WritesAreLocked'
    BY <1>0, <1>5, <1>7 DEF RowInvariant, WritesAreLocked
  <2>3. FamiliesAreConsistent'
    <3> SUFFICES ASSUME NEW s \in Tokens, NEW x \in Tokens, s # x
               PROVE  /\ Compatible(db'[s], db'[x]) /\ Compatible(work'[s], work'[x])
                      /\ owner'[s] # owner'[x] \/ owner'[s] = NoRequest =>
                            Compatible(db'[s], work'[x])
      BY DEF FamiliesAreConsistent, Compatible
    <3>1. /\ Compatible(db[s], db[x]) /\ Compatible(work[s], work[x])
          /\ owner[s] # owner[x] \/ owner[s] = NoRequest => Compatible(db[s], work[x])
      BY <1>0 DEF RowInvariant, FamiliesAreConsistent
    <3>2. CASE s # t /\ x # t
      BY <1>0, <1>7, <3>1, <3>2
    <3>3. CASE s = t
      BY <1>0, <1>5, <1>6, <1>7, <3>1, <3>3 DEF Compatible
    <3>4. CASE x = t
      BY <1>0, <1>5, <1>6, <1>7, <3>1, <3>4 DEF Compatible
    <3> QED
      BY <3>2, <3>3, <3>4
  <2>4. PasswordsAreCurrent'
    BY <1>0, <1>2, <1>5, <1>7 DEF RowInvariant, PasswordsAreCurrent
  <2> QED
    BY <2>1, <2>2, <2>3, <2>4 DEF RowInvariant
<1>11. RequestInvariant(r)'
  <2>1. pc'[r] = "commit" /\ ctx'[r] = ctx[r]
    BY <1>0 DEF TypeOK
  <2> QED
    BY <1>0, <2>1 DEF RequestInvariant, ContextMatches, HoldsToken, HoldsAccount,
                      CountersFit, RevokedRangeIsClosed
<1> QED
  BY <1>8, <1>9, <1>10, <1>11, StepKeepsInvariant

\* A child and the mark on its parent keep the invariant (rotate_session).
LEMMA RotateKeepsInvariant ==
  ASSUME SessionInvariant, NEW r \in Requests, Rotate(r)
  PROVE  SessionInvariant'
<1>0. /\ TypeOK /\ RowInvariant /\ RequestInvariant(r)
      /\ pc[r] = "insert" /\ ctx[r].op = "refresh" /\ GapsOpen(r) /\ r # NoRequest
      /\ pc' = [pc EXCEPT ![r] = "commit"]
      /\ now' = now /\ account' = account /\ db' = db /\ gap' = gap /\ ctx' = ctx
  BY NamesAreDistinct DEF SessionInvariant, Rotate, Goto
<1>1. PICK p \in Tokens, at \in Time, old \in Row :
         p = ctx[r].token /\ at = ctx[r].at /\ old = work[p]
  BY <1>0 DEF TypeOK, Context, RequestInvariant, HoldsToken
<1>2. /\ owner[p] = r /\ db[p] = old /\ old.status = "live"
      /\ ctx[r].user = old.user /\ ctx[r].family = old.family /\ ctx[r].reason = "none"
      /\ old.user \in Users /\ old.family \in Tokens /\ db[old.family].status # "absent"
      /\ work[old.family].user = old.user
      /\ old.password = account[old.user].password
  <2>1. /\ owner[p] = r /\ db[p] = old /\ old.status = "live"
        /\ ctx[r].user = old.user /\ ctx[r].family = old.family /\ ctx[r].reason = "none"
    BY <1>0, <1>1 DEF RequestInvariant, HoldsToken, Mine
  <2> QED
    BY <1>0, <1>1, <2>1 DEF RowInvariant, RowsAreWellFormed, PasswordsAreCurrent
<1>a. PICK t \in Tokens :
         /\ work[t].status = "absent"
         /\ owner' = [owner EXCEPT ![t] = r]
         /\ work' = [work EXCEPT
              ![t] = NewRow(old.user, old.family, at, old.familyExpires, old.password),
              ![p].status = "rotated", ![p].replacedBy = t]
  BY <1>1 DEF Rotate, Fresh, Take
<1>b. PICK row, gone :
         /\ row = NewRow(old.user, old.family, at, old.familyExpires, old.password)
         /\ gone = [old EXCEPT !.status = "rotated", !.replacedBy = t]
  OBVIOUS
<1>3. /\ work[t].status = "absent"
      /\ row = NewRow(old.user, old.family, at, old.familyExpires, old.password)
      /\ gone = [old EXCEPT !.status = "rotated", !.replacedBy = t]
      /\ owner' = [owner EXCEPT ![t] = r]
      /\ t # p => work' = [work EXCEPT ![t] = row, ![p] = gone]
  <2>1. t # p => work' = [work EXCEPT ![t] = row, ![p] = gone]
    BY <1>0, <1>1, <1>a, <1>b DEF TypeOK, Row
  <2> QED
    BY <1>a, <1>b, <2>1
<1>4. row \in Row /\ gone \in Row
  <2>1. /\ now \in Time /\ old.familyExpires \in Horizon /\ old.password \in Passwords
        /\ old.user \in Users \cup {NoUser} /\ old.family \in Tokens \cup {NoToken}
    BY <1>0 DEF TypeOK, Row
  <2>2. row \in Row
    BY <1>3, <2>1, NewRowType
  <2> QED
    BY <1>3, <2>2 DEF Row, Revoked
<1>5. /\ row.status = "live" /\ row.user = old.user /\ row.family = old.family
      /\ row.password = old.password
      /\ gone.status = "rotated" /\ gone.user = old.user /\ gone.family = old.family
  BY <1>3 DEF NewRow, Blank, Row
<1>6. db[t].status = "absent" /\ owner[t] = NoRequest /\ t # p /\ t # old.family
  BY <1>0, <1>1, <1>2, <1>3 DEF RowInvariant, RowsAreWellFormed, WritesAreLocked
<1>7. /\ work'[t] = row /\ work'[p] = gone /\ owner'[t] = r /\ owner'[p] = r
      /\ \A s \in Tokens : s # t => owner'[s] = owner[s]
      /\ \A s \in Tokens : s # t /\ s # p => work'[s] = work[s]
  BY <1>0, <1>2, <1>3, <1>6 DEF TypeOK
<1>8. TypeOK'
  BY <1>0, <1>3, <1>4, <1>6 DEF TypeOK, Statements
<1>9. Frame(r)
  <2>1. ASSUME NEW q \in Requests \ {r}, NEW k \in gap[q], NEW s \in Tokens,
               InRange(s, k)'
        PROVE  InRange(s, k)
    <3>1. CASE s # t /\ s # p
      BY <1>7, <2>1, <3>1 DEF InRange
    <3>2. CASE s = t
      <4>1. k \in {old.user, old.family}
        BY <1>5, <1>7, <2>1, <3>2 DEF InRange
      <4> QED
        BY <1>0, <1>2, <2>1, <4>1 DEF GapsOpen, InsertKeys
    <3>3. CASE s = p
      BY <1>1, <1>2, <1>5, <1>7, <2>1, <3>3 DEF InRange
    <3> QED
      BY <3>1, <3>2, <3>3
  <2>2. \A q \in Requests \ {r}, k \in Users \cup Tokens : owner'[k] = q <=> owner[k] = q
    BY <1>0, <1>3, <1>6, NamesAreDistinct DEF TypeOK
  <2>3. \A q \in Requests \ {r}, s \in Tokens : Mine(q, s) => work'[s] = work[s]
    BY <1>2, <1>6, <1>7, NamesAreDistinct DEF Mine
  <2> QED
    BY <1>0, <2>1, <2>2, <2>3 DEF Frame, TypeOK
<1>10. RowInvariant'
  <2>1. RowsAreWellFormed'
    BY <1>0, <1>1, <1>2, <1>5, <1>6, <1>7 DEF RowInvariant, RowsAreWellFormed
  <2>2. WritesAreLocked'
    BY <1>0, <1>5, <1>7 DEF RowInvariant, WritesAreLocked
  <2>3. FamiliesAreConsistent'
    <3> SUFFICES ASSUME NEW s \in Tokens, NEW x \in Tokens, s # x
               PROVE  /\ Compatible(db'[s], db'[x]) /\ Compatible(work'[s], work'[x])
                      /\ owner'[s] # owner'[x] \/ owner'[s] = NoRequest =>
                            Compatible(db'[s], work'[x])
      BY DEF FamiliesAreConsistent, Compatible
    <3>1. /\ Compatible(db[s], db[x]) /\ Compatible(work[s], work[x])
          /\ owner[s] # owner[x] \/ owner[s] = NoRequest => Compatible(db[s], work[x])
      BY <1>0 DEF RowInvariant, FamiliesAreConsistent
    <3>2. ASSUME NEW y \in Tokens, y # p
          PROVE  /\ Compatible(row, work[y]) /\ Compatible(work[y], row)
                 /\ Compatible(row, db[y]) /\ Compatible(db[y], row)
      BY <1>0, <1>1, <1>2, <1>5, <3>2
         DEF RowInvariant, FamiliesAreConsistent, Compatible
    <3>4. \A a : Compatible(gone, a) /\ Compatible(a, gone)
      BY <1>5 DEF Compatible, Closing
    <3>5. CASE s \notin {t, p} /\ x \notin {t, p}
      BY <1>0, <1>7, <3>1, <3>5
    <3>6. CASE s = p \/ x = p
      BY <1>0, <1>1, <1>2, <1>6, <1>7, <3>1, <3>4, <3>6 DEF Compatible
    <3>7. CASE (s = t \/ x = t) /\ s # p /\ x # p
      BY <1>0, <1>6, <1>7, <3>1, <3>2, <3>7 DEF Compatible
    <3> QED
      BY <3>5, <3>6, <3>7
  <2>4. PasswordsAreCurrent'
    BY <1>0, <1>2, <1>5, <1>7 DEF RowInvariant, PasswordsAreCurrent
  <2> QED
    BY <2>1, <2>2, <2>3, <2>4 DEF RowInvariant
<1>11. RequestInvariant(r)'
  <2>1. pc'[r] = "commit" /\ ctx'[r] = ctx[r]
    BY <1>0 DEF TypeOK
  <2> QED
    BY <1>0, <1>2, <2>1 DEF RequestInvariant, ContextMatches, HoldsToken, HoldsAccount,
                            CountersFit, RevokedRangeIsClosed
<1> QED
  BY <1>8, <1>9, <1>10, <1>11, StepKeepsInvariant

\* A commit; it changes a password only where no row outlives the change.
LEMMA CommittingRows ==
  ASSUME SessionInvariant, NEW r \in Requests, r # NoRequest, now' = now, work' = work,
         db' = [t \in Tokens |-> IF Mine(r, t) THEN work[t] ELSE db[t]],
         owner' = [k \in DOMAIN owner |-> IF Mine(r, k) THEN NoRequest ELSE owner[k]],
         gap' = [gap EXCEPT ![r] = {}],
         pc' = [pc EXCEPT ![r] = "idle"],
         ctx' = [ctx EXCEPT ![r] = NoContext],
         account' \in [Users -> [active: BOOLEAN, password: Passwords]],
         \A v \in Users : account'[v].password = account[v].password \/
            /\ Mine(r, v)
            /\ \A t \in Tokens : InRange(t, v) => Mine(r, t) /\ work[t].status # "live"
  PROVE  SessionInvariant'
<1>0. TypeOK /\ RowInvariant /\ DOMAIN owner = Users \cup Tokens
  BY DEF SessionInvariant, TypeOK
<1>1. \A t \in Tokens : /\ owner[t] = r => db'[t] = work[t] /\ owner'[t] = NoRequest
                        /\ owner[t] # r => db'[t] = db[t] /\ owner'[t] = owner[t]
  BY <1>0 DEF Mine
<1>2. TypeOK'
  BY <1>0, NoContextType DEF TypeOK, Statements
<1>3. Frame(r)
  <2>1. \A q \in Requests \ {r} : \A k \in Users \cup Tokens : owner'[k] = q <=> owner[k] = q
    BY <1>0, NamesAreDistinct DEF Mine
  <2>2. \A t \in Tokens : db[t].status # "absent" => db'[t].status # "absent"
    BY <1>0, <1>1 DEF RowInvariant, RowsAreWellFormed
  <2> QED
    BY <1>0, <1>1, <2>1, <2>2 DEF Frame, Mine, TypeOK, InRange
<1>4. RowsAreWellFormed'
  BY <1>0, <1>1 DEF RowInvariant, RowsAreWellFormed
<1>5. WritesAreLocked'
  BY <1>0, <1>1 DEF RowInvariant, WritesAreLocked
<1>6. FamiliesAreConsistent'
  <2> SUFFICES ASSUME NEW s \in Tokens, NEW t \in Tokens, s # t
             PROVE  /\ Compatible(db'[s], db'[t]) /\ Compatible(work'[s], work'[t])
                    /\ owner'[s] # owner'[t] \/ owner'[s] = NoRequest =>
                          Compatible(db'[s], work'[t])
    BY DEF FamiliesAreConsistent, Compatible
  <2>1. /\ Compatible(db[s], db[t]) /\ Compatible(work[s], work[t])
        /\ owner[s] # owner[t] \/ owner[s] = NoRequest =>
              Compatible(db[s], work[t]) /\ Compatible(db[t], work[s])
    BY <1>0 DEF RowInvariant, FamiliesAreConsistent
  <2>2. \A a, b : Compatible(a, b) => Compatible(b, a)
    BY DEF Compatible
  <2>3. Compatible(db'[s], db'[t])
    BY <1>1, <2>1, <2>2
  <2>4. owner'[s] # owner'[t] \/ owner'[s] = NoRequest => Compatible(db'[s], work[t])
    BY <1>1, <2>1
  <2> QED
    BY <2>1, <2>3, <2>4
<1>7. PasswordsAreCurrent'
  <2>1. ASSUME NEW t \in Tokens, work[t].status = "live"
        PROVE  work[t].password = account'[work[t].user].password
    BY <1>0, <2>1 DEF RowInvariant, RowsAreWellFormed, PasswordsAreCurrent, InRange
  <2>2. ASSUME NEW t \in Tokens, db'[t].status = "live"
        PROVE  db'[t].password = account'[db'[t].user].password
    <3>1. CASE owner[t] = r
      BY <1>1, <2>1, <2>2, <3>1
    <3>2. CASE owner[t] # r
      <4>1. /\ db[t].status = "live" /\ db[t].user \in Users /\ InRange(t, db[t].user)
            /\ db[t].password = account[db[t].user].password
        BY <1>0, <1>1, <2>2, <3>2
           DEF RowInvariant, RowsAreWellFormed, PasswordsAreCurrent, InRange
      <4> QED
        BY <1>1, <3>2, <4>1 DEF Mine
    <3> QED
      BY <3>1, <3>2
  <2> QED
    BY <2>1, <2>2 DEF PasswordsAreCurrent
<1>8. RequestInvariant(r)'
  <2>1. pc'[r] = "idle" /\ ctx'[r] = NoContext
    BY <1>0 DEF TypeOK
  <2>2. \A k \in Users \cup Tokens : ~Mine(r, k)'
    BY <1>0 DEF Mine
  <2>3. ContextMatches(r)'
    BY <2>1, <2>2 DEF ContextMatches
  <2> QED
    BY <2>1, <2>3 DEF RequestInvariant, HoldsToken, HoldsAccount, CountersFit,
                      RevokedRangeIsClosed, NoContext
<1> QED
  BY <1>2, <1>3, <1>4, <1>5, <1>6, <1>7, <1>8, StepKeepsInvariant DEF RowInvariant

\* Publishing a transaction's rows and password keeps the invariant (commit_request_transaction).
LEMMA CommitKeepsInvariant ==
  ASSUME SessionInvariant, NEW r \in Requests, Commit(r)
  PROVE  SessionInvariant'
<1>0. /\ TypeOK /\ RowInvariant /\ RequestInvariant(r)
      /\ pc[r] = "commit" /\ r # NoRequest
      /\ now' = now /\ work' = work
      /\ db' = [t \in Tokens |-> IF Mine(r, t) THEN work[t] ELSE db[t]]
      /\ owner' = [k \in DOMAIN owner |-> IF Mine(r, k) THEN NoRequest ELSE owner[k]]
      /\ gap' = [gap EXCEPT ![r] = {}]
      /\ pc' = [pc EXCEPT ![r] = "idle"]
      /\ ctx' = [ctx EXCEPT ![r] = NoContext]
      /\ DOMAIN owner = Users \cup Tokens
  BY NamesAreDistinct DEF SessionInvariant, Commit, Release, TypeOK
<1>1. CASE ctx[r].op \notin PasswordOps
  <2>1. account' = account
    BY <1>1 DEF Commit
  <2>2. /\ account' \in [Users -> [active: BOOLEAN, password: Passwords]]
        /\ \A v \in Users : account'[v].password = account[v].password \/
              /\ Mine(r, v)
              /\ \A t \in Tokens : InRange(t, v) => Mine(r, t) /\ work[t].status # "live"
    BY <1>0, <2>1 DEF TypeOK
  <2> QED
    BY <1>0, <2>2, CommittingRows
<1>2. CASE ctx[r].op \in PasswordOps
  <2>1. PICK u \in Users : u = ctx[r].user
    BY <1>0, <1>2 DEF RequestInvariant, HoldsAccount
  <2>2. account' = [account EXCEPT ![u].password = @ + 1]
    BY <1>2, <2>1 DEF Commit
  <2>3. /\ Mine(r, u) /\ account[u].password = ctx[r].password
        /\ ctx[r].password < MaxPassword
    BY <1>0, <1>2, <2>1 DEF RequestInvariant, HoldsAccount, CountersFit
  <2>4. \A t \in Tokens : InRange(t, u) => Mine(r, t) /\ work[t].status # "live"
    BY <1>0, <1>2, <2>1 DEF RequestInvariant, RevokedRangeIsClosed, ClosedRange, RowsIn
  <2>5. account' \in [Users -> [active: BOOLEAN, password: Passwords]]
    <3>1. account[u] \in [active: BOOLEAN, password: Passwords]
      BY <1>0 DEF TypeOK
    <3>2. account[u].password + 1 \in Passwords
      BY <2>3, <3>1, ConfigurationIsValid DEF Passwords
    <3> QED
      BY <1>0, <2>2, <3>1, <3>2 DEF TypeOK
  <2>6. /\ account'[u].password = account[u].password + 1
        /\ \A v \in Users : v # u => account'[v] = account[v]
    BY <1>0, <2>2 DEF TypeOK
  <2>7. \A v \in Users : account'[v].password = account[v].password \/
          /\ Mine(r, v)
          /\ \A t \in Tokens : InRange(t, v) => Mine(r, t) /\ work[t].status # "live"
    BY <2>3, <2>4, <2>6
  <2> QED
    BY <1>0, <2>5, <2>7, CommittingRows
<1> QED
  BY <1>1, <1>2

-----------------------------------------------------------------------------
\* The environment, and every step together.

\* The clock and an administrator keep the invariant.
LEMMA OutsideKeepsInvariant ==
  ASSUME SessionInvariant, Tick \/ (\E u \in Users : ChangeStatus(u)) \/ UNCHANGED vars
  PROVE  SessionInvariant'
<1>0. TypeOK /\ RowInvariant
  BY DEF SessionInvariant
<1>1. /\ db' = db /\ work' = work /\ owner' = owner /\ gap' = gap
      /\ pc' = pc /\ ctx' = ctx
      /\ now' \in Time
      /\ account' \in [Users -> [active: BOOLEAN, password: Passwords]]
      /\ \A u \in Users : account'[u].password = account[u].password
  <2>1. CASE Tick
    BY <1>0, <2>1, ConfigurationIsValid DEF Tick, TypeOK, Time
  <2>2. CASE \E u \in Users : ChangeStatus(u)
    <3> PICK u \in Users : ChangeStatus(u)
      BY <2>2
    <3>1. account[u] \in [active: BOOLEAN, password: Passwords]
      BY <1>0 DEF TypeOK
    <3>a. PICK b \in BOOLEAN : b = ~account[u].active
      OBVIOUS
    <3>2. PICK row : row = [account[u] EXCEPT !.active = b]
      OBVIOUS
    <3>b. /\ row \in [active: BOOLEAN, password: Passwords]
          /\ row.password = account[u].password
      BY <3>1, <3>2
    <3>3. account' = [account EXCEPT ![u] = row]
      BY <3>a, <3>2 DEF ChangeStatus
    <3>4. /\ account' \in [Users -> [active: BOOLEAN, password: Passwords]]
          /\ \A v \in Users : account'[v].password = account[v].password
      BY <1>0, <3>b, <3>3 DEF TypeOK
    <3> QED
      BY <1>0, <3>4 DEF ChangeStatus, TypeOK
  <2>3. CASE UNCHANGED vars
    BY <1>0, <2>3 DEF vars, TypeOK
  <2> QED
    BY <2>1, <2>2, <2>3
<1>2. TypeOK'
  BY <1>0, <1>1 DEF TypeOK
<1>3. Frame(NoRequest)
  BY <1>1 DEF Frame, InRange
<1>4. RowInvariant'
  <2>1. RowsAreWellFormed' /\ WritesAreLocked' /\ FamiliesAreConsistent'
    BY <1>0, <1>1 DEF RowInvariant, RowsAreWellFormed, WritesAreLocked,
                      FamiliesAreConsistent, Compatible
  <2>2. PasswordsAreCurrent'
    BY <1>0, <1>1 DEF RowInvariant, RowsAreWellFormed, PasswordsAreCurrent
  <2> QED
    BY <2>1, <2>2 DEF RowInvariant
<1> QED
  BY <1>2, <1>3, <1>4, NamesAreDistinct, StepKeepsInvariant

\* Every step of every interleaving keeps the invariant.
THEOREM NextKeepsInvariant == SessionInvariant /\ [Next]_vars => SessionInvariant'
<1> SUFFICES ASSUME SessionInvariant, [Next]_vars PROVE SessionInvariant'
  OBVIOUS
<1>1. CASE Tick \/ (\E u \in Users : ChangeStatus(u)) \/ UNCHANGED vars
  BY <1>1, OutsideKeepsInvariant
<1>2. ASSUME NEW r \in Requests, Arrive(r) PROVE SessionInvariant'
  BY <1>2, ArriveKeepsInvariant
<1>3. ASSUME NEW r \in Requests, DeadlockVictim(r) \/ Abort(r) PROVE SessionInvariant'
  BY <1>3, RollbackKeepsInvariant DEF DeadlockVictim, Abort
<1>4. ASSUME NEW r \in Requests, Step(r) PROVE SessionInvariant'
  <2>1. CASE RejectCookie(r) \/ RejectCredentials(r)
    BY <2>1, RollbackKeepsInvariant DEF RejectCookie, RejectCredentials
  <2>2. CASE LockToken(r)
    BY <2>2, LockTokenKeepsInvariant
  <2>3. CASE RefreshLockUser(r)
    BY <2>3, RefreshLockUserKeepsInvariant
  <2>4. CASE LoginLockUser(r)
    BY <2>4, LoginLockUserKeepsInvariant
  <2>5. CASE ChangePasswordLockUser(r)
    BY <2>5, ChangePasswordLockUserKeepsInvariant
  <2>a. CASE ResetPasswordLockUser(r)
    BY <2>a, ResetPasswordLockUserKeepsInvariant
  <2>6. CASE LockRow(r)
    BY <2>6, LockRowKeepsInvariant
  <2>7. CASE LockGap(r)
    BY <2>7, LockGapKeepsInvariant
  <2>8. CASE PickOldest(r)
    BY <2>8, PickOldestKeepsInvariant
  <2>9. CASE RevokeFamily(r)
    BY <2>9, RevokeFamilyKeepsInvariant
  <2>10. CASE RevokeUser(r)
    BY <2>10, RevokeUserKeepsInvariant
  <2>11. CASE OpenFamily(r)
    BY <2>11, OpenFamilyKeepsInvariant
  <2>12. CASE Rotate(r)
    BY <2>12, RotateKeepsInvariant
  <2>13. CASE Commit(r)
    BY <2>13, CommitKeepsInvariant
  <2> QED
    BY <1>4, <2>1, <2>2, <2>3, <2>4, <2>5, <2>a, <2>6, <2>7, <2>8, <2>9, <2>10, <2>11,
       <2>12, <2>13 DEF Step
<1> QED
  BY <1>1, <1>2, <1>3, <1>4 DEF Next

\* The invariant holds in every reachable state, whatever the overlap.
THEOREM InvariantHolds == Spec => []SessionInvariant
  BY InitEstablishesInvariant, NextKeepsInvariant, PTL DEF Spec

-----------------------------------------------------------------------------
\* The properties it implies.

\* Every variable keeps its type.
THEOREM TypeCorrect == Spec => []TypeOK
<1>1. SessionInvariant => TypeOK
  BY DEF SessionInvariant
<1> QED
  BY <1>1, InvariantHolds, PTL

\* No two usable cookies of one family.
THEOREM FamiliesHaveOneLiveToken == Spec => []OneLiveTokenPerFamily
<1>1. SessionInvariant => OneLiveTokenPerFamily
  BY DEF SessionInvariant, RowInvariant, FamiliesAreConsistent, Compatible,
         OneLiveTokenPerFamily, Siblings, Live
<1> QED
  BY <1>1, InvariantHolds, PTL

\* No usable cookie in a family that was revoked.
THEOREM ClosedFamiliesStayClosed == Spec => []ClosedFamilyStaysClosed
<1>1. SessionInvariant => ClosedFamilyStaysClosed
  <2> SUFFICES ASSUME SessionInvariant, NEW s \in Tokens, NEW t \in Tokens,
                      Siblings(s, t), db[s].status \in Closing, Live(t)
               PROVE  FALSE
    BY DEF ClosedFamilyStaysClosed
  <2>1. s # t
    BY DEF Live, Closing
  <2> QED
    BY <2>1 DEF SessionInvariant, RowInvariant, FamiliesAreConsistent, Compatible,
                Siblings, Live
<1> QED
  BY <1>1, InvariantHolds, PTL

\* No usable session under a password that was replaced.
THEOREM SessionsFollowThePassword == Spec => []LiveSessionsHaveCurrentPassword
<1>1. SessionInvariant => LiveSessionsHaveCurrentPassword
  BY DEF SessionInvariant, RowInvariant, PasswordsAreCurrent,
         LiveSessionsHaveCurrentPassword, Live
<1> QED
  BY <1>1, InvariantHolds, PTL

\* logout_all and both password changes commit with every row of the account held.
THEOREM LogoutAllIsComplete == Spec => []LogoutAllCoversEverySession
<1>1. SessionInvariant => LogoutAllCoversEverySession
  BY DEF SessionInvariant, RequestInvariant, RevokedRangeIsClosed, ClosedRange,
         LogoutAllCoversEverySession
<1> QED
  BY <1>1, InvariantHolds, PTL

\* A refresh that is refused for the state of its family leaves it closed.
THEOREM RejectionsAreFinal == Spec => []RejectionClosesFamily
<1>1. SessionInvariant => RejectionClosesFamily
  BY DEF SessionInvariant, RequestInvariant, RevokedRangeIsClosed, ClosedRange,
         RejectionClosesFamily
<1> QED
  BY <1>1, InvariantHolds, PTL

-----------------------------------------------------------------------------
\* Revocations are final.

\* No transaction is about to undo a committed revocation.
RevocationsStand ==
    \A t \in Tokens : db[t].status \in Revoked =>
        /\ work[t].status \in {db[t].status, "reuse_detected"}
        /\ work[t].replacedBy = db[t].replacedBy

RevokedRowsStand ==
    \A t \in Tokens : db[t].status \in Revoked =>
        /\ db'[t].status \in {db[t].status, "reuse_detected"}
        /\ db'[t].replacedBy = db[t].replacedBy

\* A scan marks live rows, and others only for a reuse.
LEMMA RevokingKeepsRevocations ==
  ASSUME TypeOK, RevocationsStand, NEW r \in Requests,
         db' = db, Revoke(Revocable(r), ctx[r].reason)
  PROVE  RevocationsStand'
<1> SUFFICES ASSUME NEW t \in Tokens, db[t].status \in Revoked
             PROVE  /\ work'[t].status \in {db[t].status, "reuse_detected"}
                    /\ work'[t].replacedBy = db[t].replacedBy
  BY DEF RevocationsStand
<1>1. /\ work[t].status \in {db[t].status, "reuse_detected"}
      /\ work[t].replacedBy = db[t].replacedBy /\ work[t] \in Row
  BY DEF RevocationsStand, TypeOK
<1>2. work[t].status # "live"
  BY <1>1 DEF Revoked, Closing
<1>3. \/ work'[t] = work[t]
      \/ /\ ctx[r].reason = "reuse_detected"
         /\ work'[t] = [work[t] EXCEPT !.status = ctx[r].reason]
  BY <1>2 DEF Revoke, Revocable
<1> QED
  BY <1>1, <1>3 DEF Row

\* Every step keeps a committed revocation, and prepares nothing else.
LEMMA NextKeepsRevocations ==
  SessionInvariant /\ RevocationsStand /\ [Next]_vars => RevocationsStand' /\ RevokedRowsStand
<1> SUFFICES ASSUME SessionInvariant, RevocationsStand, [Next]_vars
             PROVE  RevocationsStand' /\ RevokedRowsStand
  OBVIOUS
<1>0. TypeOK /\ RowInvariant
  BY DEF SessionInvariant
<1>1. ASSUME db' = db, RevocationsStand' PROVE RevocationsStand' /\ RevokedRowsStand
  BY <1>1 DEF RevokedRowsStand
<1>2. ASSUME db' = db, work' = work PROVE RevocationsStand' /\ RevokedRowsStand
  BY <1>1, <1>2 DEF RevocationsStand
<1>3. ASSUME NEW r, Rollback(r) PROVE RevocationsStand' /\ RevokedRowsStand
  <2>1. db' = db /\ \A t \in Tokens : work'[t] \in {db[t], work[t]}
    BY <1>3 DEF Rollback
  <2> QED
    BY <1>1, <2>1 DEF RevocationsStand
<1>4. CASE Tick \/ (\E u \in Users : ChangeStatus(u)) \/ UNCHANGED vars
  BY <1>2, <1>4 DEF Tick, ChangeStatus, vars
<1>5. ASSUME NEW r \in Requests, Arrive(r) PROVE RevocationsStand' /\ RevokedRowsStand
  BY <1>2, <1>5 DEF Arrive, BeginCookieRequest, BeginLogin, BeginLogoutAll,
                    BeginChangePassword, BeginResetPassword, Begin
<1>6. ASSUME NEW r \in Requests, DeadlockVictim(r) \/ Abort(r)
      PROVE  RevocationsStand' /\ RevokedRowsStand
  BY <1>3, <1>6 DEF DeadlockVictim, Abort
<1>7. ASSUME NEW r \in Requests, Step(r) PROVE RevocationsStand' /\ RevokedRowsStand
  <2>1. CASE RejectCookie(r) \/ RejectCredentials(r)
    BY <1>3, <2>1 DEF RejectCookie, RejectCredentials
  <2>2. CASE LockToken(r) \/ RefreshLockUser(r) \/ LoginLockUser(r)
             \/ ChangePasswordLockUser(r) \/ ResetPasswordLockUser(r)
             \/ LockRow(r) \/ LockGap(r) \/ PickOldest(r)
    BY <1>2, <2>2 DEF LockToken, RefreshLockUser, LoginLockUser,
                      ChangePasswordLockUser, ResetPasswordLockUser,
                      LockRow, LockGap, PickOldest
  <2>3. CASE RevokeFamily(r) \/ RevokeUser(r)
    <3>1. db' = db /\ Revoke(Revocable(r), ctx[r].reason)
      BY <2>3 DEF RevokeFamily, RevokeUser
    <3> QED
      BY <1>0, <1>1, <3>1, RevokingKeepsRevocations
  <2>4. CASE OpenFamily(r)
    <3>1. PICK t \in Tokens : /\ work[t].status = "absent" /\ db' = db
                             /\ \A s \in Tokens : s # t => work'[s] = work[s]
      BY <1>0, <2>4 DEF OpenFamily, Fresh, TypeOK
    <3>2. db[t].status = "absent"
      BY <1>0, <3>1 DEF RowInvariant, RowsAreWellFormed
    <3> QED
      BY <1>1, <3>1, <3>2 DEF RevocationsStand, Revoked, Closing
  <2>5. CASE Rotate(r)
    <3>1. PICK t \in Tokens : /\ work[t].status = "absent" /\ db' = db
               /\ \A s \in Tokens : s # t /\ s # ctx[r].token => work'[s] = work[s]
      BY <1>0, <2>5 DEF Rotate, Fresh, TypeOK
    <3>2. db[t].status = "absent"
      BY <1>0, <3>1 DEF RowInvariant, RowsAreWellFormed
    <3>3. db[ctx[r].token].status = "live"
      BY <2>5 DEF Rotate, SessionInvariant, RequestInvariant, HoldsToken
    <3> QED
      BY <1>1, <3>1, <3>2, <3>3 DEF RevocationsStand, Revoked, Closing
  <2>6. CASE Commit(r)
    <3>1. work' = work /\ \A t \in Tokens : db'[t] \in {work[t], db[t]}
      BY <2>6 DEF Commit
    <3> QED
      BY <3>1 DEF RevocationsStand, RevokedRowsStand, Revoked, Closing
  <2> QED
    BY <1>7, <2>1, <2>2, <2>3, <2>4, <2>5, <2>6 DEF Step
<1> QED
  BY <1>4, <1>5, <1>6, <1>7 DEF Next

\* A revoked row stays revoked: only a detected reuse changes its reason.
THEOREM RevocationsAreFinal == Spec => RevocationIsFinal
<1>1. Init => RevocationsStand
  BY DEF Init, RevocationsStand
<1>2. SessionInvariant /\ RevocationsStand /\ [Next]_vars =>
         RevocationsStand' /\ RevokedRowsStand
  BY NextKeepsRevocations
<1>3. RevokedRowsStand =>
         (\A t \in Tokens : db[t].status \in Revoked =>
            /\ db'[t].status \in {db[t].status, "reuse_detected"}
            /\ db'[t].replacedBy = db[t].replacedBy)
  BY DEF RevokedRowsStand
<1>4. Spec => [][Next]_vars /\ Init
  BY DEF Spec
<1> QED
  BY <1>1, <1>2, <1>3, <1>4, InvariantHolds, PTL DEF RevocationIsFinal

-----------------------------------------------------------------------------
\* Families are chains.  What a step does to the rows is one of five things: nothing,
\* marking rows revoked, adding a row, undoing a transaction or committing it.

\* A step that writes no row; locks are only taken.
Quiet ==
    /\ UNCHANGED <<db, work>>
    /\ now <= now'
    /\ \A t \in Tokens : owner[t] # NoRequest => owner'[t] = owner[t]

\* A scan that has locked its rows marks some of them revoked.
Marking ==
    /\ UNCHANGED <<now, db, owner>>
    /\ \A t \in Tokens : \/ work'[t] = work[t]
                         \/ /\ work[t].status # "absent"
                            /\ \E s \in Closing : work'[t] = [work[t] EXCEPT !.status = s]

\* Every step of the services and of their environment is of one of the five kinds.
LEMMA StepsOnRows ==
  ASSUME SessionInvariant, [Next]_vars
  PROVE  \/ Quiet
         \/ Marking
         \/ \E r \in Requests : \/ Rollback(r) \/ OpenFamily(r)
                                \/ Rotate(r) \/ Commit(r)
<1>0. TypeOK /\ NoRequest \notin Requests
  BY NamesAreDistinct DEF SessionInvariant
<1>1. ASSUME UNCHANGED <<now, db, work, owner>> PROVE Quiet
  BY <1>0, <1>1, ConfigurationIsValid DEF Quiet, TypeOK, Time
<1>2. ASSUME NEW r, UNCHANGED <<now, db, work>>,
             NEW k \in Users \cup Tokens, Available(r, k), Take(r, k),
             \A t \in Tokens : k = t => r # NoRequest
      PROVE  Quiet
  BY <1>0, <1>2, ConfigurationIsValid DEF Quiet, TypeOK, Time, Available, Take
<1>3. CASE Tick \/ (\E u \in Users : ChangeStatus(u)) \/ UNCHANGED vars
  <2>1. now <= now' /\ UNCHANGED <<db, work, owner>>
    BY <1>0, <1>3, ConfigurationIsValid DEF Tick, ChangeStatus, vars, TypeOK, Time
  <2> QED
    BY <2>1 DEF Quiet
<1>4. ASSUME NEW r \in Requests, Arrive(r) PROVE Quiet
  BY <1>1, <1>4 DEF Arrive, BeginCookieRequest, BeginLogin, BeginLogoutAll,
                    BeginChangePassword, BeginResetPassword, Begin
<1>5. ASSUME NEW r \in Requests, DeadlockVictim(r) \/ Abort(r) PROVE Rollback(r)
  BY <1>5 DEF DeadlockVictim, Abort
<1>6. ASSUME NEW r \in Requests, Step(r)
      PROVE  Quiet \/ Marking \/ Rollback(r) \/ OpenFamily(r) \/ Rotate(r) \/ Commit(r)
  <2>0. RequestInvariant(r) /\ r # NoRequest
    BY <1>0 DEF SessionInvariant
  <2>1. CASE RejectCookie(r) \/ RejectCredentials(r)
    BY <2>1 DEF RejectCookie, RejectCredentials
  <2>2. CASE LockToken(r)
    <3>1. ctx[r].token \in Tokens
      BY <1>0, <2>2 DEF LockToken, TypeOK, Context
    <3> QED
      BY <1>2, <2>0, <2>2, <3>1 DEF LockToken
  <2>3. CASE RefreshLockUser(r) \/ LoginLockUser(r) \/ ChangePasswordLockUser(r)
             \/ ResetPasswordLockUser(r)
    <3>1. ctx[r].user \in Users
      BY <2>0, <2>3 DEF RequestInvariant, ContextMatches, RefreshLockUser, LoginLockUser,
                        ChangePasswordLockUser, ResetPasswordLockUser
    <3>2. /\ UNCHANGED <<now, db, work>>
          /\ Available(r, ctx[r].user) /\ Take(r, ctx[r].user)
      BY <2>3 DEF RefreshLockUser, LoginLockUser,
                  ChangePasswordLockUser, ResetPasswordLockUser
    <3> QED
      BY <1>2, <2>0, <3>1, <3>2
  <2>4. CASE LockRow(r)
    <3>1. PICK t \in Tokens : owner[t] = NoRequest /\ Take(r, t)
      BY <2>4 DEF LockRow, RowsIn
    <3> QED
      BY <1>2, <2>0, <2>4, <3>1 DEF LockRow, Available
  <2>5. CASE LockGap(r) \/ PickOldest(r)
    BY <1>1, <2>5 DEF LockGap, PickOldest
  <2>6. CASE RevokeFamily(r) \/ RevokeUser(r)
    <3>1. UNCHANGED <<now, db, owner>> /\ Revoke(Revocable(r), ctx[r].reason)
      BY <2>6 DEF RevokeFamily, RevokeUser
    <3>2. ctx[r].reason \in Closing
      BY <2>0, <2>6 DEF RevokeFamily, RevokeUser, RequestInvariant, ContextMatches, Closing
    <3> QED
      BY <3>1, <3>2 DEF Marking, Revoke, Revocable, RowsIn, InRange
  <2> QED
    BY <1>6, <2>1, <2>2, <2>3, <2>4, <2>5, <2>6 DEF Step
<1> QED
  BY <1>3, <1>4, <1>5, <1>6 DEF Next

\* An empty table has no links.
LEMMA InitMakesChains == Init => ChainInvariant
<1> SUFFICES ASSUME Init PROVE ChainInvariant
  OBVIOUS
<1>1. \A t \in Tokens : /\ db[t] = Blank /\ work[t] = Blank /\ t # NoToken
                        /\ Blank.replacedBy = NoToken /\ Blank.status = "absent"
                        /\ Blank.created = 0 /\ Blank.expires = 0
                        /\ Blank.familyExpires = 0 /\ now = 0
  BY NamesAreDistinct DEF Init, Blank
<1> QED
  BY <1>1 DEF ChainInvariant, RowsKeepOrigin, LinksArePaired, LinksAreUnforked, RootsStand

\* The row a family is named by.
LEMMA FamilyRow ==
  ASSUME SessionInvariant, ChainInvariant, NEW t \in Tokens, work[t].status # "absent"
  PROVE  /\ work[t].family \in Tokens
         /\ work[work[t].family].status # "absent"
         /\ work[work[t].family].family = work[t].family
         /\ work[work[t].family].user = work[t].user
         /\ work[t].family = t \/ db[work[t].family].status # "absent"
  BY DEF SessionInvariant, RowInvariant, RowsAreWellFormed, ChainInvariant, RootsStand

\* Locks and the passing of time break no chain.
LEMMA QuietKeepsChains ==
  ASSUME SessionInvariant, TypeOK', ChainInvariant, Quiet
  PROVE  ChainInvariant'
<1>0. /\ db' = db /\ work' = work /\ now <= now' /\ now \in Nat /\ now' \in Nat
      /\ \A t \in Tokens : owner[t] # NoRequest => owner'[t] = owner[t]
      /\ \A t \in Tokens : work[t] \in Row
  BY ConfigurationIsValid DEF Quiet, SessionInvariant, TypeOK, Time
<1>1. RowsKeepOrigin'
  <2>1. \A t \in Tokens : work[t].created <= now => work[t].created <= now'
    BY <1>0, ConfigurationIsValid DEF Row, Time
  <2> QED
    BY <1>0, <2>1 DEF ChainInvariant, RowsKeepOrigin
<1>2. LinksArePaired'
  BY <1>0 DEF ChainInvariant, LinksArePaired
<1>3. LinksAreUnforked'
  BY <1>0 DEF ChainInvariant, LinksAreUnforked
<1>4. RootsStand'
  BY <1>0 DEF ChainInvariant, RootsStand
<1> QED
  BY <1>1, <1>2, <1>3, <1>4 DEF ChainInvariant

\* A revocation changes a row's reason and nothing of its place in the chain.
LEMMA MarkingKeepsChains ==
  ASSUME SessionInvariant, ChainInvariant, Marking
  PROVE  ChainInvariant'
<1>0. db' = db /\ now' = now /\ owner' = owner
  BY DEF Marking
<1>1. ASSUME NEW t \in Tokens
      PROVE  /\ work'[t].status = "absent" => work'[t] = work[t]
             /\ work[t].status # "absent" => work'[t].status # "absent"
             /\ work'[t].status = "live" => work[t].status = "live"
             /\ work'[t].status # "absent" => work[t].status # "absent"
             /\ work'[t].replacedBy = work[t].replacedBy
             /\ work'[t].family = work[t].family /\ work'[t].user = work[t].user
             /\ work'[t].created = work[t].created
             /\ work'[t].expires = work[t].expires
             /\ work'[t].familyExpires = work[t].familyExpires
  <2>1. work[t] \in Row
    BY DEF SessionInvariant, TypeOK
  <2> QED
    BY <2>1 DEF Marking, Row, Closing
<1>2. RowsKeepOrigin'
  BY <1>0, <1>1 DEF ChainInvariant, RowsKeepOrigin
<1>3. LinksArePaired'
  BY <1>0, <1>1 DEF ChainInvariant, LinksArePaired
<1>4. LinksAreUnforked'
  BY <1>0, <1>1 DEF ChainInvariant, LinksAreUnforked
<1>5. RootsStand'
  BY <1>1, FamilyRow DEF RootsStand
<1> QED
  BY <1>2, <1>3, <1>4, <1>5 DEF ChainInvariant

\* What a chain says of committed rows.
LEMMA CommittedLinks ==
  ASSUME SessionInvariant, ChainInvariant
  PROVE  /\ \A t \in Tokens : t # NoToken
         /\ \A t \in Tokens : db[t].status # "absent" =>
              /\ work[t].status # "absent"
              /\ db[t].family = work[t].family /\ db[t].user = work[t].user
              /\ db[t].familyExpires = work[t].familyExpires
              /\ db[t].created = work[t].created /\ db[t].expires = work[t].expires
         /\ \A s, t \in Tokens : db[s].replacedBy = t =>
              db[s].status # "absent" /\ db[t].status # "absent" /\ work[s].replacedBy = t
<1>1. \A t \in Tokens : t # NoToken /\ Blank.replacedBy = NoToken
  BY NamesAreDistinct DEF Blank
<1>2. \A t \in Tokens : db[t].status # "absent" =>
              /\ work[t].status # "absent"
              /\ db[t].family = work[t].family /\ db[t].user = work[t].user
              /\ db[t].familyExpires = work[t].familyExpires
              /\ db[t].created = work[t].created /\ db[t].expires = work[t].expires
  BY DEF SessionInvariant, RowInvariant, RowsAreWellFormed, ChainInvariant, RowsKeepOrigin
<1>3. ASSUME NEW s \in Tokens, NEW t \in Tokens, db[s].replacedBy = t
      PROVE  db[s].status # "absent" /\ db[t].status # "absent" /\ work[s].replacedBy = t
  BY <1>1, <1>3 DEF ChainInvariant, RowsKeepOrigin, LinksArePaired
<1> QED
  BY <1>1, <1>2, <1>3

\* A rollback takes back a child together with the mark on its parent.
LEMMA RollbackKeepsChains ==
  ASSUME SessionInvariant, ChainInvariant, NEW r \in Requests, Rollback(r)
  PROVE  ChainInvariant'
<1>0. /\ db' = db /\ now' = now /\ r # NoRequest
      /\ \A t \in Tokens : /\ work'[t] = IF owner[t] = r THEN db[t] ELSE work[t]
                           /\ owner'[t] = IF owner[t] = r THEN NoRequest ELSE owner[t]
  BY NamesAreDistinct DEF SessionInvariant, TypeOK, Rollback, Release, Mine
<1>1. RowsKeepOrigin'
  <2>1. /\ Blank.created = 0 /\ Blank.expires = 0 /\ Blank.familyExpires = 0
        /\ now \in Nat
    BY ConfigurationIsValid DEF Blank, SessionInvariant, TypeOK, Time
  <2>2. \A t \in Tokens : db[t].created <= now /\ db[t].expires <= db[t].familyExpires
    BY <2>1, CommittedLinks DEF ChainInvariant, RowsKeepOrigin
  <2> QED
    BY <1>0, <2>2, CommittedLinks DEF ChainInvariant, RowsKeepOrigin
<1>2. LinksArePaired'
  <2> SUFFICES ASSUME NEW s \in Tokens, NEW t \in Tokens
               PROVE  /\ db[s].replacedBy = t => work'[s].replacedBy = t
                      /\ work'[s].replacedBy = t =>
                           /\ work'[t].status # "absent" /\ t # work'[t].family
                           /\ work'[s].family = work'[t].family
                           /\ work'[s].user = work'[t].user
                           /\ work'[s].familyExpires = work'[t].familyExpires
                           /\ work'[s].created <= work'[t].created
                           /\ \/ db[s].replacedBy = t /\ db[t].status # "absent"
                              \/ /\ db[s].replacedBy = NoToken /\ db[t].status = "absent"
                                 /\ owner'[s] = owner'[t] /\ owner'[s] # NoRequest
    BY <1>0 DEF LinksArePaired
  <2>1. db[s].replacedBy = t => work'[s].replacedBy = t
    BY <1>0, CommittedLinks
  <2>2. ASSUME work'[s].replacedBy = t PROVE work[s].replacedBy = t
    BY <1>0, <2>2, CommittedLinks
  <2>3. ASSUME work'[s].replacedBy = t, db[s].replacedBy = t
        PROVE  /\ work'[t].status # "absent" /\ t # work'[t].family
               /\ work'[s].family = work'[t].family
               /\ work'[s].user = work'[t].user
               /\ work'[s].familyExpires = work'[t].familyExpires
               /\ work'[s].created <= work'[t].created
               /\ db[t].status # "absent"
    <3>1. /\ db[s].status # "absent" /\ db[t].status # "absent"
          /\ work[s].replacedBy = t
      BY <2>3, CommittedLinks
    <3>2. /\ t # work[t].family
          /\ work[s].family = work[t].family
          /\ work[s].user = work[t].user
          /\ work[s].familyExpires = work[t].familyExpires
          /\ work[s].created <= work[t].created
      BY <3>1 DEF ChainInvariant, LinksArePaired
    <3> QED
      BY <1>0, <3>1, <3>2, CommittedLinks
  <2>4. ASSUME work'[s].replacedBy = t, db[s].replacedBy # t
        PROVE  /\ work'[t].status # "absent" /\ t # work'[t].family
               /\ work'[s].family = work'[t].family
               /\ work'[s].user = work'[t].user
               /\ work'[s].familyExpires = work'[t].familyExpires
               /\ work'[s].created <= work'[t].created
               /\ db[s].replacedBy = NoToken /\ db[t].status = "absent"
               /\ owner'[s] = owner'[t] /\ owner'[s] # NoRequest
    <3>1. owner[s] # r
      BY <1>0, <2>4
    <3>2. /\ db[s].replacedBy = NoToken /\ db[t].status = "absent"
          /\ owner[s] = owner[t] /\ owner[s] # NoRequest
      BY <2>2, <2>4 DEF ChainInvariant, LinksArePaired
    <3>3. work'[s] = work[s] /\ work'[t] = work[t]
      BY <1>0, <3>1, <3>2
    <3> QED
      BY <1>0, <2>2, <2>4, <3>1, <3>2, <3>3 DEF ChainInvariant, LinksArePaired
  <2> QED
    BY <2>1, <2>3, <2>4
<1>3. LinksAreUnforked'
  <2>1. \A s, t \in Tokens : work'[s].replacedBy = t => work[s].replacedBy = t
    BY <1>0, CommittedLinks
  <2>2. ASSUME NEW t \in Tokens, work'[t].status # "absent", t # work'[t].family
        PROVE  \E s \in Tokens : work'[s].replacedBy = t
    <3>1. work[t].status # "absent" /\ t # work[t].family
      BY <1>0, <2>2, CommittedLinks
    <3>2. PICK s \in Tokens : work[s].replacedBy = t
      BY <3>1 DEF ChainInvariant, LinksAreUnforked
    <3>3. \/ db[s].replacedBy = t
          \/ db[t].status = "absent" /\ owner[s] = owner[t]
      BY <3>2 DEF ChainInvariant, LinksArePaired
    <3> QED
      BY <1>0, <2>2, <3>2, <3>3
  <2> QED
    BY <2>1, <2>2 DEF ChainInvariant, LinksAreUnforked
<1>4. RootsStand'
  <2> SUFFICES ASSUME NEW t \in Tokens, work'[t].status # "absent"
               PROVE  work'[work'[t].family].family = work'[t].family
    BY DEF RootsStand
  <2>1. work[t].status # "absent" /\ work'[t].family = work[t].family
    BY <1>0, CommittedLinks
  <2>2. PICK f \in Tokens : /\ f = work[t].family /\ work[f].family = f
                            /\ f = t \/ db[f].status # "absent"
    BY <2>1, FamilyRow
  <2>3. owner[f] = r => db[f].status # "absent"
    BY <1>0, <2>2
  <2> QED
    BY <1>0, <2>1, <2>2, <2>3, CommittedLinks
<1> QED
  BY <1>1, <1>2, <1>3, <1>4 DEF ChainInvariant

\* A commit publishes a child together with the mark on its parent.
LEMMA CommitKeepsChains ==
  ASSUME SessionInvariant, ChainInvariant, NEW r \in Requests, Commit(r)
  PROVE  ChainInvariant'
<1>0. /\ work' = work /\ now' = now /\ r # NoRequest
      /\ \A t \in Tokens : /\ db'[t] = IF owner[t] = r THEN work[t] ELSE db[t]
                           /\ owner'[t] = IF owner[t] = r THEN NoRequest ELSE owner[t]
  BY NamesAreDistinct DEF SessionInvariant, TypeOK, Commit, Release, Mine
<1>1. RowsKeepOrigin'
  BY <1>0 DEF ChainInvariant, RowsKeepOrigin
<1>2. LinksArePaired'
  <2> SUFFICES ASSUME NEW s \in Tokens, NEW t \in Tokens
               PROVE  /\ db'[s].replacedBy = t => work[s].replacedBy = t
                      /\ work[s].replacedBy = t =>
                           \/ db'[s].replacedBy = t /\ db'[t].status # "absent"
                           \/ /\ db'[s].replacedBy = NoToken /\ db'[t].status = "absent"
                              /\ owner'[s] = owner'[t] /\ owner'[s] # NoRequest
    BY <1>0 DEF ChainInvariant, LinksArePaired
  <2>1. db'[s].replacedBy = t => work[s].replacedBy = t
    BY <1>0, CommittedLinks
  <2>2. ASSUME work[s].replacedBy = t
        PROVE  \/ db'[s].replacedBy = t /\ db'[t].status # "absent"
               \/ /\ db'[s].replacedBy = NoToken /\ db'[t].status = "absent"
                  /\ owner'[s] = owner'[t] /\ owner'[s] # NoRequest
    <3>1. /\ work[t].status # "absent"
          /\ \/ db[s].replacedBy = t /\ db[t].status # "absent"
             \/ /\ db[s].replacedBy = NoToken /\ db[t].status = "absent"
                /\ owner[s] = owner[t] /\ owner[s] # NoRequest
      BY <2>2 DEF ChainInvariant, LinksArePaired
    <3> QED
      BY <1>0, <2>2, <3>1
  <2> QED
    BY <2>1, <2>2
<1>3. LinksAreUnforked'
  BY <1>0 DEF ChainInvariant, LinksAreUnforked
<1>4. RootsStand'
  BY <1>0 DEF ChainInvariant, RootsStand
<1> QED
  BY <1>1, <1>2, <1>3, <1>4 DEF ChainInvariant

\* A new row: its deadlines, and that nothing links to the place it takes.
LEMMA FreshRow ==
  ASSUME SessionInvariant, ChainInvariant, NEW t \in Fresh, NEW u, NEW f, NEW at \in Time,
         NEW d \in Horizon, NEW p
  PROVE  LET row == NewRow(u, f, at, d, p)
         IN  /\ row.status = "live" /\ row.user = u /\ row.family = f /\ row.created = now
             /\ row.familyExpires = d /\ row.replacedBy = NoToken /\ row.expires <= d
             /\ db[t] = Blank /\ work[t] = Blank /\ owner[t] = NoRequest
             /\ \A s \in Tokens : work[s].replacedBy # t /\ db[s].replacedBy # t
<1>1. at + Lifetime \in Nat /\ d \in Nat
  BY ConfigurationIsValid DEF Time, Horizon
<1>2. Earlier(at + Lifetime, d) <= d
  BY <1>1 DEF Earlier
<1>3. t \in Tokens /\ work[t].status = "absent"
  BY DEF Fresh
<1>4. db[t] = Blank /\ work[t] = Blank /\ owner[t] = NoRequest
  BY <1>3 DEF SessionInvariant, RowInvariant, RowsAreWellFormed, WritesAreLocked,
              ChainInvariant, RowsKeepOrigin
<1>5. \A s \in Tokens : work[s].replacedBy # t /\ db[s].replacedBy # t
  BY <1>3 DEF ChainInvariant, LinksArePaired
<1> QED
  BY <1>2, <1>4, <1>5 DEF NewRow, Blank

\* The first row of a family has no parent.
LEMMA OpenFamilyKeepsChains ==
  ASSUME SessionInvariant, ChainInvariant, NEW r \in Requests, OpenFamily(r)
  PROVE  ChainInvariant'
<1>0. /\ db' = db /\ now' = now /\ now \in Time /\ now \in Nat
      /\ ctx[r].at \in Time /\ ctx[r].at + AbsoluteLifetime \in Horizon
      /\ owner \in [Users \cup Tokens -> Requests \cup {NoRequest}]
      /\ work \in [Tokens -> Row]
  BY ConfigurationIsValid DEF SessionInvariant, TypeOK, OpenFamily, Context, Time, Horizon
<1> DEFINE row(t) == NewRow(ctx[r].user, t, ctx[r].at, ctx[r].at + AbsoluteLifetime,
                            ctx[r].password)
<1>1. PICK t \in Fresh : Take(r, t) /\ work' = [work EXCEPT ![t] = row(t)]
  BY DEF OpenFamily
<1>2. PICK new : new = row(t)
  OBVIOUS
<1>3. /\ new.status = "live" /\ new.family = t /\ new.created = now
      /\ new.replacedBy = NoToken /\ new.expires <= new.familyExpires
      /\ db[t] = Blank /\ work[t] = Blank
      /\ \A s \in Tokens : work[s].replacedBy # t /\ db[s].replacedBy # t
  BY <1>0, <1>2, FreshRow
<1>4. t \in Tokens /\ Blank.replacedBy = NoToken /\ Blank.status = "absent"
  BY DEF Fresh, Blank
<1>5. /\ work'[t] = new /\ owner'[t] = r
      /\ \A s \in Tokens \ {t} : work'[s] = work[s] /\ owner'[s] = owner[s]
  BY <1>0, <1>1, <1>2, <1>4 DEF Take
<1> HIDE DEF row
<1>6. RowsKeepOrigin'
  BY <1>0, <1>3, <1>4, <1>5 DEF ChainInvariant, RowsKeepOrigin
<1>7. LinksArePaired'
  <2>1. ASSUME NEW s \in Tokens, NEW x \in Tokens,
               db'[s].replacedBy = x \/ work'[s].replacedBy = x
        PROVE  s # t /\ x # t
    BY <1>0, <1>3, <1>4, <1>5, <2>1, NamesAreDistinct
  <2> QED
    BY <1>0, <1>5, <2>1 DEF ChainInvariant, LinksArePaired
<1>8. LinksAreUnforked'
  <2>1. ASSUME NEW s \in Tokens, NEW x \in Tokens, work'[s].replacedBy = x
        PROVE  work[s].replacedBy = x
    BY <1>3, <1>4, <1>5, <2>1, NamesAreDistinct
  <2>2. ASSUME NEW x \in Tokens, work'[x].status # "absent", x # work'[x].family
        PROVE  \E s \in Tokens : work'[s].replacedBy = x
    <3>1. x # t /\ work'[x] = work[x]
      BY <1>3, <1>5, <2>2
    <3>2. PICK s \in Tokens : work[s].replacedBy = x
      BY <2>2, <3>1 DEF ChainInvariant, LinksAreUnforked
    <3>3. s # t
      BY <1>3, <1>4, <3>2, NamesAreDistinct
    <3> QED
      BY <1>5, <3>2, <3>3
  <2> QED
    BY <2>1, <2>2 DEF ChainInvariant, LinksAreUnforked
<1>9. RootsStand'
  <2>1. \A x \in Tokens \ {t} : work[x].status # "absent" => work[x].family # t
    BY <1>3, <1>4, FamilyRow
  <2> QED
    BY <1>3, <1>4, <1>5, <2>1, FamilyRow DEF RootsStand
<1> QED
  BY <1>6, <1>7, <1>8, <1>9 DEF ChainInvariant

\* A rotation hangs the child on the row it replaces, which had no child.
LEMMA RotateKeepsChains ==
  ASSUME SessionInvariant, ChainInvariant, NEW r \in Requests, Rotate(r)
  PROVE  ChainInvariant'
<1> DEFINE parent == ctx[r].token
           old == work[parent]
           row == NewRow(old.user, old.family, ctx[r].at, old.familyExpires, old.password)
           used == [old EXCEPT !.status = "rotated"]
<1>0. /\ db' = db /\ now' = now /\ now \in Nat
      /\ ctx[r].at \in Time
      /\ owner \in [Users \cup Tokens -> Requests \cup {NoRequest}]
      /\ work \in [Tokens -> Row]
      /\ r # NoRequest
  BY ConfigurationIsValid, NamesAreDistinct
     DEF SessionInvariant, TypeOK, Rotate, Context, Time
<1>1. /\ parent \in Tokens /\ owner[parent] = r /\ work[parent] = db[parent]
      /\ work[parent].status = "live"
  BY DEF Rotate, SessionInvariant, RequestInvariant, HoldsToken, Mine
<1>2. /\ work[parent].replacedBy = NoToken /\ db[parent].replacedBy = NoToken
      /\ work[parent].created <= now
      /\ work[parent].expires <= work[parent].familyExpires
  BY <1>1 DEF ChainInvariant, RowsKeepOrigin
<1>3. PICK t \in Fresh : /\ Take(r, t)
                         /\ work' = [work EXCEPT ![t] = row, ![parent].status = "rotated",
                                                 ![parent].replacedBy = t]
  BY DEF Rotate
<1>4. t \in Tokens /\ t # parent
  BY <1>1 DEF Fresh
<1>5. PICK new : new = row
  OBVIOUS
<1>6. /\ new.status = "live" /\ new.family = work[parent].family /\ new.created = now
      /\ new.user = work[parent].user /\ new.familyExpires = work[parent].familyExpires
      /\ new.replacedBy = NoToken /\ new.expires <= new.familyExpires
      /\ db[t] = Blank /\ work[t] = Blank
      /\ \A s \in Tokens : work[s].replacedBy # t /\ db[s].replacedBy # t
  <2>1. work[parent].familyExpires \in Horizon
    BY <1>0, <1>1 DEF Row
  <2> QED
    BY <1>0, <1>5, <2>1, FreshRow
<1>7. PICK mark : mark = [work[parent] EXCEPT !.status = "rotated", !.replacedBy = t]
  OBVIOUS
<1>8. /\ mark.status = "rotated" /\ mark.replacedBy = t
      /\ mark.family = work[parent].family /\ mark.user = work[parent].user
      /\ mark.created = work[parent].created /\ mark.expires = work[parent].expires
      /\ mark.familyExpires = work[parent].familyExpires
  BY <1>0, <1>1, <1>7 DEF Row
<1>9. /\ work'[t] = new /\ work'[parent] = mark
      /\ owner'[t] = r /\ owner'[parent] = r
      /\ \A s \in Tokens \ {t} : owner'[s] = owner[s]
      /\ \A s \in Tokens \ {t, parent} : work'[s] = work[s]
  BY <1>0, <1>1, <1>3, <1>4, <1>5, <1>7 DEF Take, Row
<1>10. t # work[parent].family
  <2>1. work[parent].family \in Tokens /\ work[work[parent].family].status # "absent"
    BY <1>1 DEF SessionInvariant, RowInvariant, RowsAreWellFormed
  <2> QED
    BY <2>1 DEF Fresh
<1>11. /\ Blank.replacedBy = NoToken /\ Blank.status = "absent"
       /\ \A s \in Tokens : s # NoToken
  BY NamesAreDistinct DEF Blank
<1> HIDE DEF row, used, old
<1>12. RowsKeepOrigin'
  BY <1>0, <1>1, <1>2, <1>6, <1>8, <1>9 DEF ChainInvariant, RowsKeepOrigin, Blank
<1>13. LinksArePaired'
  <2> SUFFICES ASSUME NEW s \in Tokens, NEW x \in Tokens
               PROVE  /\ db[s].replacedBy = x => work'[s].replacedBy = x
                      /\ work'[s].replacedBy = x =>
                           /\ work'[x].status # "absent" /\ x # work'[x].family
                           /\ work'[s].family = work'[x].family
                           /\ work'[s].user = work'[x].user
                           /\ work'[s].familyExpires = work'[x].familyExpires
                           /\ work'[s].created <= work'[x].created
                           /\ \/ db[s].replacedBy = x /\ db[x].status # "absent"
                              \/ /\ db[s].replacedBy = NoToken /\ db[x].status = "absent"
                                 /\ owner'[s] = owner'[x] /\ owner'[s] # NoRequest
    BY <1>0 DEF LinksArePaired
  <2>1. db[s].replacedBy = x => s # t /\ s # parent
    BY <1>2, <1>6, <1>11
  <2>2. CASE s = t
    BY <1>6, <1>9, <1>11, <2>1, <2>2
  <2>3. CASE s = parent
    BY <1>0, <1>2, <1>6, <1>8, <1>9, <1>10, <1>11, <2>1, <2>3
  <2>4. CASE s # t /\ s # parent
    <3>1. work'[s] = work[s] /\ owner'[s] = owner[s]
      BY <1>9, <2>4
    <3>2. work[s].replacedBy = x =>
            /\ x # t
            /\ owner'[x] = owner[x] /\ work'[x].status # "absent"
            /\ work'[x].family = work[x].family /\ work'[x].user = work[x].user
            /\ work'[x].familyExpires = work[x].familyExpires
            /\ work'[x].created = work[x].created
      <4>1. work[s].replacedBy = x => x # t /\ work[x].status # "absent"
        BY <1>6 DEF ChainInvariant, LinksArePaired
      <4> QED
        BY <1>8, <1>9, <4>1
    <3> QED
      BY <3>1, <3>2 DEF ChainInvariant, LinksArePaired
  <2> QED
    BY <2>2, <2>3, <2>4
<1>14. LinksAreUnforked'
  <2>1. ASSUME NEW s \in Tokens, NEW x \in Tokens, work'[s].replacedBy = x
        PROVE  \/ s = parent /\ x = t
               \/ s # parent /\ x # t /\ work[s].replacedBy = x
    BY <1>6, <1>8, <1>9, <1>11, <2>1
  <2>2. ASSUME NEW x \in Tokens, work'[x].status # "absent", x # work'[x].family
        PROVE  \E s \in Tokens : work'[s].replacedBy = x
    <3>1. CASE x = t
      BY <1>1, <1>8, <1>9, <3>1
    <3>2. CASE x # t
      <4>1. work[x].status # "absent" /\ x # work[x].family
        BY <1>1, <1>8, <1>9, <2>2, <3>2
      <4>2. PICK s \in Tokens : work[s].replacedBy = x
        BY <4>1 DEF ChainInvariant, LinksAreUnforked
      <4>3. s # t /\ s # parent
        BY <1>2, <1>6, <1>11, <4>2
      <4> QED
        BY <1>9, <4>2, <4>3
    <3> QED
      BY <3>1, <3>2
  <2>3. \A s, q, x \in Tokens :
          work'[s].replacedBy = x /\ work'[q].replacedBy = x => s = q
    BY <2>1 DEF ChainInvariant, LinksAreUnforked
  <2> QED
    BY <2>2, <2>3 DEF LinksAreUnforked
<1>15. RootsStand'
  <2>1. \A x \in Tokens \ {t} : /\ work'[x].status # "absent" => work[x].status # "absent"
                               /\ work'[x].family = work[x].family
    BY <1>1, <1>8, <1>9
  <2>2. \A x \in Tokens : work[x].status # "absent" =>
           work[x].family \in Tokens \ {t} /\ work[work[x].family].family = work[x].family
    BY <1>4, <1>6, <1>11, FamilyRow
  <2> QED
    BY <1>1, <1>4, <1>6, <1>9, <2>1, <2>2 DEF RootsStand
<1> QED
  BY <1>12, <1>13, <1>14, <1>15 DEF ChainInvariant

\* Every step of every interleaving keeps the chains.
LEMMA NextKeepsChains ==
  SessionInvariant /\ ChainInvariant /\ [Next]_vars => ChainInvariant'
<1> SUFFICES ASSUME SessionInvariant, ChainInvariant, [Next]_vars PROVE ChainInvariant'
  OBVIOUS
<1>1. TypeOK'
  BY NextKeepsInvariant DEF SessionInvariant
<1> QED
  BY <1>1, StepsOnRows, QuietKeepsChains, MarkingKeepsChains, RollbackKeepsChains,
     OpenFamilyKeepsChains, RotateKeepsChains, CommitKeepsChains

\* Chains hold in every reachable state.
THEOREM ChainsHold == Spec => [](SessionInvariant /\ ChainInvariant)
  BY InitMakesChains, InitEstablishesInvariant, NextKeepsInvariant, NextKeepsChains,
     PTL DEF Spec

\* Every family is one unforked chain of rows from its first token, with one user and one
\* deadline, whatever refreshes, revocations and rollbacks overlap (rotate_session).
THEOREM FamiliesAreChains == Spec => []FamilyIsOneChain
<1>1. SessionInvariant /\ ChainInvariant => FamilyIsOneChain
  <2> SUFFICES ASSUME SessionInvariant, ChainInvariant,
                      NEW t \in Tokens, db[t].status # "absent"
               PROVE  /\ Parents(t) = {} <=> t = db[t].family
                      /\ \A s \in Parents(t) :
                           /\ Parents(t) = {s}
                           /\ db[s].family = db[t].family
                           /\ db[s].user = db[t].user
                           /\ db[s].familyExpires = db[t].familyExpires
                           /\ db[s].created <= db[t].created
                      /\ db[t].expires <= db[t].familyExpires
    BY DEF FamilyIsOneChain
  <2>1. db[t].expires <= db[t].familyExpires
    BY CommittedLinks DEF ChainInvariant, RowsKeepOrigin
  <2>2. ASSUME NEW s \in Parents(t)
        PROVE  /\ Parents(t) = {s}
               /\ t # db[t].family
               /\ db[s].family = db[t].family
               /\ db[s].user = db[t].user
               /\ db[s].familyExpires = db[t].familyExpires
               /\ db[s].created <= db[t].created
    <3>1. s \in Tokens /\ db[s].status # "absent" /\ work[s].replacedBy = t
      BY CommittedLinks DEF Parents
    <3>2. /\ t # work[t].family
          /\ work[s].family = work[t].family
          /\ work[s].user = work[t].user
          /\ work[s].familyExpires = work[t].familyExpires
          /\ work[s].created <= work[t].created
      BY <3>1 DEF ChainInvariant, LinksArePaired
    <3>3. \A q \in Parents(t) : q = s
      BY <3>1, CommittedLinks DEF Parents, ChainInvariant, LinksAreUnforked
    <3> QED
      BY <3>1, <3>2, <3>3, CommittedLinks
  <2>3. ASSUME t # db[t].family PROVE Parents(t) # {}
    <3>1. PICK s \in Tokens : work[s].replacedBy = t
      BY <2>3, CommittedLinks DEF ChainInvariant, LinksAreUnforked
    <3>2. db[s].replacedBy = t
      BY <3>1 DEF ChainInvariant, LinksArePaired
    <3> QED
      BY <3>2, CommittedLinks DEF Parents
  <2> QED
    BY <2>1, <2>2, <2>3
<1> QED
  BY <1>1, ChainsHold, PTL

-----------------------------------------------------------------------------
\* What a transaction has written, as one operation of SessionRegistry.

\* A step of r leaves the statements, the locks and the locked rows of the others alone.
Apart(r) ==
    \A q \in Requests \ {r} :
        /\ pc'[q] = pc[q] /\ ctx'[q] = ctx[q]
        /\ \A k \in Users \cup Tokens : owner'[k] = q <=> owner[k] = q
        /\ \A t \in Tokens : owner[t] = q => work'[t] = work[t] /\ db'[t] = db[t]

\* Requests only write rows they have locked, and only release their own locks.
LEMMA StepsStayApart ==
  ASSUME SessionInvariant, NEW r \in Requests,
         Arrive(r) \/ Step(r) \/ DeadlockVictim(r) \/ Abort(r)
  PROVE  Apart(r)
<1>0. TypeOK /\ RequestInvariant(r) /\ NoRequest \notin Requests
  BY NamesAreDistinct DEF SessionInvariant
<1>2. CASE Arrive(r)
  <2>1. PICK s, c : Begin(r, s, c)
    BY <1>2 DEF Arrive, BeginCookieRequest, BeginLogin, BeginLogoutAll,
                BeginChangePassword, BeginResetPassword
  <2> QED
    BY <1>0, <2>1 DEF Apart, Begin, Goto, TypeOK
<1>3. ASSUME Rollback(r) PROVE Apart(r)
  BY <1>0, <1>3 DEF Apart, Rollback, Release, Mine, TypeOK
<1>4. CASE Step(r)
  <2>1. CASE RejectCookie(r) \/ RejectCredentials(r)
    BY <1>3, <2>1 DEF RejectCookie, RejectCredentials
  <2>2. ASSUME UNCHANGED <<db, work>>, NEW k \in Users \cup Tokens, Available(r, k), Take(r, k),
               \A q \in Requests \ {r} : pc'[q] = pc[q] /\ ctx'[q] = ctx[q]
        PROVE  Apart(r)
    BY <1>0, <2>2 DEF Apart, Take, Available, TypeOK
  <2>3. \A q \in Requests \ {r} : ctx'[q] = ctx[q] /\ pc'[q] = pc[q]
    BY <1>0, <1>4 DEF Step, RejectCookie, LockToken, RefreshLockUser, LoginLockUser,
       ChangePasswordLockUser, ResetPasswordLockUser, RejectCredentials, LockRow, LockGap,
       PickOldest, RevokeFamily, RevokeUser, OpenFamily, Rotate, Commit, Rollback, Release,
       Goto, TypeOK
  <2>4. CASE LockToken(r)
    <3>1. ctx[r].token \in Users \cup Tokens
      BY <1>0, <2>4 DEF LockToken, TypeOK, Context
    <3> QED
      BY <2>2, <2>3, <2>4, <3>1 DEF LockToken
  <2>5. CASE RefreshLockUser(r) \/ LoginLockUser(r) \/ ChangePasswordLockUser(r)
             \/ ResetPasswordLockUser(r)
    <3>1. ctx[r].user \in Users \cup Tokens
      BY <1>0, <2>5 DEF RequestInvariant, ContextMatches, RefreshLockUser, LoginLockUser,
                        ChangePasswordLockUser, ResetPasswordLockUser
    <3> QED
      BY <2>2, <2>3, <2>5, <3>1 DEF RefreshLockUser, LoginLockUser,
                        ChangePasswordLockUser, ResetPasswordLockUser
  <2>6. CASE LockRow(r)
    BY <2>2, <2>3, <2>6 DEF LockRow, RowsIn, Available
  <2>7. CASE LockGap(r) \/ PickOldest(r)
    BY <2>3, <2>7 DEF LockGap, PickOldest, Apart
  <2>8. CASE RevokeFamily(r) \/ RevokeUser(r)
    <3>1. /\ UNCHANGED <<db, owner>>
          /\ \A t \in Tokens : owner[t] # r => work'[t] = work[t]
      BY <2>8 DEF RevokeFamily, RevokeUser, Revoke, Revocable, Scanned, Mine
    <3> QED
      BY <2>3, <3>1 DEF Apart
  <2>9. CASE OpenFamily(r)
    <3>1. PICK t \in Fresh : /\ Take(r, t) /\ db' = db
                             /\ \A s \in Tokens \ {t} : work'[s] = work[s]
      BY <1>0, <2>9 DEF OpenFamily, TypeOK
    <3>2. t \in Tokens /\ owner[t] = NoRequest
      BY DEF Fresh, SessionInvariant, RowInvariant, WritesAreLocked
    <3> QED
      BY <1>0, <2>3, <3>1, <3>2 DEF Apart, Take, TypeOK
  <2>10. CASE Rotate(r)
    <3>1. PICK t \in Fresh : /\ Take(r, t) /\ db' = db
                             /\ \A s \in Tokens \ {t, ctx[r].token} : work'[s] = work[s]
      BY <1>0, <2>10 DEF Rotate, TypeOK
    <3>2. t \in Tokens /\ owner[t] = NoRequest
      BY DEF Fresh, SessionInvariant, RowInvariant, WritesAreLocked
    <3>3. owner[ctx[r].token] = r
      BY <1>0, <2>10 DEF Rotate, RequestInvariant, HoldsToken, Mine
    <3> QED
      BY <1>0, <2>3, <3>1, <3>2, <3>3 DEF Apart, Take, TypeOK
  <2>11. CASE Commit(r)
    BY <1>0, <2>3, <2>11 DEF Apart, Commit, Release, Mine, TypeOK
  <2> QED
    BY <1>4, <2>1, <2>4, <2>5, <2>6, <2>7, <2>8, <2>9, <2>10, <2>11 DEF Step
<1> QED
  BY <1>2, <1>3, <1>4 DEF DeadlockVictim, Abort

\* What r has written stays as it is while others act.
LEMMA OthersKeepWrites ==
  ASSUME SessionInvariant, NEW r, Apart(r),
         NEW q \in Requests \ {r}, WritesFit(q)
  PROVE  WritesFit(q)'
<1>0. /\ TypeOK /\ RowInvariant /\ RequestInvariant(q)
      /\ pc'[q] = pc[q] /\ ctx'[q] = ctx[q]
      /\ \A k \in Users \cup Tokens : Mine(q, k)' <=> Mine(q, k)
      /\ \A t \in Tokens : Mine(q, t) => work'[t] = work[t] /\ db'[t] = db[t]
  BY DEF SessionInvariant, Apart, Mine
<1>1. Born(q)' = Born(q) /\ Ended(q)' = Ended(q)
  BY <1>0 DEF Born, Ended
<1>2. pc[q] = "insert" => ctx[q].user \in Users
  BY <1>0 DEF RequestInvariant, ContextMatches, HoldsToken, HoldsAccount,
              RowInvariant, RowsAreWellFormed
<1>3. \A t \in Tokens : Mine(q, t) /\ t \in UsableAfter(q) => t \in UsableAfter(q)'
  BY <1>0 DEF UsableAfter, AfterCommit, Expired
<1>4. pc[q] = "revokeFamily" /\ ctx[q].op = "login" =>
        \E t \in UsableAfter(q)' : Mine(q, t)' /\ work'[t].family = ctx[q].family
  <2> SUFFICES ASSUME pc[q] = "revokeFamily", ctx[q].op = "login"
               PROVE  \E t \in UsableAfter(q)' : Mine(q, t)' /\ work'[t].family = ctx[q].family
    OBVIOUS
  <2>1. PICK t \in UsableAfter(q) : Mine(q, t) /\ work[t].family = ctx[q].family
    BY DEF WritesFit
  <2>2. t \in Tokens
    BY DEF UsableAfter
  <2> QED
    BY <1>0, <1>3, <2>1, <2>2
<1>5. \A t \in Born(q) : /\ t \in Tokens /\ work'[t] = work[t]
                         /\ work[t].status = "live" => work[t].user \in Users
  BY <1>0 DEF Born, RowInvariant, RowsAreWellFormed
<1>6. \A t \in Ended(q) : db'[t] = db[t]
  BY <1>0 DEF Ended
<1>7. \A t \in Born(q) : /\ pc[q] = "commit" /\ ctx[q].op \in {"login", "refresh"}
                         /\ ctx[q].op = "refresh" => ctx[q].reason = "none"
                         /\ work'[t].status = "live" /\ owner'[work'[t].user] = q
                         /\ Born(q) = {t}
  BY <1>0, <1>5 DEF WritesFit, Mine
<1>8. /\ pc[q] # "idle" => ctx[q].op # "none"
      /\ pc[q] = "insert" => owner'[ctx[q].user] = q
  BY <1>0, <1>2 DEF WritesFit, Mine
<1>9. pc[q] = "commit" /\ ctx[q].op = "login" =>
         \E t \in Born(q) : work'[t].family = t /\ work'[t].user = ctx[q].user
  BY <1>5 DEF WritesFit
<1>10. pc[q] = "commit" /\ ctx[q].op = "refresh" /\ ctx[q].reason = "none" =>
         \E t \in Born(q), s \in Ended(q) : /\ work'[t].family = ctx[q].family
                                           /\ t # ctx[q].family
  BY <1>5 DEF WritesFit
<1>11. \A t \in Ended(q) : IF ctx[q].op \in {"refresh", "logout"}
                           THEN db'[t].family = ctx[q].family
                           ELSE db'[t].user = ctx[q].user
  BY <1>6 DEF WritesFit
<1> QED
  BY <1>0, <1>1, <1>4, <1>7, <1>8, <1>9, <1>10, <1>11 DEF WritesFit, Mine

\* A transaction that is over has written nothing.
LEMMA IdleWritesNothing ==
  ASSUME NEW r, pc'[r] = "idle", \A t \in Tokens : owner'[t] # r
  PROVE  WritesFit(r)'
<1>1. Born(r)' = {} /\ Ended(r)' = {}
  BY DEF Born, Ended, Mine
<1> QED
  BY <1>1 DEF WritesFit

\* A request that arrives has written nothing.
LEMMA BeginWritesNothing ==
  ASSUME SessionInvariant, NEW r \in Requests, NEW s \in {"lockToken", "lockUser", "revokeUser"},
         NEW c, c.op # "none", Begin(r, s, c)
  PROVE  WritesFit(r)'
<1>0. /\ pc'[r] = s /\ ctx'[r] = c /\ UNCHANGED <<db, work, owner>>
      /\ \A t \in Tokens : owner[t] # r
  BY DEF SessionInvariant, TypeOK, Begin, Goto, RequestInvariant, ContextMatches, Mine
<1>1. Born(r)' = {} /\ Ended(r)' = {}
  BY <1>0 DEF Born, Ended, Mine
<1> QED
  BY <1>0, <1>1 DEF WritesFit

\* A request that has just arrived has written nothing.
LEMMA ArriveWritesNothing ==
  ASSUME SessionInvariant, NEW r \in Requests, Arrive(r)
  PROVE  WritesFit(r)'
<1>0. PICK c : \E s \in {"lockToken", "lockUser", "revokeUser"} : Begin(r, s, c) /\ c.op # "none"
  <2>1. CASE \E t \in Issued \cup {NoToken}, o \in {"refresh", "logout"} :
             BeginCookieRequest(r, o, t)
    <3> PICK t \in Issued \cup {NoToken}, o \in {"refresh", "logout"} :
               BeginCookieRequest(r, o, t)
      BY <2>1
    <3>1. PICK c : c = [NoContext EXCEPT !.op = o, !.token = t]
      OBVIOUS
    <3>2. c.op = o /\ Begin(r, "lockToken", c)
      BY <3>1 DEF NoContext, BeginCookieRequest
    <3> QED
      BY <3>2
  <2>2. CASE \E u \in Users, p \in Passwords : BeginLogin(r, u, p)
    <3> PICK u, p : BeginLogin(r, u, p)
      BY <2>2
    <3>1. PICK c : c = [NoContext EXCEPT !.op = "login", !.user = u, !.password = p]
      OBVIOUS
    <3>2. c.op = "login" /\ Begin(r, "lockUser", c)
      BY <3>1 DEF NoContext, BeginLogin
    <3> QED
      BY <3>2
  <2>3. CASE \E u \in Users : BeginLogoutAll(r, u)
    <3> PICK u : BeginLogoutAll(r, u)
      BY <2>3
    <3>1. PICK c : c = [NoContext EXCEPT !.op = "logout_all", !.user = u,
                                         !.reason = "logout_all"]
      OBVIOUS
    <3>2. c.op = "logout_all" /\ Begin(r, "revokeUser", c)
      BY <3>1 DEF NoContext, BeginLogoutAll
    <3> QED
      BY <3>2
  <2>4. CASE \E u \in Users, p \in Passwords : BeginChangePassword(r, u, p)
    <3> PICK u, p : BeginChangePassword(r, u, p)
      BY <2>4
    <3>1. PICK c : c = [NoContext EXCEPT !.op = "change_password", !.user = u,
                                         !.password = p, !.reason = "logout_all"]
      OBVIOUS
    <3>2. c.op = "change_password" /\ Begin(r, "lockUser", c)
      BY <3>1 DEF NoContext, BeginChangePassword
    <3> QED
      BY <3>2
  <2>5. CASE \E u \in Users : BeginResetPassword(r, u)
    <3> PICK u : BeginResetPassword(r, u)
      BY <2>5
    <3>1. PICK c : c = [NoContext EXCEPT !.op = "reset_password", !.user = u,
                                         !.reason = "logout_all"]
      OBVIOUS
    <3>2. c.op = "reset_password" /\ Begin(r, "lockUser", c)
      BY <3>1 DEF NoContext, BeginResetPassword
    <3> QED
      BY <3>2
  <2> QED
    BY <2>1, <2>2, <2>3, <2>4, <2>5 DEF Arrive
<1>1. PICK s \in {"lockToken", "lockUser", "revokeUser"} : Begin(r, s, c) /\ c.op # "none"
  BY <1>0
<1> QED
  BY <1>1, BeginWritesNothing

\* Taking locks writes nothing.
LEMMA LocksWriteNothing ==
  ASSUME NEW r, UNCHANGED <<db, work>>,
         \A t \in Tokens : \/ owner'[t] = r <=> owner[t] = r
                           \/ /\ owner'[t] = r /\ owner[t] # r
                              /\ work[t] = db[t] /\ db[t].status # "absent"
  PROVE  Born(r)' = Born(r) /\ Ended(r)' = Ended(r)
  BY DEF Born, Ended, Mine

\* A statement that only locks and decides keeps what the transaction has written.
LEMMA DecidingKeepsWrites ==
  ASSUME SessionInvariant, NEW r, WritesFit(r),
         Born(r)' = Born(r), Ended(r)' = Ended(r), UNCHANGED <<db, work>>,
         pc[r] \notin {"idle", "commit"}, pc'[r] \notin {"idle", "commit"},
         ctx'[r].op = ctx[r].op, ctx'[r].user = ctx[r].user,
         ctx[r].op \in {"refresh", "logout"} => ctx'[r].family = ctx[r].family,
         pc'[r] = "insert" => owner'[ctx[r].user] = r,
         pc'[r] = "revokeFamily" /\ ctx[r].op = "login" =>
            \E t \in UsableAfter(r)' : owner'[t] = r /\ work[t].family = ctx'[r].family
  PROVE  WritesFit(r)'
<1>1. Born(r) = {}
  BY DEF WritesFit
<1>2. ctx[r].op # "none"
  BY DEF WritesFit
<1>3. \A t \in Ended(r) : IF ctx'[r].op \in {"refresh", "logout"}
                          THEN db[t].family = ctx'[r].family
                          ELSE db[t].user = ctx'[r].user
  BY DEF WritesFit
<1> QED
  BY <1>1, <1>2, <1>3 DEF WritesFit, Mine

\* The cookie's row is locked as it was committed.
LEMMA LockTokenWritesNothing ==
  ASSUME SessionInvariant, NEW r \in Requests, LockToken(r), WritesFit(r)
  PROVE  WritesFit(r)'
<1>0. /\ TypeOK /\ RequestInvariant(r) /\ pc[r] = "lockToken" /\ r # NoRequest
      /\ UNCHANGED <<db, work>>
      /\ ctx[r].token \in Tokens /\ Available(r, ctx[r].token)
      /\ owner' = [owner EXCEPT ![ctx[r].token] = r]
  BY NamesAreDistinct DEF SessionInvariant, LockToken, Take, TypeOK, Context
<1>1. PICK t \in Tokens : t = ctx[r].token
  BY <1>0
<1>2. /\ \A s \in Tokens : owner[s] # r
      /\ db[t].status # "absent" /\ work[t] = db[t]
  BY <1>0, <1>1, NamesAreDistinct
     DEF RequestInvariant, ContextMatches, Mine, Available, SessionInvariant,
         RowInvariant, WritesAreLocked
<1>3. \A s \in Tokens : owner'[s] = r => s = t
  BY <1>0, <1>1, <1>2 DEF TypeOK
<1>4. Born(r)' = {} /\ Ended(r)' = {}
  BY <1>0, <1>2, <1>3 DEF Born, Ended, Mine
<1>5. /\ pc'[r] \in {"lockUser", "revokeFamily"}
      /\ ctx'[r].op \in {"refresh", "logout"}
  <2>1. ctx[r].op \in {"refresh", "logout"}
    BY <1>0 DEF RequestInvariant, ContextMatches
  <2>2. pc'[r] \in {"lockUser", "revokeFamily"}
    BY <1>0 DEF LockToken, Goto, TypeOK
  <2>3. PICK user, family, reason, at :
          ctx' = [ctx EXCEPT ![r].user = user, ![r].family = family,
                             ![r].reason = reason, ![r].at = at]
    BY DEF LockToken
  <2>4. PICK old \in Context : old = ctx[r]
    BY <1>0 DEF TypeOK
  <2>5. PICK c : c = [old EXCEPT !.user = user, !.family = family,
                                 !.reason = reason, !.at = at]
    OBVIOUS
  <2>6. ctx' = [ctx EXCEPT ![r] = c] /\ c.op = old.op
    BY <1>0, <2>3, <2>4, <2>5 DEF TypeOK, Context
  <2> QED
    BY <1>0, <2>1, <2>2, <2>4, <2>6 DEF TypeOK
<1> QED
  BY <1>4, <1>5 DEF WritesFit

\* The decisions taken on the locked account write no row.
LEMMA LockUserWritesNothing ==
  ASSUME SessionInvariant, NEW r \in Requests, WritesFit(r),
         RefreshLockUser(r) \/ LoginLockUser(r) \/ ChangePasswordLockUser(r)
            \/ ResetPasswordLockUser(r)
  PROVE  WritesFit(r)'
<1>0. /\ TypeOK /\ RequestInvariant(r) /\ pc[r] = "lockUser" /\ r # NoRequest
      /\ UNCHANGED <<db, work>>
      /\ ctx[r].user \in Users
      /\ owner' = [owner EXCEPT ![ctx[r].user] = r]
  BY NamesAreDistinct
     DEF SessionInvariant, RefreshLockUser, LoginLockUser, ChangePasswordLockUser,
         ResetPasswordLockUser, Take, RequestInvariant, ContextMatches
<1>1. /\ \A t \in Tokens : owner'[t] = owner[t]
      /\ owner'[ctx[r].user] = r
  BY <1>0, NamesAreDistinct DEF TypeOK
<1>2. Born(r)' = Born(r) /\ Ended(r)' = Ended(r)
  BY <1>0, <1>1, LocksWriteNothing
<1>3. PICK old \in Context : old = ctx[r]
  BY <1>0 DEF TypeOK
<1>4. PICK c : /\ ctx' = [ctx EXCEPT ![r] = c]
               /\ c.op = old.op /\ c.user = old.user /\ c.family = old.family
  <2>1. CASE RefreshLockUser(r)
    <3>1. PICK c : c = IF account[old.user].active THEN old
                       ELSE [old EXCEPT !.reason = "inactive_account"]
      OBVIOUS
    <3>2. ctx' = [ctx EXCEPT ![r] = c]
      BY <1>0, <1>3, <2>1, <3>1 DEF RefreshLockUser, TypeOK, Context
    <3>3. c.op = old.op /\ c.user = old.user /\ c.family = old.family
      BY <1>3, <3>1 DEF Context
    <3> QED
      BY <3>2, <3>3
  <2>2. CASE LoginLockUser(r)
    <3>1. PICK excess : ctx' = [ctx EXCEPT ![r].at = now, ![r].excess = excess,
                                           ![r].reason = "session_limit"]
      BY <2>2 DEF LoginLockUser
    <3>2. PICK c : c = [old EXCEPT !.at = now, !.excess = excess, !.reason = "session_limit"]
      OBVIOUS
    <3>3. ctx' = [ctx EXCEPT ![r] = c]
      BY <1>0, <1>3, <3>1, <3>2 DEF TypeOK, Context
    <3>4. c.op = old.op /\ c.user = old.user /\ c.family = old.family
      BY <1>3, <3>2 DEF Context
    <3> QED
      BY <3>3, <3>4
  <2>3. CASE ChangePasswordLockUser(r)
    BY <1>0, <1>3, <2>3 DEF ChangePasswordLockUser, TypeOK
  <2>4. CASE ResetPasswordLockUser(r)
    <3>1. PICK p : ctx' = [ctx EXCEPT ![r].password = p]
      BY <2>4 DEF ResetPasswordLockUser
    <3>2. PICK c : c = [old EXCEPT !.password = p]
      OBVIOUS
    <3>3. ctx' = [ctx EXCEPT ![r] = c]
      BY <1>0, <1>3, <3>1, <3>2 DEF TypeOK, Context
    <3>4. c.op = old.op /\ c.user = old.user /\ c.family = old.family
      BY <1>3, <3>2 DEF Context
    <3> QED
      BY <3>3, <3>4
  <2> QED
    BY <2>1, <2>2, <2>3, <2>4
<1>5. /\ ctx'[r].op = ctx[r].op /\ ctx'[r].user = ctx[r].user
      /\ ctx'[r].family = ctx[r].family
  BY <1>0, <1>3, <1>4 DEF TypeOK
<1>6. /\ pc'[r] \in {"insert", "revokeFamily", "pickOldest", "revokeUser"}
      /\ pc'[r] = "revokeFamily" => ctx[r].op = "refresh"
  BY <1>0 DEF RefreshLockUser, LoginLockUser, ChangePasswordLockUser,
              ResetPasswordLockUser, Goto, TypeOK
<1> QED
  BY <1>0, <1>1, <1>2, <1>5, <1>6, DecidingKeepsWrites

\* A scan locks rows as they were committed.
LEMMA ScanWritesNothing ==
  ASSUME SessionInvariant, NEW r \in Requests, WritesFit(r), LockRow(r) \/ LockGap(r)
  PROVE  WritesFit(r)'
<1>0. /\ TypeOK /\ RowInvariant /\ Scanning(r) /\ r # NoRequest /\ RequestInvariant(r)
      /\ UNCHANGED <<db, work, pc, ctx>>
  BY NamesAreDistinct DEF SessionInvariant, LockRow, LockGap
<1>1. /\ \A t \in Tokens : owner[t] = r => owner'[t] = r
      /\ \A t \in Tokens : owner'[t] = r /\ owner[t] # r =>
            work[t] = db[t] /\ db[t].status # "absent"
      /\ \A u \in Users : owner'[u] = owner[u]
  <2>1. CASE LockRow(r)
    <3>1. PICK t \in Tokens : /\ owner[t] = NoRequest /\ work[t].status # "absent"
                              /\ owner' = [owner EXCEPT ![t] = r]
      BY <2>1 DEF LockRow, RowsIn, InRange, Take
    <3> QED
      BY <1>0, <3>1, NamesAreDistinct DEF RowInvariant, WritesAreLocked, TypeOK
  <2>2. CASE LockGap(r)
    BY <2>2 DEF LockGap
  <2> QED
    BY <2>1, <2>2
<1>2. Born(r)' = Born(r) /\ Ended(r)' = Ended(r)
  BY <1>0, <1>1, LocksWriteNothing
<1>3. pc[r] \in {"pickOldest", "revokeFamily", "revokeUser"}
  BY <1>0 DEF Scanning
<1>4. pc[r] = "revokeFamily" /\ ctx[r].op = "login" =>
         \E t \in UsableAfter(r)' : owner'[t] = r /\ work[t].family = ctx'[r].family
  <2> SUFFICES ASSUME pc[r] = "revokeFamily", ctx[r].op = "login"
               PROVE  \E t \in UsableAfter(r)' : owner'[t] = r /\ work[t].family = ctx'[r].family
    OBVIOUS
  <2>1. PICK t \in UsableAfter(r) : Mine(r, t) /\ work[t].family = ctx[r].family
    BY DEF WritesFit
  <2>2. t \in Tokens /\ owner[t] = r /\ owner'[t] = r
    BY <1>1, <2>1 DEF UsableAfter, Mine
  <2>3. t \in UsableAfter(r)'
    BY <1>0, <2>1, <2>2 DEF UsableAfter, AfterCommit, Mine, Expired
  <2> QED
    BY <1>0, <2>1, <2>2, <2>3
<1> QED
  BY <1>0, <1>2, <1>3, <1>4, DecidingKeepsWrites

\* The family to evict is one the login holds a usable row of.
LEMMA PickOldestWritesNothing ==
  ASSUME SessionInvariant, NEW r \in Requests, WritesFit(r), PickOldest(r)
  PROVE  WritesFit(r)'
<1>0. /\ TypeOK /\ RowInvariant /\ RequestInvariant(r) /\ pc[r] = "pickOldest"
      /\ Scanned(r) /\ UNCHANGED <<db, work, owner>>
      /\ ctx[r].op = "login" /\ ctx[r].user \in Users /\ Mine(r, ctx[r].user)
  BY DEF SessionInvariant, PickOldest, RequestInvariant, ContextMatches, HoldsAccount
<1>1. Born(r)' = Born(r) /\ Ended(r)' = Ended(r)
  BY <1>0, LocksWriteNothing
<1>2. CASE Candidates(r) = {}
  <2>1. pc'[r] = "insert" /\ ctx' = ctx
    BY <1>0, <1>2 DEF PickOldest, Goto, TypeOK
  <2> QED
    BY <1>0, <1>1, <2>1, DecidingKeepsWrites DEF Mine
<1>3. CASE Candidates(r) # {}
  <2>1. PICK t \in Candidates(r) : /\ ctx' = [ctx EXCEPT ![r].family = work[t].family]
                                  /\ pc' = [pc EXCEPT ![r] = "revokeFamily"]
    BY <1>3 DEF PickOldest, Goto
  <2>2. PICK old \in Context, f \in {work[t].family} : old = ctx[r]
    BY <1>0 DEF TypeOK
  <2>3. PICK c : c = [old EXCEPT !.family = f]
    OBVIOUS
  <2>4. /\ pc'[r] = "revokeFamily" /\ ctx'[r] = c
        /\ c.op = old.op /\ c.user = old.user /\ c.family = f /\ c.at = old.at
    BY <1>0, <2>1, <2>2, <2>3 DEF TypeOK, Context
  <2>5. /\ t \in Tokens /\ work[t].status = "live" /\ work[t].user = ctx[r].user
        /\ ~Expired(work[t], ctx[r].at)
    BY DEF Candidates
  <2>6. owner[t] = r
    BY <1>0, <2>5 DEF Scanned, ScanKey, RowsIn, InRange, Mine
  <2>7. t \in UsableAfter(r)' /\ owner'[t] = r
    BY <1>0, <2>2, <2>4, <2>5, <2>6 DEF UsableAfter, AfterCommit, Mine, Expired
  <2> QED
    BY <1>0, <1>1, <2>2, <2>4, <2>7, DecidingKeepsWrites
<1> QED
  BY <1>2, <1>3

\* What a revocation writes: rows of the scanned range, marked for its reason.
LEMMA RevocationWrites ==
  ASSUME SessionInvariant, NEW r \in Requests, WritesFit(r), Scanned(r),
         pc[r] \in {"revokeFamily", "revokeUser"},
         Revoke(Revocable(r), ctx[r].reason), UNCHANGED <<db, owner>>
  PROVE  /\ Born(r)' = {}
         /\ \A t \in Ended(r)' : t \in Ended(r) \/ t \in RowsIn(ScanKey(r))
         /\ \A t \in Ended(r)' : /\ t \in Tokens /\ db[t].status = "live"
                                 /\ db[t].user = work[t].user
                                 /\ db[t].family = work[t].family
<1>1. Born(r)' = {}
  BY DEF WritesFit, Born, Mine
<1>2. \A t \in Tokens \ RowsIn(ScanKey(r)) : work'[t] = work[t]
  BY DEF Revoke, Revocable
<1>3. \A t \in Ended(r)' : t \in Tokens /\ owner[t] = r /\ db[t].status = "live"
                           /\ work'[t].status # "live"
  BY DEF Ended, Mine
<1>4. \A t \in Ended(r)' : t \in Ended(r) \/ t \in RowsIn(ScanKey(r))
  BY <1>2, <1>3 DEF Ended, Mine
<1>5. \A t \in Tokens : db[t].status = "live" =>
          db[t].user = work[t].user /\ db[t].family = work[t].family
  BY DEF SessionInvariant, RowInvariant, RowsAreWellFormed
<1> QED
  BY <1>1, <1>3, <1>4, <1>5

\* A family is revoked for its own request, or evicted from the login's account.
LEMMA RevokeFamilyWrites ==
  ASSUME SessionInvariant, NEW r \in Requests, WritesFit(r), RevokeFamily(r)
  PROVE  WritesFit(r)'
<1>0. /\ TypeOK /\ RowInvariant /\ RequestInvariant(r) /\ pc[r] = "revokeFamily"
      /\ Scanned(r) /\ UNCHANGED <<db, owner>> /\ ScanKey(r) = ctx[r].family
      /\ Revoke(Revocable(r), ctx[r].reason)
      /\ ctx[r].family \in Tokens /\ ctx[r].reason \in Closing
      /\ ctx[r].op \in {"refresh", "logout", "login"}
  BY DEF SessionInvariant, RevokeFamily, RequestInvariant, ContextMatches, ScanKey
<1>1. /\ Born(r)' = {}
      /\ \A t \in Ended(r)' : t \in Ended(r) \/ t \in RowsIn(ctx[r].family)
      /\ \A t \in Ended(r)' : /\ t \in Tokens /\ db[t].status = "live"
                              /\ db[t].user = work[t].user
                              /\ db[t].family = work[t].family
  BY <1>0, RevocationWrites
<1>2. \A t \in RowsIn(ctx[r].family) : /\ t \in Tokens /\ work[t].family = ctx[r].family
                                       /\ work[t].user = work[ctx[r].family].user
  BY <1>0, NamesAreDistinct DEF RowsIn, InRange, RowInvariant, RowsAreWellFormed
<1>3. CASE ctx[r].op # "login"
  <2>1. pc'[r] = "commit" /\ ctx' = ctx
    BY <1>0, <1>3 DEF RevokeFamily, Goto, TypeOK
  <2>2. \A t \in Ended(r)' : db[t].family = ctx[r].family
    BY <1>0, <1>1, <1>2, <1>3 DEF WritesFit
  <2>3. ctx[r].op = "refresh" => ctx[r].reason # "none"
    BY <1>0 DEF Closing
  <2> QED
    BY <1>0, <1>1, <1>3, <2>1, <2>2, <2>3 DEF WritesFit
<1>4. CASE ctx[r].op = "login"
  <2>1. PICK old \in Context, e \in {ctx[r].excess - 1} : old = ctx[r]
    BY <1>0 DEF TypeOK
  <2>2. PICK c : c = [old EXCEPT !.excess = e]
    OBVIOUS
  <2>3. ctx' = [ctx EXCEPT ![r] = c]
    BY <1>0, <1>4, <2>1, <2>2 DEF RevokeFamily, TypeOK, Context
  <2>4. /\ pc'[r] \in {"pickOldest", "insert"}
        /\ ctx'[r].op = "login" /\ ctx'[r].user = ctx[r].user
    BY <1>0, <1>4, <2>1, <2>2, <2>3 DEF RevokeFamily, Goto, TypeOK, Context
  <2>5. PICK s \in UsableAfter(r) : Mine(r, s) /\ work[s].family = ctx[r].family
    BY <1>0, <1>4 DEF WritesFit
  <2>6. work[ctx[r].family].user = ctx[r].user
    <3>1. /\ s \in Tokens /\ work[s].status = "live" /\ work[s].user = ctx[r].user
      BY <2>5 DEF UsableAfter, AfterCommit
    <3> QED
      BY <1>0, <2>5, <3>1 DEF RowInvariant, RowsAreWellFormed
  <2>7. \A t \in Ended(r)' : db[t].user = ctx[r].user
    BY <1>0, <1>1, <1>2, <1>4, <2>6 DEF WritesFit
  <2>8. owner'[ctx[r].user] = r
    BY <1>0, <1>4 DEF RequestInvariant, HoldsAccount, Mine
  <2> QED
    BY <1>0, <1>1, <2>4, <2>7, <2>8 DEF WritesFit, Mine
<1> QED
  BY <1>3, <1>4

\* logout_all and the password operations write rows of their account.
LEMMA RevokeUserWrites ==
  ASSUME SessionInvariant, NEW r \in Requests, WritesFit(r), RevokeUser(r)
  PROVE  WritesFit(r)'
<1>0. /\ TypeOK /\ RowInvariant /\ RequestInvariant(r) /\ pc[r] = "revokeUser"
      /\ Scanned(r) /\ UNCHANGED <<db, owner, ctx>> /\ ScanKey(r) = ctx[r].user
      /\ Revoke(Revocable(r), ctx[r].reason)
      /\ ctx[r].op \in AccountWide /\ ctx[r].user \in Users
      /\ pc'[r] = "commit"
  BY DEF SessionInvariant, RevokeUser, RequestInvariant, ContextMatches, ScanKey, Goto, TypeOK
<1>1. /\ Born(r)' = {}
      /\ \A t \in Ended(r)' : t \in Ended(r) \/ t \in RowsIn(ctx[r].user)
      /\ \A t \in Ended(r)' : /\ t \in Tokens /\ db[t].status = "live"
                              /\ db[t].user = work[t].user
                              /\ db[t].family = work[t].family
  BY <1>0, RevocationWrites
<1>2. \A t \in RowsIn(ctx[r].user) : t \in Tokens /\ work[t].user = ctx[r].user
  BY <1>0, NamesAreDistinct DEF RowsIn, InRange, RowInvariant, RowsAreWellFormed
<1>3. \A t \in Ended(r)' : db[t].user = ctx[r].user
  BY <1>0, <1>1, <1>2 DEF WritesFit
<1> QED
  BY <1>0, <1>1, <1>3 DEF WritesFit

\* A login writes its first row besides what it has evicted.
LEMMA OpenFamilyWrites ==
  ASSUME SessionInvariant, NEW r \in Requests, WritesFit(r), OpenFamily(r)
  PROVE  WritesFit(r)'
<1>0. /\ TypeOK /\ RowInvariant /\ pc[r] = "insert" /\ ctx[r].op = "login"
      /\ UNCHANGED <<db, ctx>> /\ pc'[r] = "commit"
      /\ ctx[r].user \in Users /\ Mine(r, ctx[r].user)
  BY DEF SessionInvariant, OpenFamily, RequestInvariant, HoldsAccount, Goto, TypeOK
<1>1. PICK t \in Fresh : /\ Take(r, t)
         /\ work' = [work EXCEPT ![t] = NewRow(ctx[r].user, t, ctx[r].at,
                        ctx[r].at + AbsoluteLifetime, ctx[r].password)]
  BY DEF OpenFamily
<1>2. PICK row : row = NewRow(ctx[r].user, t, ctx[r].at,
                              ctx[r].at + AbsoluteLifetime, ctx[r].password)
  OBVIOUS
<1>3. row.status = "live" /\ row.user = ctx[r].user /\ row.family = t
  BY <1>2 DEF NewRow, Blank
<1>4. t \in Tokens /\ t \notin Users /\ db[t].status = "absent"
  BY <1>0, NamesAreDistinct DEF Fresh, RowInvariant, RowsAreWellFormed
<1>5. /\ work'[t] = row /\ owner'[t] = r /\ owner'[ctx[r].user] = r
      /\ \A s \in Tokens \ {t} : work'[s] = work[s] /\ owner'[s] = owner[s]
  BY <1>0, <1>1, <1>2, <1>4 DEF TypeOK, Take, Mine
<1>6. Born(r) = {}
  BY <1>0 DEF WritesFit
<1>7. Born(r)' = {t}
  BY <1>0, <1>4, <1>5, <1>6 DEF Born, Mine
<1>8. Ended(r)' = Ended(r)
  BY <1>0, <1>4, <1>5 DEF Ended, Mine
<1> QED
  BY <1>0, <1>3, <1>5, <1>7, <1>8 DEF WritesFit, Mine

\* A rotation writes the child and the mark on its parent.
LEMMA RotateWrites ==
  ASSUME SessionInvariant, NEW r \in Requests, WritesFit(r), Rotate(r)
  PROVE  WritesFit(r)'
<1>0. /\ TypeOK /\ RowInvariant /\ pc[r] = "insert" /\ ctx[r].op = "refresh"
      /\ UNCHANGED <<db, ctx>> /\ pc'[r] = "commit"
  BY DEF SessionInvariant, Rotate, Goto, TypeOK
<1>1. PICK parent \in Tokens, old \in Row : parent = ctx[r].token /\ old = work[parent]
  BY <1>0 DEF SessionInvariant, RequestInvariant, HoldsToken, TypeOK
<1>2. /\ owner[parent] = r /\ old = db[parent] /\ old.status = "live"
      /\ ctx[r].user = old.user /\ ctx[r].family = old.family /\ ctx[r].reason = "none"
      /\ old.user \in Users /\ owner[old.user] = r
      /\ old.family \in Tokens /\ work[old.family].status # "absent"
  BY <1>0, <1>1 DEF SessionInvariant, RequestInvariant, HoldsToken, Mine, WritesFit,
                    RowInvariant, RowsAreWellFormed
<1>3. PICK row : row = NewRow(old.user, old.family, ctx[r].at, old.familyExpires, old.password)
  OBVIOUS
<1>4. PICK t \in Fresh : /\ Take(r, t)
         /\ work' = [work EXCEPT ![t] = row, ![parent].status = "rotated",
                                 ![parent].replacedBy = t]
  BY <1>1, <1>3 DEF Rotate
<1>5. row.status = "live" /\ row.user = old.user /\ row.family = old.family
  BY <1>3 DEF NewRow, Blank
<1>6. /\ t \in Tokens /\ t \notin Users /\ db[t].status = "absent"
      /\ t # parent /\ t # old.family
  BY <1>0, <1>1, <1>2, NamesAreDistinct DEF Fresh, RowInvariant, RowsAreWellFormed
<1>7. /\ work'[t] = row /\ owner'[t] = r /\ owner'[old.user] = r
      /\ \A s \in Tokens \ {t} : owner'[s] = owner[s]
      /\ \A s \in Tokens \ {t, parent} : work'[s] = work[s]
  BY <1>0, <1>2, <1>4, <1>6 DEF TypeOK, Take
<1>8. work'[parent].status = "rotated"
  BY <1>0, <1>1, <1>4, <1>6 DEF TypeOK, Row
<1>9. Born(r) = {}
  BY <1>0 DEF WritesFit
<1>10. Born(r)' = {t}
  BY <1>0, <1>6, <1>7, <1>9 DEF Born, Mine
<1>11. parent \in Ended(r)' /\ \A s \in Ended(r)' : s = parent \/ s \in Ended(r)
  BY <1>0, <1>1, <1>2, <1>6, <1>7, <1>8 DEF Ended, Mine
<1>12. \A s \in Ended(r)' : db[s].family = ctx[r].family
  BY <1>0, <1>2, <1>11 DEF WritesFit
<1> QED
  BY <1>0, <1>2, <1>5, <1>6, <1>7, <1>10, <1>11, <1>12 DEF WritesFit, Mine

\* Whatever a request does, its writes stay those of one operation.
LEMMA StepKeepsOwnWrites ==
  ASSUME SessionInvariant, NEW r \in Requests, WritesFit(r),
         Arrive(r) \/ Step(r) \/ DeadlockVictim(r) \/ Abort(r)
  PROVE  WritesFit(r)'
<1>1. ASSUME Rollback(r) \/ Commit(r) PROVE WritesFit(r)'
  <2>1. pc'[r] = "idle" /\ \A t \in Tokens : owner'[t] # r
    BY <1>1, NamesAreDistinct DEF Rollback, Commit, Release, Mine, SessionInvariant, TypeOK
  <2> QED
    BY <2>1, IdleWritesNothing
<1>2. CASE Step(r)
  BY <1>1, <1>2, LockTokenWritesNothing, LockUserWritesNothing, ScanWritesNothing,
     PickOldestWritesNothing, RevokeFamilyWrites, RevokeUserWrites, OpenFamilyWrites,
     RotateWrites DEF Step, RejectCookie, RejectCredentials
<1> QED
  BY <1>1, <1>2, ArriveWritesNothing DEF DeadlockVictim, Abort

\* At every step of every interleaving, what each transaction has written and not yet
\* committed is part of one operation.
LEMMA NextKeepsWrites ==
  SessionInvariant /\ WritesAreOperations /\ [Next]_vars => WritesAreOperations'
<1> SUFFICES ASSUME SessionInvariant, WritesAreOperations, [Next]_vars,
                    NEW q \in Requests
             PROVE  WritesFit(q)'
  BY DEF WritesAreOperations
<1>0. WritesFit(q)
  BY DEF WritesAreOperations
<1>1. CASE Tick \/ (\E u \in Users : ChangeStatus(u)) \/ UNCHANGED vars
  <2>1. UNCHANGED <<db, work, owner, pc, ctx>>
    BY <1>1 DEF Tick, ChangeStatus, vars
  <2> QED
    BY <1>0, <2>1 DEF WritesFit, Born, Ended, UsableAfter, AfterCommit, Mine, Expired
<1>2. ASSUME NEW r \in Requests, Arrive(r) \/ Step(r) \/ DeadlockVictim(r) \/ Abort(r)
      PROVE  WritesFit(q)'
  <2>1. CASE q = r
    BY <1>0, <1>2, <2>1, StepKeepsOwnWrites
  <2>2. CASE q # r
    BY <1>0, <1>2, <2>2, StepsStayApart, OthersKeepWrites
  <2> QED
    BY <2>1, <2>2
<1> QED
  BY <1>1, <1>2 DEF Next

\* What the refinement rests on.
TransactionInvariant ==
    SessionInvariant /\ ChainInvariant /\ RevocationsStand /\ WritesAreOperations

\* It holds in every reachable state.
THEOREM TransactionsHold == Spec => []TransactionInvariant
<1>1. Init => TransactionInvariant
  <2> SUFFICES ASSUME Init PROVE TransactionInvariant
    OBVIOUS
  <2>1. RevocationsStand
    BY DEF Init, RevocationsStand
  <2>2. ASSUME NEW r \in Requests PROVE WritesFit(r)
    <3>1. pc[r] = "idle" /\ Born(r) = {} /\ Ended(r) = {}
      BY NamesAreDistinct DEF Init, Born, Ended, Mine
    <3> QED
      BY <3>1 DEF WritesFit
  <2> QED
    BY <2>1, <2>2, InitEstablishesInvariant, InitMakesChains
       DEF TransactionInvariant, WritesAreOperations
<1>2. TransactionInvariant /\ [Next]_vars => TransactionInvariant'
  BY NextKeepsInvariant, NextKeepsChains, NextKeepsRevocations, NextKeepsWrites
     DEF TransactionInvariant
<1> QED
  BY <1>1, <1>2, PTL DEF Spec

-----------------------------------------------------------------------------
\* The transactions implement SessionRegistry: only a commit changes what a client can see,
\* and it changes it as one login, refresh, logout or password change would.

\* A family's usable token is its live row.
OneHolder ==
    \A f, t \in Tokens :
        /\ t \in LiveMembersOf(f) => LiveMembersOf(f) = {t} /\ HolderView[f] = t
        /\ LiveMembersOf(f) = {} => HolderView[f] = NoToken

\* FamiliesAreConsistent leaves a family at most one live row, so it is the holder.
LEMMA HoldersAreUnique == SessionInvariant => OneHolder
<1> SUFFICES ASSUME SessionInvariant, NEW f \in Tokens, NEW t \in Tokens
             PROVE  /\ t \in LiveMembersOf(f) => LiveMembersOf(f) = {t} /\ HolderView[f] = t
                    /\ LiveMembersOf(f) = {} => HolderView[f] = NoToken
  BY DEF OneHolder
<1>1. LiveMembersOf(f) = {} => HolderView[f] = NoToken
  BY DEF HolderView
<1>2. ASSUME t \in LiveMembersOf(f) PROVE LiveMembersOf(f) = {t}
  BY <1>2 DEF LiveMembersOf, Live, SessionInvariant, RowInvariant, FamiliesAreConsistent,
              Compatible
<1>3. ASSUME t \in LiveMembersOf(f) PROVE HolderView[f] = t
  <2>1. HolderView[f] = CHOOSE s \in {t} : TRUE
    BY <1>2, <1>3 DEF HolderView
  <2> QED
    BY <2>1
<1> QED
  BY <1>1, <1>2, <1>3

\* A step that commits nothing changes nothing a client can see.
LEMMA OnlyCommitsShow ==
  ASSUME SessionInvariant, OneHolder, OneHolder', [Next]_vars
  PROVE  (\E r \in Requests : Commit(r)) \/ UNCHANGED Registry!rvars
<1>1. ASSUME db' = db, \A u \in Users : account'[u].password = account[u].password
      PROVE  UNCHANGED Registry!rvars
  <2>1. \A f : LiveMembersOf(f)' = LiveMembersOf(f)
    BY <1>1 DEF LiveMembersOf, Live
  <2>2. \A f \in Tokens : HolderView'[f] = HolderView[f]
    <3>1. \A f \in Tokens : LiveMembersOf(f) = {} \/ \E t \in Tokens : t \in LiveMembersOf(f)
      BY DEF LiveMembersOf
    <3> QED
      BY <2>1, <3>1 DEF OneHolder
  <2>3. HolderView' = HolderView
    BY <2>2 DEF HolderView
  <2>4. UsedView' = UsedView /\ OpenerView' = OpenerView /\ PasswordView' = PasswordView
    BY <1>1 DEF UsedView, OpenerView, PasswordView
  <2> QED
    BY <2>3, <2>4 DEF Registry!rvars
<1>2. CASE \E u \in Users : ChangeStatus(u)
  <2> PICK u \in Users : ChangeStatus(u)
    BY <1>2
  <2>1. account[u] \in [active: BOOLEAN, password: Passwords]
    BY DEF SessionInvariant, TypeOK
  <2>2. PICK b \in BOOLEAN : b = ~account[u].active
    OBVIOUS
  <2>3. PICK row : row = [account[u] EXCEPT !.active = b]
    OBVIOUS
  <2>4. row.password = account[u].password /\ account' = [account EXCEPT ![u] = row]
    BY <2>1, <2>2, <2>3 DEF ChangeStatus
  <2>5. db' = db
    BY DEF ChangeStatus
  <2> QED
    BY <1>1, <2>4, <2>5 DEF SessionInvariant, TypeOK
<1>3. CASE Tick \/ UNCHANGED vars
  BY <1>1, <1>3 DEF Tick, vars
<1>4. ASSUME NEW r \in Requests, Arrive(r) PROVE UNCHANGED Registry!rvars
  BY <1>1, <1>4 DEF Arrive, BeginCookieRequest, BeginLogin, BeginLogoutAll,
                    BeginChangePassword, BeginResetPassword, Begin
<1>5. ASSUME NEW r, Rollback(r) PROVE UNCHANGED Registry!rvars
  BY <1>1, <1>5 DEF Rollback
<1>6. ASSUME NEW r \in Requests, Step(r), ~Commit(r) PROVE UNCHANGED Registry!rvars
  <2>1. CASE RejectCookie(r) \/ RejectCredentials(r)
    BY <1>5, <2>1 DEF RejectCookie, RejectCredentials
  <2>2. CASE LockToken(r) \/ RefreshLockUser(r) \/ LoginLockUser(r)
             \/ ChangePasswordLockUser(r) \/ ResetPasswordLockUser(r)
             \/ LockRow(r) \/ LockGap(r) \/ PickOldest(r)
    BY <1>1, <2>2 DEF LockToken, RefreshLockUser, LoginLockUser, ChangePasswordLockUser,
                      ResetPasswordLockUser, LockRow, LockGap, PickOldest
  <2>3. CASE RevokeFamily(r) \/ RevokeUser(r) \/ OpenFamily(r) \/ Rotate(r)
    BY <1>1, <2>3 DEF RevokeFamily, RevokeUser, OpenFamily, Rotate
  <2> QED
    BY <1>6, <2>1, <2>2, <2>3 DEF Step
<1> QED
  BY <1>2, <1>3, <1>4, <1>5, <1>6 DEF Next, DeadlockVictim, Abort

\* What a commit adds to the tokens handed out, to the families and to their members.
LEMMA CommitShows ==
  ASSUME TransactionInvariant, NEW r \in Requests, Commit(r)
  PROVE  /\ UsedView' = UsedView \cup Born(r)
         /\ \A f \in Tokens : LiveMembersOf(f)' =
               (LiveMembersOf(f) \ Ended(r)) \cup {t \in Born(r) : work[t].family = f}
         /\ \A f \in Tokens : OpenerView'[f] = IF f \in Born(r) /\ work[f].family = f
                                               THEN work[f].user ELSE OpenerView[f]
         /\ Born(r) \cap UsedView = {}
<1>0. /\ \A t \in Tokens : db'[t] = IF owner[t] = r THEN work[t] ELSE db[t]
      /\ WritesFit(r) /\ pc[r] = "commit"
  BY DEF Commit, Mine, TransactionInvariant, WritesAreOperations
<1>1. \A t \in Tokens : db[t].status # "absent" =>
         /\ work[t].status # "absent"
         /\ db[t].family = work[t].family /\ db[t].user = work[t].user
  BY CommittedLinks DEF TransactionInvariant
<1>2. \A t \in Tokens : db[t].status \in Revoked => work[t].status # "live"
  BY DEF TransactionInvariant, RevocationsStand, Revoked, Closing
<1>3. \A t \in Born(r) : work[t].status = "live"
  BY <1>0 DEF WritesFit
<1>4. \A t \in Tokens : /\ db[t].status \in Revoked \cup {"absent", "live"}
                        /\ db[t].status = "absent" => db[t].family # t
  <2>1. \A t \in Tokens : db[t] \in Row
    BY DEF TransactionInvariant, SessionInvariant, TypeOK
  <2>2. \A t \in Tokens : db[t].status = "absent" => db[t] = Blank
    BY DEF TransactionInvariant, ChainInvariant, RowsKeepOrigin
  <2> QED
    BY <2>1, <2>2, NamesAreDistinct DEF Row, Blank
<1>5. UsedView' = UsedView \cup Born(r) /\ Born(r) \cap UsedView = {}
  <2>1. \A t \in Tokens : db'[t].status # "absent" <=> db[t].status # "absent" \/ t \in Born(r)
    BY <1>0, <1>1, <1>3 DEF Born, Mine
  <2> QED
    BY <2>1 DEF UsedView, Born
<1>6. ASSUME NEW f \in Tokens
      PROVE  LiveMembersOf(f)' =
               (LiveMembersOf(f) \ Ended(r)) \cup {t \in Born(r) : work[t].family = f}
  <2>1. ASSUME NEW t \in Tokens
        PROVE  db'[t].status = "live" /\ db'[t].family = f <=>
                  \/ /\ db[t].status = "live" /\ db[t].family = f /\ t \notin Ended(r)
                  \/ t \in Born(r) /\ work[t].family = f
    <3>1. CASE owner[t] # r
      BY <1>0, <3>1 DEF Born, Ended, Mine
    <3>2. CASE owner[t] = r
      BY <1>0, <1>1, <1>2, <1>3, <1>4, <3>2 DEF Born, Ended, Mine
    <3> QED
      BY <3>1, <3>2
  <2>2. Born(r) \subseteq Tokens
    BY DEF Born
  <2> QED
    BY <2>1, <2>2 DEF LiveMembersOf, Live
<1>7. ASSUME NEW f \in Tokens
      PROVE  OpenerView'[f] = IF f \in Born(r) /\ work[f].family = f
                              THEN work[f].user ELSE OpenerView[f]
  <2>1. CASE owner[f] # r
    BY <1>0, <2>1 DEF OpenerView, Born, Mine
  <2>2. CASE owner[f] = r
    BY <1>0, <1>1, <1>4, <2>2 DEF OpenerView, Born, Mine
  <2> QED
    BY <2>1, <2>2
<1> QED
  BY <1>5, <1>6, <1>7

\* A usable row is the holder of its family, which its own user opened.
LEMMA LiveRow ==
  ASSUME TransactionInvariant, OneHolder, NEW s \in Tokens, db[s].status = "live"
  PROVE  /\ db[s].family \in Tokens /\ db[s].user \in Users
         /\ s \in LiveMembersOf(db[s].family)
         /\ HolderView[db[s].family] = s /\ s # NoToken
         /\ OpenerView[db[s].family] = db[s].user
<1>0. SessionInvariant /\ ChainInvariant
  BY DEF TransactionInvariant
<1>1. /\ work[s].status # "absent" /\ s # NoToken
      /\ db[s].family = work[s].family /\ db[s].user = work[s].user
  BY <1>0, CommittedLinks
<1>2. PICK f : f = db[s].family
  OBVIOUS
<1>3. /\ f \in Tokens /\ work[f].family = f /\ work[f].user = work[s].user
      /\ db[f].status # "absent"
  BY <1>0, <1>1, <1>2, FamilyRow
<1>4. db[f].family = f /\ db[f].user = db[s].user
  BY <1>0, <1>1, <1>3, CommittedLinks
<1>5. db[s].user \in Users
  BY <1>0, <1>1 DEF SessionInvariant, RowInvariant, RowsAreWellFormed
<1>6. s \in LiveMembersOf(f)
  BY <1>2 DEF LiveMembersOf, Live
<1> QED
  BY <1>1, <1>2, <1>3, <1>4, <1>5, <1>6 DEF OneHolder, OpenerView

\* A family without members has no holder; one with members has its only member.
LEMMA Holders ==
  ASSUME OneHolder, NEW f \in Tokens
  PROVE  \/ LiveMembersOf(f) = {} /\ HolderView[f] = NoToken
         \/ \E s \in Tokens : /\ LiveMembersOf(f) = {s} /\ HolderView[f] = s
                              /\ db[s].status = "live" /\ db[s].family = f
<1>1. LiveMembersOf(f) = {} \/ \E s \in Tokens : s \in LiveMembersOf(f)
  BY DEF LiveMembersOf
<1>2. \A s \in Tokens : s \in LiveMembersOf(f) => db[s].status = "live" /\ db[s].family = f
  BY DEF LiveMembersOf, Live
<1> QED
  BY <1>1, <1>2 DEF OneHolder

\* A commit that inserts nothing closes the families of the rows it ends.
LEMMA CommitCloses ==
  ASSUME TransactionInvariant, OneHolder, OneHolder', NEW r \in Requests, Commit(r),
         Born(r) = {}, NEW F \in SUBSET Tokens,
         \A s \in Ended(r) : db[s].family \in F,
         \A f \in F : HolderView[f] # NoToken => HolderView[f] \in Ended(r)
  PROVE  Registry!Close(F) /\ UNCHANGED <<UsedView, OpenerView>>
<1>1. UNCHANGED <<UsedView, OpenerView>>
  <2>1. UsedView' = UsedView \cup Born(r)
        /\ \A f \in Tokens : OpenerView'[f] = OpenerView[f]
    BY CommitShows
  <2> QED
    BY <2>1 DEF OpenerView
<1>2. ASSUME NEW f \in Tokens
      PROVE  HolderView'[f] = IF f \in F THEN NoToken ELSE HolderView[f]
  <2>1. LiveMembersOf(f)' = LiveMembersOf(f) \ Ended(r)
    BY CommitShows
  <2>2. CASE LiveMembersOf(f) = {} /\ HolderView[f] = NoToken
    BY <2>1, <2>2 DEF OneHolder
  <2>3. CASE \E s \in Tokens : /\ LiveMembersOf(f) = {s} /\ HolderView[f] = s
                               /\ db[s].status = "live" /\ db[s].family = f
    <3> PICK s \in Tokens : /\ LiveMembersOf(f) = {s} /\ HolderView[f] = s
                            /\ db[s].status = "live" /\ db[s].family = f
      BY <2>3
    <3>1. s # NoToken
      BY NamesAreDistinct
    <3>2. CASE s \in Ended(r)
      <4>1. f \in F /\ LiveMembersOf(f)' = {}
        BY <2>1, <3>2
      <4> QED
        BY <4>1 DEF OneHolder
    <3>3. CASE s \notin Ended(r)
      <4>1. f \notin F /\ s \in LiveMembersOf(f)'
        BY <2>1, <3>1, <3>3
      <4> QED
        BY <4>1 DEF OneHolder
    <3> QED
      BY <3>2, <3>3
  <2> QED
    BY <2>2, <2>3, Holders
<1>3. HolderView' = [f \in Tokens |-> HolderView'[f]]
  BY DEF HolderView
<1> QED
  BY <1>1, <1>2, <1>3 DEF Registry!Close

\* A login commits as one: it opens its family and closes those it evicted.
LEMMA LoginCommits ==
  ASSUME TransactionInvariant, OneHolder, OneHolder', NEW r \in Requests, Commit(r),
         ctx[r].op = "login"
  PROVE  \E u \in Users, f \in Tokens : Registry!Login(u, f)
<1>0. WritesFit(r) /\ pc[r] = "commit" /\ SessionInvariant
  BY DEF TransactionInvariant, WritesAreOperations, Commit
<1>1. PICK t \in Born(r) : work[t].family = t /\ work[t].user = ctx[r].user
  BY <1>0 DEF WritesFit
<1>2. PICK u \in Users : /\ u = ctx[r].user /\ t \in Tokens /\ t # NoToken
                         /\ Born(r) = {t}
  <2>1. Born(r) = {t} /\ work[t].status = "live" /\ t \in Tokens
    BY <1>0 DEF WritesFit, Born
  <2> QED
    BY <1>0, <1>1, <2>1, NamesAreDistinct DEF SessionInvariant, RowInvariant, RowsAreWellFormed
<1>3. /\ UsedView' = UsedView \cup {t} /\ t \notin UsedView
      /\ \A g \in Tokens : OpenerView'[g] = IF g = t THEN u ELSE OpenerView[g]
      /\ \A g \in Tokens \ {t} : LiveMembersOf(g)' = LiveMembersOf(g) \ Ended(r)
      /\ t \in LiveMembersOf(t)'
  BY <1>1, <1>2, CommitShows
<1> DEFINE evicted == {f \in Registry!OpenOf(u) : HolderView[f] \in Ended(r)}
<1>4. ASSUME NEW g \in Tokens
      PROVE  HolderView'[g] = IF g = t THEN t
                              ELSE IF g \in evicted THEN NoToken ELSE HolderView[g]
  <2>1. CASE g = t
    BY <1>2, <1>3, <2>1 DEF OneHolder
  <2>2. CASE g # t /\ LiveMembersOf(g) = {} /\ HolderView[g] = NoToken
    <3>1. LiveMembersOf(g)' = {}
      BY <1>3, <2>2
    <3> QED
      BY <2>2, <3>1 DEF OneHolder
  <2>3. ASSUME g # t, NEW s \in Tokens, LiveMembersOf(g) = {s}, HolderView[g] = s,
               db[s].status = "live", db[s].family = g
        PROVE  HolderView'[g] = IF g = t THEN t
                                ELSE IF g \in evicted THEN NoToken ELSE HolderView[g]
    <3>1. CASE s \in Ended(r)
      <4>1. db[s].user = u
        BY <1>0, <1>2, <3>1 DEF WritesFit
      <4>2. g \in Registry!OpenOf(u)
        BY <2>3, <4>1, LiveRow DEF Registry!OpenOf, Registry!Open
      <4>3. g \in evicted /\ LiveMembersOf(g)' = {}
        BY <1>3, <2>3, <3>1, <4>2
      <4> HIDE DEF evicted
      <4> QED
        BY <2>3, <4>3 DEF OneHolder
    <3>2. CASE s \notin Ended(r)
      <4>1. g \notin evicted /\ s \in LiveMembersOf(g)'
        BY <1>3, <2>3, <3>2
      <4> HIDE DEF evicted
      <4> QED
        BY <2>3, <4>1 DEF OneHolder
    <3> QED
      BY <3>1, <3>2
  <2> QED
    BY <2>1, <2>2, <2>3, Holders
<1>5. evicted \in SUBSET Registry!OpenOf(u)
  OBVIOUS
<1> HIDE DEF evicted
<1>6. HolderView' = [g \in Tokens |-> IF g = t THEN t
                                      ELSE IF g \in evicted THEN NoToken ELSE HolderView[g]]
  <2>1. HolderView' = [g \in Tokens |-> HolderView'[g]]
    BY DEF HolderView
  <2> QED
    BY <1>4, <2>1
<1>7. OpenerView' = [OpenerView EXCEPT ![t] = u]
  <2>1. /\ OpenerView' = [g \in Tokens |-> OpenerView'[g]]
        /\ OpenerView = [g \in Tokens |-> OpenerView[g]]
    BY DEF OpenerView
  <2> QED
    BY <1>2, <1>3, <2>1
<1>8. PasswordView' = PasswordView
  BY DEF Commit, PasswordView
<1>9. Registry!Login(u, t)
  BY <1>3, <1>5, <1>6, <1>7, <1>8 DEF Registry!Login
<1> QED
  BY <1>2, <1>9

\* A rotation commits as one: the family's usable token is exchanged for the child.
LEMMA RefreshCommits ==
  ASSUME TransactionInvariant, OneHolder, OneHolder', NEW r \in Requests, Commit(r),
         ctx[r].op = "refresh", ctx[r].reason = "none"
  PROVE  \E f, t \in Tokens : Registry!Refresh(f, t)
<1>0. WritesFit(r) /\ pc[r] = "commit"
  BY DEF TransactionInvariant, WritesAreOperations, Commit
<1>1. PICK t \in Born(r), s \in Ended(r) : /\ work[t].family = ctx[r].family
                                           /\ t # ctx[r].family
  BY <1>0 DEF WritesFit
<1>2. PICK f : f = ctx[r].family
  OBVIOUS
<1>3. /\ Born(r) = {t} /\ t \in Tokens /\ s \in Tokens /\ db[s].status = "live"
      /\ \A x \in Ended(r) : db[x].family = f
  BY <1>0, <1>2 DEF WritesFit, Born, Ended
<1>4. f \in Tokens /\ HolderView[f] = s /\ s # NoToken
  BY <1>3, LiveRow
<1>5. /\ UsedView' = UsedView \cup {t} /\ t \notin UsedView
      /\ \A g \in Tokens : OpenerView'[g] = OpenerView[g]
      /\ \A g \in Tokens \ {f} : LiveMembersOf(g)' = LiveMembersOf(g) \ Ended(r)
      /\ t \in LiveMembersOf(f)'
  BY <1>1, <1>2, <1>3, <1>4, CommitShows
<1>6. ASSUME NEW g \in Tokens
      PROVE  HolderView'[g] = IF g = f THEN t ELSE HolderView[g]
  <2>1. CASE g = f
    BY <1>3, <1>5, <2>1 DEF OneHolder
  <2>2. CASE g # f
    <3>1. LiveMembersOf(g)' = LiveMembersOf(g)
      BY <1>3, <1>5, <2>2 DEF LiveMembersOf
    <3>2. LiveMembersOf(g) = {} \/ \E x \in Tokens : x \in LiveMembersOf(g)
      BY DEF LiveMembersOf
    <3> QED
      BY <2>2, <3>1, <3>2 DEF OneHolder
  <2> QED
    BY <2>1, <2>2
<1>7. HolderView' = [HolderView EXCEPT ![f] = t]
  <2>1. /\ HolderView' = [g \in Tokens |-> HolderView'[g]]
        /\ HolderView = [g \in Tokens |-> HolderView[g]]
    BY DEF HolderView
  <2> QED
    BY <1>4, <1>6, <2>1
<1>8. OpenerView' = OpenerView
  BY <1>5 DEF OpenerView
<1>9. PasswordView' = PasswordView
  BY DEF Commit, PasswordView
<1>10. Registry!Refresh(f, t)
  BY <1>4, <1>5, <1>7, <1>8, <1>9 DEF Registry!Refresh, Registry!Open
<1> QED
  BY <1>3, <1>4, <1>10

\* A logout, or a refresh that is refused, commits as the end of one family, or of none.
LEMMA EndCommits ==
  ASSUME TransactionInvariant, OneHolder, OneHolder', NEW r \in Requests, Commit(r),
         ctx[r].op = "logout" \/ (ctx[r].op = "refresh" /\ ctx[r].reason # "none")
  PROVE  (\E f \in Tokens : Registry!End(f)) \/ UNCHANGED Registry!rvars
<1>0. WritesFit(r) /\ pc[r] = "commit"
  BY DEF TransactionInvariant, WritesAreOperations, Commit
<1>1. Born(r) = {}
  BY <1>0 DEF WritesFit
<1>2. PasswordView' = PasswordView
  BY DEF Commit, PasswordView
<1>3. CASE Ended(r) = {}
  <2>1. Registry!Close({}) /\ UNCHANGED <<UsedView, OpenerView>>
    BY <1>1, <1>3, CommitCloses
  <2>2. HolderView' = HolderView
    <3>1. HolderView = [f \in Tokens |-> HolderView[f]]
      BY DEF HolderView
    <3> QED
      BY <2>1, <3>1 DEF Registry!Close
  <2> QED
    BY <1>2, <2>1, <2>2 DEF Registry!rvars
<1>4. CASE Ended(r) # {}
  <2>1. PICK s \in Ended(r) : TRUE
    BY <1>4
  <2>2. PICK f : f = db[s].family
    OBVIOUS
  <2>3. /\ s \in Tokens /\ db[s].status = "live"
        /\ \A x \in Ended(r) : db[x].family = f
    BY <1>0, <2>2 DEF WritesFit, Ended
  <2>4. f \in Tokens /\ HolderView[f] = s
    BY <2>2, <2>3, LiveRow
  <2>5. Registry!Close({f}) /\ UNCHANGED <<UsedView, OpenerView>>
    <3>1. {f} \in SUBSET Tokens
      BY <2>4
    <3>2. \A x \in Ended(r) : db[x].family \in {f}
      BY <2>3
    <3>3. \A g \in {f} : HolderView[g] # NoToken => HolderView[g] \in Ended(r)
      BY <2>1, <2>4
    <3> QED
      BY <1>1, <3>1, <3>2, <3>3, CommitCloses
  <2> QED
    BY <1>2, <2>4, <2>5 DEF Registry!End
<1> QED
  BY <1>3, <1>4

\* logout_all and a password change commit as the end of every family of the account.
LEMMA AccountWideCommits ==
  ASSUME TransactionInvariant, OneHolder, OneHolder', NEW r \in Requests, Commit(r),
         ctx[r].op \in AccountWide
  PROVE  \E u \in Users : Registry!LogoutAll(u) \/ Registry!ChangePassword(u)
<1>0. /\ WritesFit(r) /\ pc[r] = "commit" /\ SessionInvariant /\ RequestInvariant(r)
      /\ TypeOK
  BY DEF TransactionInvariant, WritesAreOperations, Commit, SessionInvariant
<1>1. Born(r) = {}
  BY <1>0 DEF WritesFit
<1>2. PICK u \in Users : u = ctx[r].user
  BY <1>0 DEF RequestInvariant, ContextMatches
<1>3. PICK F : F = Registry!OpenOf(u)
  OBVIOUS
<1>4. Registry!Close(F) /\ UNCHANGED <<UsedView, OpenerView>>
  <2>1. F \in SUBSET Tokens
    BY <1>3 DEF Registry!OpenOf, Registry!Open
  <2>2. ASSUME NEW s \in Ended(r) PROVE db[s].family \in F
    <3>1. s \in Tokens /\ db[s].status = "live" /\ db[s].user = u
      BY <1>0, <1>2 DEF WritesFit, Ended
    <3> QED
      BY <1>3, <3>1, LiveRow DEF Registry!OpenOf, Registry!Open
  <2>3. ASSUME NEW f \in F, HolderView[f] # NoToken PROVE HolderView[f] \in Ended(r)
    <3>1. f \in Tokens /\ OpenerView[f] = u
      BY <1>3, <2>1 DEF Registry!OpenOf, Registry!Open
    <3>2. PICK s \in Tokens : /\ HolderView[f] = s
                              /\ db[s].status = "live" /\ db[s].family = f
      BY <2>3, <3>1, Holders
    <3>3. db[s].user = u
      BY <3>1, <3>2, LiveRow
    <3>4. work[s].status # "absent" /\ work[s].user = u
      BY <1>0, <3>2, <3>3 DEF SessionInvariant, RowInvariant, RowsAreWellFormed
    <3>5. Mine(r, s) /\ work[s].status # "live"
      BY <1>0, <1>2, <3>4 DEF RequestInvariant, RevokedRangeIsClosed, ClosedRange, RowsIn, InRange
    <3> QED
      BY <3>2, <3>5 DEF Ended
  <2> QED
    BY <1>1, <2>1, <2>2, <2>3, CommitCloses
<1>5. CASE ctx[r].op \notin PasswordOps
  <2>1. PasswordView' = PasswordView
    BY <1>5 DEF Commit, PasswordView
  <2> QED
    BY <1>3, <1>4, <2>1 DEF Registry!LogoutAll
<1>6. CASE ctx[r].op \in PasswordOps
  <2>1. PICK old \in [active: BOOLEAN, password: Passwords],
               n \in {account[u].password + 1} : old = account[u]
    BY <1>0 DEF TypeOK
  <2>2. account' = [account EXCEPT ![u] = [old EXCEPT !.password = n]]
    BY <1>2, <1>6, <2>1 DEF Commit
  <2>3. \A v \in Users : account'[v].password = IF v = u THEN n ELSE account[v].password
    BY <1>0, <2>1, <2>2 DEF TypeOK
  <2>4. PasswordView' = [PasswordView EXCEPT ![u] = n]
    BY <2>3 DEF PasswordView
  <2>5. PasswordView[u] = old.password
    BY <2>1 DEF PasswordView
  <2> QED
    BY <1>3, <1>4, <2>1, <2>4, <2>5 DEF Registry!ChangePassword
<1> QED
  BY <1>5, <1>6

\* The concurrent transactions implement SessionRegistry: whatever the interleaving, the
\* failures and the rollbacks, a client sees logins, refreshes, logouts and password
\* changes that happen one at a time (the row locks of refresh_session_service.py).
THEOREM ServicesImplementRegistry == Spec => ImplementsRegistry
<1>1. Init => Registry!RInit
  <2> SUFFICES ASSUME Init PROVE Registry!RInit
    OBVIOUS
  <2>1. \A t \in Tokens : db[t].status = "absent" /\ db[t].family # t
    BY NamesAreDistinct DEF Init, Blank
  <2>2. \A f \in Tokens : LiveMembersOf(f) = {}
    BY <2>1 DEF LiveMembersOf, Live
  <2>3. UsedView = {} /\ OpenerView = [f \in Tokens |-> NoUser]
    BY <2>1 DEF UsedView, OpenerView
  <2>4. HolderView = [f \in Tokens |-> NoToken]
    BY <2>2 DEF HolderView
  <2>5. PasswordView = [u \in Users |-> 0]
    BY DEF Init, PasswordView
  <2> QED
    BY <2>3, <2>4, <2>5 DEF Registry!RInit
<1>2. TransactionInvariant /\ TransactionInvariant' /\ [Next]_vars =>
         [Registry!RNext]_(Registry!rvars)
  <2>1. (SessionInvariant => OneHolder) /\ (SessionInvariant => OneHolder)'
    BY HoldersAreUnique, PTL
  <2> SUFFICES ASSUME TransactionInvariant, TransactionInvariant', [Next]_vars
               PROVE  Registry!RNext \/ UNCHANGED Registry!rvars
    OBVIOUS
  <2>2. OneHolder /\ OneHolder' /\ SessionInvariant
    BY <2>1 DEF TransactionInvariant
  <2>3. ASSUME NEW r \in Requests, Commit(r)
        PROVE  Registry!RNext \/ UNCHANGED Registry!rvars
    <3>1. /\ ctx[r].op \in AccountWide \cup {"refresh", "logout", "login", "none"}
          /\ ctx[r].op # "none"
      BY <2>2, <2>3 DEF SessionInvariant, TypeOK, Context, Operations, TransactionInvariant,
                        WritesAreOperations, WritesFit, Commit
    <3> QED
      BY <2>2, <2>3, <3>1, LoginCommits, RefreshCommits, EndCommits, AccountWideCommits
         DEF Registry!RNext
  <2> QED
    BY <2>2, <2>3, OnlyCommitsShow
<1> QED
  BY <1>1, <1>2, TransactionsHold, PTL DEF Spec, ImplementsRegistry, Registry!RSpec

-----------------------------------------------------------------------------
\* The cap.  While a login holds its account nobody else adds a row to it, so the families
\* it will leave behind only become fewer until it adds its own.

\* Finitely many rows have finitely many families.
LEMMA FamiliesAreFinite == \A r : IsFiniteSet(FamiliesAfter(r))
<1> TAKE r
<1> DEFINE U == UsableAfter(r)
           f == [t \in U |-> AfterCommit(r, t).family]
           F == {AfterCommit(r, t).family : t \in U}
<1>1. IsFiniteSet(U)
  <2>1. U \in SUBSET Tokens
    BY DEF UsableAfter
  <2> HIDE DEF U
  <2> QED
    BY <2>1, PoolIsFinite, FS_Subset
<1>2. f \in Surjection(U, F)
  BY DEF Surjection
<1>3. IsFiniteSet(F)
  <2> HIDE DEF U, f, F
  <2> QED BY <1>1, <1>2, FS_Surjection
<1> QED
  BY <1>3 DEF FamiliesAfter

\* A login that will leave no more families than before has no more to evict.
LEMMA FewerFamilies ==
  ASSUME NEW r, NEW F, FamiliesAfter(r)' \subseteq F, IsFiniteSet(F)
  PROVE  /\ Cardinality(FamiliesAfter(r)') <= Cardinality(F)
         /\ Cardinality(FamiliesAfter(r)') \in Nat /\ Cardinality(F) \in Nat
<1>1. PICK G : G = FamiliesAfter(r)'
  OBVIOUS
<1>2. G \in SUBSET F
  BY <1>1
<1>3. IsFiniteSet(G) /\ Cardinality(G) <= Cardinality(F)
  BY <1>2, FS_Subset
<1>4. Cardinality(G) \in Nat /\ Cardinality(F) \in Nat
  BY <1>3, FS_CardinalityType
<1> QED
  BY <1>1, <1>3, <1>4

\* Locking and deciding changes nothing of what a login will leave behind.
LEMMA LocksKeepFamilies ==
  ASSUME NEW r, UNCHANGED <<db, work>>,
         ctx'[r].user = ctx[r].user, ctx'[r].at = ctx[r].at,
         \A t \in Tokens : (owner'[t] = r <=> owner[t] = r) \/ work[t] = db[t]
  PROVE  FamiliesAfter(r)' = FamiliesAfter(r)
<1>1. \A t \in Tokens : AfterCommit(r, t)' = AfterCommit(r, t)
  BY DEF AfterCommit, Mine
<1>2. UsableAfter(r)' = UsableAfter(r)
  BY <1>1 DEF UsableAfter, Expired
<1>3. UsableAfter(r) \subseteq Tokens
  BY DEF UsableAfter
<1> QED
  BY <1>1, <1>2, <1>3 DEF FamiliesAfter

\* Another request cannot add a family to an account a login holds.
LEMMA OthersLeaveRoom ==
  ASSUME TransactionInvariant, NEW r \in Requests, Apart(r), NEW q \in Requests \ {r},
         Commit(r) \/ db' = db,
         LoginMakesRoom(q)
  PROVE  LoginMakesRoom(q)'
<1> SUFFICES ASSUME ctx[q].op = "login", pc[q] \in {"pickOldest", "revokeFamily", "insert", "commit"}
             PROVE  LoginMakesRoom(q)'
  BY DEF Apart, LoginMakesRoom
<1>0. /\ SessionInvariant /\ WritesFit(q) /\ WritesFit(r)
      /\ pc'[q] = pc[q] /\ ctx'[q] = ctx[q]
      /\ \A k \in Users \cup Tokens : owner'[k] = q <=> owner[k] = q
      /\ \A t \in Tokens : owner[t] = q => work'[t] = work[t] /\ db'[t] = db[t]
  BY DEF TransactionInvariant, WritesAreOperations, Apart
<1>1. ctx[q].user \in Users /\ owner[ctx[q].user] = q
  <2>1. CASE pc[q] # "commit"
    BY <1>0, <2>1 DEF SessionInvariant, RequestInvariant, HoldsAccount, Mine
  <2>2. CASE pc[q] = "commit"
    <3>1. PICK t \in Born(q) : work[t].user = ctx[q].user
      BY <1>0, <2>2 DEF WritesFit
    <3>2. t \in Tokens /\ work[t].status = "live" /\ owner[work[t].user] = q
      BY <1>0 DEF WritesFit, Born, Mine
    <3> QED
      BY <1>0, <3>1, <3>2 DEF SessionInvariant, RowInvariant, RowsAreWellFormed
  <2> QED
    BY <2>1, <2>2
<1>2. ASSUME NEW t \in Tokens, t \in UsableAfter(q)'
      PROVE  /\ t \in UsableAfter(q)
             /\ AfterCommit(q, t)'.family = AfterCommit(q, t).family
  <2>1. CASE owner[t] = q \/ db'[t] = db[t]
    <3>1. AfterCommit(q, t)' = AfterCommit(q, t)
      BY <1>0, <2>1 DEF AfterCommit, Mine
    <3> QED
      BY <1>0, <1>2, <3>1 DEF UsableAfter, Expired
  <2>2. CASE owner[t] # q /\ db'[t] # db[t]
    <3>1. db'[t] = work[t] /\ owner[t] = r
      BY <2>2 DEF Commit, Mine
    <3>2. AfterCommit(q, t)' = work[t] /\ AfterCommit(q, t) = db[t]
      BY <1>0, <2>2, <3>1 DEF AfterCommit, Mine
    <3>3. /\ work[t].status = "live" /\ work[t].user = ctx[q].user
          /\ ~Expired(work[t], ctx[q].at)
      BY <1>0, <1>2, <3>2 DEF UsableAfter, Expired
    <3>4. db[t].status # "absent"
      <4>1. t \notin Born(r)
        BY <1>0, <1>1, <3>3 DEF WritesFit, Mine
      <4> QED
        BY <3>1, <4>1 DEF Born, Mine
    <3>5. db[t].status \notin Revoked
      BY <3>3 DEF TransactionInvariant, RevocationsStand, Revoked, Closing
    <3>6. db[t].status = "live"
      BY <1>0, <3>4, <3>5 DEF SessionInvariant, TypeOK, Row
    <3>7. /\ db[t].user = work[t].user /\ db[t].family = work[t].family
          /\ db[t].expires = work[t].expires /\ db[t].familyExpires = work[t].familyExpires
      BY <3>4, CommittedLinks DEF TransactionInvariant
    <3> QED
      BY <3>2, <3>3, <3>6, <3>7 DEF UsableAfter, Expired
  <2> QED
    BY <2>1, <2>2
<1>3. FamiliesAfter(q)' \subseteq FamiliesAfter(q)
  BY <1>2 DEF FamiliesAfter, UsableAfter
<1>4. /\ Cardinality(FamiliesAfter(q)') <= Cardinality(FamiliesAfter(q))
      /\ Cardinality(FamiliesAfter(q)') \in Nat /\ Cardinality(FamiliesAfter(q)) \in Nat
  BY <1>3, FamiliesAreFinite, FewerFamilies
<1>5. ctx[q].excess \in Nat /\ MaxFamilies \in Nat
  BY <1>0, ConfigurationIsValid DEF SessionInvariant, TypeOK, Context
<1> QED
  BY <1>0, <1>4, <1>5 DEF LoginMakesRoom

\* A transaction stays the operation it began as.
LEMMA OperationStays ==
  ASSUME SessionInvariant, NEW r \in Requests, Step(r), pc'[r] # "idle"
  PROVE  ctx'[r].op = ctx[r].op
<1>0. ctx[r] \in Context /\ TypeOK /\ pc' # [pc EXCEPT ![r] = "idle"]
  BY DEF SessionInvariant, TypeOK
<1>1. CASE UNCHANGED ctx
  BY <1>1
<1>2. ASSUME NEW c, ctx' = [ctx EXCEPT ![r] = c], c.op = ctx[r].op
      PROVE  ctx'[r].op = ctx[r].op
  BY <1>0, <1>2 DEF TypeOK
<1>3. PICK old \in Context : old = ctx[r]
  BY <1>0
<1>4. CASE LockToken(r)
  <2>1. PICK user, family, reason, at :
          ctx' = [ctx EXCEPT ![r].user = user, ![r].family = family,
                             ![r].reason = reason, ![r].at = at]
    BY <1>4 DEF LockToken
  <2>2. PICK c : c = [old EXCEPT !.user = user, !.family = family,
                                 !.reason = reason, !.at = at]
    OBVIOUS
  <2>3. ctx' = [ctx EXCEPT ![r] = c] /\ c.op = old.op
    BY <1>0, <1>3, <2>1, <2>2 DEF TypeOK, Context
  <2> QED
    BY <1>2, <1>3, <2>3
<1>5. CASE LoginLockUser(r)
  <2>1. PICK at, excess : ctx' = [ctx EXCEPT ![r].at = at, ![r].excess = excess,
                                             ![r].reason = "session_limit"]
    BY <1>5 DEF LoginLockUser
  <2>2. PICK c : c = [old EXCEPT !.at = at, !.excess = excess, !.reason = "session_limit"]
    OBVIOUS
  <2>3. ctx' = [ctx EXCEPT ![r] = c] /\ c.op = old.op
    BY <1>0, <1>3, <2>1, <2>2 DEF TypeOK, Context
  <2> QED
    BY <1>2, <1>3, <2>3
<1>6. CASE RefreshLockUser(r) \/ ResetPasswordLockUser(r) \/ PickOldest(r) \/ RevokeFamily(r)
  <2>1. \/ UNCHANGED ctx
        \/ \E x : \/ ctx' = [ctx EXCEPT ![r].reason = x]
                  \/ ctx' = [ctx EXCEPT ![r].password = x]
                  \/ ctx' = [ctx EXCEPT ![r].family = x]
                  \/ ctx' = [ctx EXCEPT ![r].excess = x]
    BY <1>6 DEF RefreshLockUser, ResetPasswordLockUser, PickOldest, RevokeFamily
  <2>2. ASSUME NEW x, \/ ctx' = [ctx EXCEPT ![r].reason = x]
                      \/ ctx' = [ctx EXCEPT ![r].password = x]
                      \/ ctx' = [ctx EXCEPT ![r].family = x]
                      \/ ctx' = [ctx EXCEPT ![r].excess = x]
        PROVE  ctx'[r].op = ctx[r].op
    <3>1. PICK a, b, c, d : /\ a = [old EXCEPT !.reason = x]
                            /\ b = [old EXCEPT !.password = x]
                            /\ c = [old EXCEPT !.family = x]
                            /\ d = [old EXCEPT !.excess = x]
      OBVIOUS
    <3>2. a.op = old.op /\ b.op = old.op /\ c.op = old.op /\ d.op = old.op
      BY <1>3, <3>1 DEF Context
    <3>3. \/ ctx' = [ctx EXCEPT ![r] = a] \/ ctx' = [ctx EXCEPT ![r] = b]
          \/ ctx' = [ctx EXCEPT ![r] = c] \/ ctx' = [ctx EXCEPT ![r] = d]
      BY <1>0, <1>3, <2>2, <3>1 DEF TypeOK, Context
    <3> QED
      BY <1>2, <1>3, <3>2, <3>3
  <2> QED
    BY <1>1, <2>1, <2>2
<1> QED
  BY <1>0, <1>1, <1>4, <1>5, <1>6
     DEF Step, RejectCookie, RejectCredentials, Rollback, Release, ChangePasswordLockUser,
         LockRow, LockGap, RevokeUser, OpenFamily, Rotate, Commit

\* The login counts the families it sees, and decides how many have to go.
LEMMA CountingMakesRoom ==
  ASSUME TransactionInvariant, NEW r \in Requests, LoginLockUser(r)
  PROVE  LoginMakesRoom(r)'
<1>0. /\ SessionInvariant /\ TypeOK /\ WritesFit(r) /\ RequestInvariant(r)
      /\ pc[r] = "lockUser" /\ ctx[r].op = "login" /\ UNCHANGED <<db, work>>
      /\ owner' = [owner EXCEPT ![ctx[r].user] = r]
      /\ ctx[r].user \in Users
  BY DEF TransactionInvariant, WritesAreOperations, SessionInvariant, LoginLockUser, Take,
         RequestInvariant, ContextMatches
<1>1. PICK u \in Users, old \in Context : u = ctx[r].user /\ old = ctx[r]
  BY <1>0 DEF TypeOK
<1>2. PICK excess \in Nat : excess = FamiliesToRevoke(u, now)
  BY ExcessIsNatural
<1>3. PICK c : c = [old EXCEPT !.at = now, !.excess = excess, !.reason = "session_limit"]
  OBVIOUS
<1>4. /\ ctx' = [ctx EXCEPT ![r] = c]
      /\ pc' = [pc EXCEPT ![r] = IF excess > 0 THEN "pickOldest" ELSE "insert"]
  BY <1>0, <1>1, <1>2, <1>3 DEF LoginLockUser, Goto, TypeOK, Context
<1>5. /\ ctx'[r].op = "login" /\ ctx'[r].user = u /\ ctx'[r].at = now
      /\ ctx'[r].excess = excess
  BY <1>0, <1>1, <1>3, <1>4 DEF TypeOK, Context
<1> DEFINE A == {s \in Tokens : db[s].status = "live" /\ db[s].user = u
                                 /\ ~Expired(db[s], now)}
           F == {db[t].family : t \in A}
<1>6. Cardinality(F) = CountActive(u, now)
  BY DEF CountActive
<1>7. IsFiniteSet(F)
  <2> DEFINE f == [t \in A |-> db[t].family]
  <2>1. IsFiniteSet(A)
    BY PoolIsFinite, FS_Subset
  <2>2. f \in Surjection(A, F)
    BY DEF Surjection
  <2> HIDE DEF A, F, f
  <2> QED
    BY <2>1, <2>2, FS_Surjection
<1>8. FamiliesAfter(r)' \subseteq F
  <2>1. ASSUME NEW t \in Tokens, t \in UsableAfter(r)'
        PROVE  t \in A /\ AfterCommit(r, t)'.family = db[t].family
    <3>1. \A x \in Tokens : owner'[x] = owner[x]
      BY <1>0, NamesAreDistinct DEF TypeOK
    <3>2. CASE owner[t] # r
      <4>1. AfterCommit(r, t)' = db[t]
        BY <1>0, <3>1, <3>2 DEF AfterCommit, Mine
      <4> QED
        BY <1>5, <2>1, <4>1 DEF UsableAfter, Expired
    <3>3. CASE owner[t] = r
      <4>1. AfterCommit(r, t)' = work[t]
        BY <1>0, <3>1, <3>3 DEF AfterCommit, Mine
      <4>2. work[t].status = "live" /\ work[t].user = u /\ ~Expired(work[t], now)
        BY <1>5, <2>1, <4>1 DEF UsableAfter, Expired
      <4>3. db[t].status # "absent"
        BY <1>0, <3>3 DEF WritesFit, Born, Mine
      <4>4. db[t].status = "live"
        BY <1>0, <4>2, <4>3 DEF TransactionInvariant, RevocationsStand, Revoked, Closing,
                                TypeOK, Row
      <4>5. /\ db[t].user = work[t].user /\ db[t].family = work[t].family
            /\ db[t].expires = work[t].expires /\ db[t].familyExpires = work[t].familyExpires
        BY <4>3, CommittedLinks DEF TransactionInvariant
      <4> QED
        BY <4>1, <4>2, <4>4, <4>5 DEF Expired
    <3> QED
      BY <3>2, <3>3
  <2>2. UsableAfter(r)' \subseteq Tokens
    BY DEF UsableAfter
  <2> HIDE DEF A
  <2> QED
    BY <2>1, <2>2 DEF FamiliesAfter
<1> HIDE DEF A, F
<1>9. /\ Cardinality(FamiliesAfter(r)') <= CountActive(u, now)
      /\ Cardinality(FamiliesAfter(r)') \in Nat /\ CountActive(u, now) \in Nat
  BY <1>6, <1>7, <1>8, FewerFamilies
<1>10. /\ excess > 0 => CountActive(u, now) + 1 = MaxFamilies + excess
       /\ excess = 0 => CountActive(u, now) + 1 <= MaxFamilies
  BY <1>2, <1>9, ConfigurationIsValid DEF FamiliesToRevoke
<1>11. /\ pc'[r] \in {"pickOldest", "insert"}
       /\ pc'[r] = "pickOldest" => excess > 0
       /\ pc'[r] = "insert" => excess = 0
  BY <1>0, <1>2, <1>4 DEF TypeOK
<1>12. MaxFamilies \in Nat
  BY ConfigurationIsValid
<1>13. pc'[r] = "pickOldest" => Cardinality(FamiliesAfter(r)') + 1 <= MaxFamilies + excess
  BY <1>9, <1>10, <1>11, <1>12
<1>14. pc'[r] = "insert" => Cardinality(FamiliesAfter(r)') + 1 <= MaxFamilies
  BY <1>9, <1>10, <1>11, <1>12
<1> QED
  BY <1>5, <1>11, <1>13, <1>14 DEF LoginMakesRoom

\* A scan of the login changes nothing of what it will leave behind.
LEMMA ScanKeepsRoom ==
  ASSUME TransactionInvariant, NEW r \in Requests, LoginMakesRoom(r), LockRow(r) \/ LockGap(r)
  PROVE  LoginMakesRoom(r)'
<1>0. TypeOK /\ RowInvariant /\ UNCHANGED <<db, work, pc, ctx>> /\ r # NoRequest
  BY NamesAreDistinct DEF TransactionInvariant, SessionInvariant, LockRow, LockGap
<1>1. \A t \in Tokens : (owner'[t] = r <=> owner[t] = r) \/ work[t] = db[t]
  <2>1. CASE LockRow(r)
    <3>1. PICK t \in Tokens : owner[t] = NoRequest /\ owner' = [owner EXCEPT ![t] = r]
      BY <2>1 DEF LockRow, RowsIn, Take
    <3> QED
      BY <1>0, <3>1 DEF RowInvariant, WritesAreLocked, TypeOK
  <2>2. CASE LockGap(r)
    BY <2>2 DEF LockGap
  <2> QED
    BY <2>1, <2>2
<1>2. FamiliesAfter(r)' = FamiliesAfter(r)
  BY <1>0, <1>1, LocksKeepFamilies
<1> QED
  BY <1>0, <1>2 DEF LoginMakesRoom

\* The login that finds nothing more to evict leaves no family behind but its own.
LEMMA PickOldestMakesRoom ==
  ASSUME TransactionInvariant, NEW r \in Requests, LoginMakesRoom(r), PickOldest(r)
  PROVE  LoginMakesRoom(r)'
<1>0. /\ TypeOK /\ RowInvariant /\ RequestInvariant(r) /\ pc[r] = "pickOldest"
      /\ Scanned(r) /\ UNCHANGED <<db, work, owner>>
      /\ ctx[r].op = "login" /\ ctx[r].user \in Users
  BY DEF TransactionInvariant, SessionInvariant, PickOldest, RequestInvariant,
         ContextMatches, HoldsAccount
<1>1. CASE Candidates(r) = {}
  <2>1. pc'[r] = "insert" /\ ctx' = ctx
    BY <1>0, <1>1 DEF PickOldest, Goto, TypeOK
  <2>2. FamiliesAfter(r)' = FamiliesAfter(r)
    BY <1>0, <2>1, LocksKeepFamilies
  <2>3. UsableAfter(r) = {}
    <3> SUFFICES ASSUME NEW t \in UsableAfter(r) PROVE FALSE
      OBVIOUS
    <3>1. /\ t \in Tokens /\ AfterCommit(r, t).status = "live"
          /\ AfterCommit(r, t).user = ctx[r].user
          /\ ~Expired(AfterCommit(r, t), ctx[r].at)
      BY DEF UsableAfter
    <3>2. Mine(r, t)
      <4>1. work[t].status # "absent" /\ work[t].user = ctx[r].user
        BY <1>0, <3>1 DEF AfterCommit, RowInvariant, RowsAreWellFormed
      <4> QED
        BY <1>0, <3>1, <4>1 DEF Scanned, ScanKey, RowsIn, InRange
    <3> QED
      BY <1>1, <3>1, <3>2 DEF AfterCommit, Candidates
  <2>4. FamiliesAfter(r) = {}
    BY <2>3 DEF FamiliesAfter
  <2>5. Cardinality(FamiliesAfter(r)') + 1 <= MaxFamilies
    BY <2>2, <2>4, FS_EmptySet, ConfigurationIsValid
  <2> QED
    BY <2>1, <2>5 DEF LoginMakesRoom
<1>2. CASE Candidates(r) # {}
  <2>1. PICK f : ctx' = [ctx EXCEPT ![r].family = f] /\ pc' = [pc EXCEPT ![r] = "revokeFamily"]
    BY <1>2 DEF PickOldest, Goto
  <2>2. PICK old \in Context : old = ctx[r]
    BY <1>0 DEF TypeOK
  <2>3. PICK c : c = [old EXCEPT !.family = f]
    OBVIOUS
  <2>4. /\ pc'[r] = "revokeFamily" /\ ctx'[r] = c
        /\ c.op = old.op /\ c.user = old.user /\ c.at = old.at /\ c.excess = old.excess
    BY <1>0, <2>1, <2>2, <2>3 DEF TypeOK, Context
  <2>5. FamiliesAfter(r)' = FamiliesAfter(r)
    BY <1>0, <2>2, <2>4, LocksKeepFamilies
  <2> QED
    BY <1>0, <2>2, <2>4, <2>5 DEF LoginMakesRoom
<1> QED
  BY <1>1, <1>2

\* An eviction removes one family from those the login leaves behind.
LEMMA EvictionMakesRoom ==
  ASSUME TransactionInvariant, NEW r \in Requests, LoginMakesRoom(r), RevokeFamily(r),
         ctx[r].op = "login"
  PROVE  LoginMakesRoom(r)'
<1>0. /\ TypeOK /\ RowInvariant /\ RequestInvariant(r) /\ WritesFit(r)
      /\ pc[r] = "revokeFamily" /\ Scanned(r) /\ UNCHANGED <<db, owner>>
      /\ ScanKey(r) = ctx[r].family /\ Revoke(Revocable(r), ctx[r].reason)
      /\ ctx[r].reason \in Closing /\ ctx[r].excess > 0
  BY DEF TransactionInvariant, WritesAreOperations, SessionInvariant, RevokeFamily,
         RequestInvariant, ContextMatches, CountersFit, ScanKey
<1>1. PICK old \in Context, f \in {ctx[r].family}, e \in {ctx[r].excess - 1} : old = ctx[r]
  BY <1>0 DEF TypeOK
<1>2. PICK c : c = [old EXCEPT !.excess = e]
  OBVIOUS
<1>3. /\ ctx' = [ctx EXCEPT ![r] = c]
      /\ pc' = [pc EXCEPT ![r] = IF ctx[r].excess > 1 THEN "pickOldest" ELSE "insert"]
  BY <1>0, <1>1, <1>2 DEF RevokeFamily, Goto, TypeOK, Context
<1>4. /\ ctx'[r].op = "login" /\ ctx'[r].user = ctx[r].user /\ ctx'[r].at = ctx[r].at
      /\ ctx'[r].excess = ctx[r].excess - 1 /\ ctx[r].excess \in Nat /\ ctx[r].family = f
  BY <1>0, <1>1, <1>2, <1>3 DEF TypeOK, Context
<1>5. ASSUME NEW t \in Tokens, t \in UsableAfter(r)'
      PROVE  /\ t \in UsableAfter(r) /\ AfterCommit(r, t)' = AfterCommit(r, t)
             /\ AfterCommit(r, t).family # f
  <2>1. CASE owner[t] # r
    <3>1. AfterCommit(r, t)' = db[t] /\ AfterCommit(r, t) = db[t]
      BY <1>0, <2>1 DEF AfterCommit, Mine
    <3>2. t \in UsableAfter(r) /\ db[t].status = "live"
      BY <1>4, <1>5, <3>1 DEF UsableAfter, Expired
    <3>3. work[t].status # "absent" /\ work[t].family = db[t].family
      BY <1>0, <3>2 DEF RowInvariant, RowsAreWellFormed
    <3>4. db[t].family # f
      BY <1>0, <1>4, <2>1, <3>3 DEF Scanned, RowsIn, InRange, Mine
    <3> QED
      BY <3>1, <3>2, <3>4
  <2>2. CASE owner[t] = r
    <3>1. AfterCommit(r, t)' = work'[t] /\ AfterCommit(r, t) = work[t]
      BY <1>0, <2>2 DEF AfterCommit, Mine
    <3>2. work'[t].status = "live"
      BY <1>5, <3>1 DEF UsableAfter
    <3>3. t \notin Revocable(r) /\ work'[t] = work[t]
      BY <1>0, <3>2 DEF Revoke, TypeOK, Row, Closing
    <3>4. work[t].family # f
      BY <1>0, <1>4, <3>2, <3>3 DEF Revocable, RowsIn, InRange
    <3> QED
      BY <1>4, <1>5, <3>1, <3>3, <3>4 DEF UsableAfter, Expired
  <2> QED
    BY <2>1, <2>2
<1>6. FamiliesAfter(r)' \subseteq FamiliesAfter(r) \ {f}
  <2>1. UsableAfter(r)' \subseteq Tokens
    BY DEF UsableAfter
  <2> QED
    BY <1>5, <2>1 DEF FamiliesAfter
<1>7. f \in FamiliesAfter(r)
  <2>1. PICK s \in UsableAfter(r) : Mine(r, s) /\ work[s].family = ctx[r].family
    BY <1>0 DEF WritesFit
  <2> QED
    BY <1>4, <2>1 DEF FamiliesAfter, AfterCommit
<1>8. PICK G, H : G = FamiliesAfter(r) /\ H = G \ {f}
  OBVIOUS
<1>9. IsFiniteSet(H) /\ Cardinality(H) = Cardinality(G) - 1
  BY <1>7, <1>8, FamiliesAreFinite, FS_RemoveElement
<1>10. /\ Cardinality(FamiliesAfter(r)') <= Cardinality(G) - 1
       /\ Cardinality(FamiliesAfter(r)') \in Nat
  BY <1>6, <1>8, <1>9, FewerFamilies
<1>11. Cardinality(G) \in Nat /\ MaxFamilies \in Nat
  BY <1>8, FamiliesAreFinite, FS_CardinalityType, ConfigurationIsValid
<1>12. Cardinality(G) + 1 <= MaxFamilies + ctx[r].excess
  BY <1>0, <1>8 DEF LoginMakesRoom
<1>13. /\ pc'[r] \in {"pickOldest", "insert"}
       /\ pc'[r] = "insert" => ctx[r].excess = 1
  BY <1>0, <1>3, <1>4 DEF TypeOK
<1>14. /\ Cardinality(FamiliesAfter(r)') + 1 <= MaxFamilies + ctx'[r].excess
       /\ pc'[r] = "insert" => Cardinality(FamiliesAfter(r)') + 1 <= MaxFamilies
  BY <1>4, <1>10, <1>11, <1>12, <1>13
<1> QED
  BY <1>4, <1>13, <1>14 DEF LoginMakesRoom

\* The family the login opens is the one there was room for.
LEMMA OpeningStaysWithinCap ==
  ASSUME TransactionInvariant, NEW r \in Requests, LoginMakesRoom(r), OpenFamily(r)
  PROVE  LoginMakesRoom(r)'
<1>0. /\ TypeOK /\ RowInvariant /\ pc[r] = "insert" /\ ctx[r].op = "login"
      /\ UNCHANGED <<db, ctx>> /\ pc'[r] = "commit"
  BY DEF TransactionInvariant, SessionInvariant, OpenFamily, Goto, TypeOK
<1>A. PICK row : \E t \in Fresh : /\ Take(r, t)
                                   /\ work' = [work EXCEPT ![t] = row] /\ row.family = t
  <2>1. PICK t \in Fresh : /\ Take(r, t)
           /\ work' = [work EXCEPT ![t] = NewRow(ctx[r].user, t, ctx[r].at,
                          ctx[r].at + AbsoluteLifetime, ctx[r].password)]
    BY DEF OpenFamily
  <2>2. PICK row : row = NewRow(ctx[r].user, t, ctx[r].at,
                                ctx[r].at + AbsoluteLifetime, ctx[r].password)
    OBVIOUS
  <2>3. row.family = t
    BY <2>2 DEF NewRow, Blank
  <2> QED
    BY <2>1, <2>2, <2>3
<1>1. PICK t \in Fresh : /\ Take(r, t)
                        /\ work' = [work EXCEPT ![t] = row] /\ row.family = t
  BY <1>A
<1>2. t \in Tokens
  BY <1>1 DEF Fresh
<1>3. /\ AfterCommit(r, t)' = row
      /\ \A s \in Tokens \ {t} : AfterCommit(r, s)' = AfterCommit(r, s)
  BY <1>0, <1>1, <1>2 DEF AfterCommit, Mine, Take, TypeOK
<1>4. ASSUME NEW s \in Tokens, s \in UsableAfter(r)', s # t
      PROVE  s \in UsableAfter(r) /\ AfterCommit(r, s)'.family = AfterCommit(r, s).family
  BY <1>0, <1>3, <1>4 DEF UsableAfter, Expired
<1>5. FamiliesAfter(r)' \subseteq FamiliesAfter(r) \cup {t}
  <2>1. UsableAfter(r)' \subseteq Tokens
    BY DEF UsableAfter
  <2> QED
    BY <1>1, <1>3, <1>4, <2>1 DEF FamiliesAfter
<1>6. PICK G, H : G = FamiliesAfter(r) /\ H = G \cup {t}
  OBVIOUS
<1>7. IsFiniteSet(G) /\ Cardinality(G) \in Nat
  BY <1>6, FamiliesAreFinite, FS_CardinalityType
<1>8. IsFiniteSet(H) /\ Cardinality(H) <= Cardinality(G) + 1
  <2>1. IsFiniteSet(H) /\ Cardinality(H) = IF t \in G THEN Cardinality(G)
                                                      ELSE Cardinality(G) + 1
    BY <1>6, <1>7, FS_AddElement
  <2> QED
    BY <1>7, <2>1
<1>9. /\ Cardinality(FamiliesAfter(r)') <= Cardinality(H)
      /\ Cardinality(FamiliesAfter(r)') \in Nat /\ Cardinality(H) \in Nat
  BY <1>5, <1>6, <1>8, FewerFamilies
<1>10. MaxFamilies \in Nat /\ Cardinality(G) + 1 <= MaxFamilies
  BY <1>0, <1>6, ConfigurationIsValid DEF LoginMakesRoom
<1>11. Cardinality(FamiliesAfter(r)') <= MaxFamilies
  BY <1>7, <1>8, <1>9, <1>10
<1> QED
  BY <1>0, <1>11 DEF LoginMakesRoom

\* Whatever a request does, as a login it makes the room it needs.
LEMMA StepMakesRoom ==
  ASSUME TransactionInvariant, NEW r \in Requests, LoginMakesRoom(r),
         Arrive(r) \/ Step(r) \/ DeadlockVictim(r) \/ Abort(r)
  PROVE  LoginMakesRoom(r)'
<1>0. SessionInvariant /\ TypeOK /\ RequestInvariant(r)
  BY DEF TransactionInvariant, SessionInvariant
<1>1. ASSUME pc'[r] \in {"idle", "lockToken", "lockUser", "revokeUser"}
      PROVE  LoginMakesRoom(r)'
  BY <1>1 DEF LoginMakesRoom
<1>2. CASE Arrive(r)
  <2>1. pc'[r] \in {"lockToken", "lockUser", "revokeUser"}
    BY <1>0, <1>2 DEF Arrive, BeginCookieRequest, BeginLogin, BeginLogoutAll,
                      BeginChangePassword, BeginResetPassword, Begin, Goto, TypeOK
  <2> QED
    BY <1>1, <2>1
<1>3. CASE Rollback(r) \/ Commit(r)
  <2>1. pc'[r] = "idle"
    BY <1>0, <1>3 DEF Rollback, Commit, Release, TypeOK
  <2> QED
    BY <1>1, <2>1
<1>4. ASSUME Step(r), ctx[r].op # "login"
      PROVE  LoginMakesRoom(r)'
  <2>1. pc'[r] = "idle" \/ ctx'[r].op # "login"
    BY <1>0, <1>4, OperationStays
  <2> QED
    BY <1>1, <2>1 DEF LoginMakesRoom
<1>5. CASE LockToken(r) \/ RevokeUser(r)
  BY <1>0, <1>4, <1>5 DEF LockToken, RevokeUser, RequestInvariant, ContextMatches, Step
<1>6. CASE RefreshLockUser(r) \/ ChangePasswordLockUser(r) \/ ResetPasswordLockUser(r)
           \/ Rotate(r)
  BY <1>4, <1>6 DEF RefreshLockUser, ChangePasswordLockUser, ResetPasswordLockUser, Rotate, Step
<1>7. CASE RevokeFamily(r)
  BY <1>4, <1>7, EvictionMakesRoom DEF Step
<1>8. CASE LoginLockUser(r) \/ LockRow(r) \/ LockGap(r) \/ PickOldest(r) \/ OpenFamily(r)
  BY <1>8, CountingMakesRoom, ScanKeepsRoom, PickOldestMakesRoom, OpeningStaysWithinCap
<1> QED
  BY <1>2, <1>3, <1>5, <1>6, <1>7, <1>8
     DEF Step, RejectCookie, RejectCredentials, DeadlockVictim, Abort

\* At every step of every interleaving, each login has the room it counted on.
LEMMA NextKeepsRoom ==
  TransactionInvariant /\ LoginsMakeRoom /\ [Next]_vars => LoginsMakeRoom'
<1> SUFFICES ASSUME TransactionInvariant, LoginsMakeRoom, [Next]_vars, NEW q \in Requests
             PROVE  LoginMakesRoom(q)'
  BY DEF LoginsMakeRoom
<1>0. LoginMakesRoom(q) /\ SessionInvariant
  BY DEF LoginsMakeRoom, TransactionInvariant
<1>1. CASE Tick \/ (\E u \in Users : ChangeStatus(u)) \/ UNCHANGED vars
  <2>1. UNCHANGED <<db, work, owner, pc, ctx>>
    BY <1>1 DEF Tick, ChangeStatus, vars
  <2>2. FamiliesAfter(q)' = FamiliesAfter(q)
    BY <2>1, LocksKeepFamilies
  <2> QED
    BY <1>0, <2>1, <2>2 DEF LoginMakesRoom
<1>2. ASSUME NEW r \in Requests, Arrive(r) \/ Step(r) \/ DeadlockVictim(r) \/ Abort(r)
      PROVE  LoginMakesRoom(q)'
  <2>1. CASE q = r
    BY <1>0, <1>2, <2>1, StepMakesRoom
  <2>2. CASE q # r
    <3>1. Apart(r)
      BY <1>0, <1>2, StepsStayApart
    <3>2. Commit(r) \/ db' = db
      BY <1>2 DEF Arrive, BeginCookieRequest, BeginLogin, BeginLogoutAll,
           BeginChangePassword, BeginResetPassword, Begin, Step, RejectCookie, LockToken,
           RefreshLockUser, LoginLockUser, ChangePasswordLockUser, ResetPasswordLockUser,
           RejectCredentials, LockRow, LockGap, PickOldest, RevokeFamily, RevokeUser,
           OpenFamily, Rotate, Rollback, DeadlockVictim, Abort
    <3> QED
      BY <1>0, <2>2, <3>1, <3>2, OthersLeaveRoom
  <2> QED
    BY <2>1, <2>2
<1> QED
  BY <1>1, <1>2 DEF Next

\* The cap, as the lock on the account upholds it: a login that commits leaves no more
\* usable families than max_active_session_families_per_user, whatever other requests have
\* committed since it counted them (enforce_session_limit).
THEOREM LoginsKeepTheCap == Spec => []LoginsStayWithinCap
<1>1. Init => LoginsMakeRoom
  BY DEF Init, LoginsMakeRoom, LoginMakesRoom
<1>2. TransactionInvariant /\ LoginsMakeRoom /\ [Next]_vars => LoginsMakeRoom'
  BY NextKeepsRoom
<1>3. LoginsMakeRoom => LoginsStayWithinCap
  BY DEF LoginsMakeRoom, LoginMakesRoom, LoginsStayWithinCap
<1> QED
  BY <1>1, <1>2, <1>3, TransactionsHold, PTL DEF Spec
=============================================================================
