------------------------------ MODULE CodesProofs ------------------------------
(***************************************************************************)
(* Proofs about the codes an account is sent, for every set of accounts,   *)
(* codes and requests and every configuration.  Recovery keeps             *)
(* RecoveryInvariant and registration RegistrationInvariant; with the      *)
(* invariant of module EmailVerificationProofs they make CodesInvariant,   *)
(* that of the three services side by side, and from it the properties of  *)
(* the codes follow: only the newest is of use, and there are never too    *)
(* many.                                                                   *)
(***************************************************************************)
EXTENDS MCCodes, FiniteSetTheorems, WellFoundedInduction, TLAPS

\* The numbers among the constants.
LEMMA Numbers ==
  ASSUME ConstantsAreValid
  PROVE  /\ Expiry \in Nat /\ Cooldown \in Nat /\ Hour \in Nat
         /\ HourlyLimit \in Nat /\ MaxAttempts \in Nat
         /\ Expiry > 0 /\ Cooldown > 0 /\ Hour > 0 /\ HourlyLimit > 0 /\ MaxAttempts > 0
         /\ MaxTime \in Nat /\ MaxPassword \in Nat
  BY DEF ConstantsAreValid

\* Rows of the type, field by field.
LEMMA RowTypes ==
  ASSUME ConstantsAreValid, TypeOK, NEW c \in Codes
  PROVE  /\ code[c].exists \in BOOLEAN /\ code[c].used \in BOOLEAN
         /\ code[c].user \in Users \cup {NoUser}
         /\ code[c].created \in Nat /\ code[c].expires \in Nat
         /\ code[c].created <= MaxTime
         /\ code[c].attempts \in 0..MaxAttempts /\ code[c].credential \in Passwords
<1>1. code[c] \in Row
  BY DEF TypeOK
<1> QED
  BY <1>1, Numbers DEF Row, Time

\* Any set of rows has a newest one.
LEMMA ThereIsANewest ==
  ASSUME ConstantsAreValid, TypeOK, NEW S \in SUBSET Codes, S # {}
  PROVE  \E c \in S : \A d \in S : code[d].created <= code[c].created
<1> DEFINE Age(c) == MaxTime - code[c].created
           T == {Age(c) : c \in S}
<1>1. \A c \in Codes : code[c].created \in Nat /\ code[c].created <= MaxTime /\ MaxTime \in Nat
  BY RowTypes, Numbers
<1>2. \A c \in Codes : Age(c) \in Nat
  BY <1>1
<1>3. T \subseteq Nat /\ T # {}
  BY <1>2
<1>4. PICK x \in T : \A y \in T : ~ (<<y, x>> \in OpToRel(<, Nat))
  <2> HIDE DEF T
  <2> QED BY <1>3, NatLessThanWellFounded, WFMin
<1>5. \A y \in T : ~ (y < x)
  BY <1>3, <1>4 DEF OpToRel
<1>6. PICK c \in S : x = Age(c)
  BY <1>4
<1>7. ASSUME NEW d \in S PROVE code[d].created <= code[c].created
  <2>1. ~ (Age(d) < Age(c))
    BY <1>5, <1>6
  <2> QED BY <1>1, <2>1
<1> QED
  BY <1>7

\* A set with one element more, or a part of it.
LEMMA OneMore ==
  ASSUME NEW S, IsFiniteSet(S), NEW x, NEW T \in SUBSET (S \cup {x})
  PROVE  /\ Cardinality(S) \in Nat /\ Cardinality(T) \in Nat
         /\ Cardinality(T) <= Cardinality(S) + 1
<1>1. Cardinality(S) \in Nat
  BY FS_CardinalityType
<1>2. IsFiniteSet(S \cup {x}) /\ Cardinality(S \cup {x}) <= Cardinality(S) + 1
  BY <1>1, FS_AddElement
<1>3. /\ IsFiniteSet(T) /\ Cardinality(T) <= Cardinality(S \cup {x})
      /\ Cardinality(T) \in Nat /\ Cardinality(S \cup {x}) \in Nat
  BY <1>2, FS_Subset, FS_CardinalityType
<1> QED
  BY <1>1, <1>2, <1>3

-----------------------------------------------------------------------------
(* What most steps have in common.                                            *)

\* The request that ends leaves the others as sound as they were, if the codes
\* they deliver stay pending.
LEMMA OthersStaySound ==
  ASSUME ConstantsAreValid, RecoveryInvariant, TypeOK', now' >= now,
         NEW r \in Requests, Finish(r),
         \A c \in Codes : /\ code'[c].exists = code[c].exists
                          /\ code'[c].user = code[c].user
                          /\ code'[c].credential = code[c].credential,
         \A q \in Requests \ {r} : Delivering(q) => code'[ctx[q].code].used
  PROVE  (\A q \in Requests : ContextIsSound(q)') /\ NoCodeIsDeliveredTwice'
<1>1. /\ \A q \in Requests \ {r} : pc'[q] = pc[q] /\ ctx'[q] = ctx[q]
      /\ pc'[r] = "idle" /\ ctx'[r] = NoContext
  BY DEF Finish, Goto, RecoveryInvariant, TypeOK
<1>2. now \in Nat /\ now' \in Nat /\ \A q \in Requests : ctx[q].at \in Nat
  BY Numbers DEF RecoveryInvariant, TypeOK, Time, Context
<1>3. ASSUME NEW q \in Requests PROVE ContextIsSound(q)'
  <2>1. CASE q = r
    BY <1>1, <1>2, <2>1 DEF ContextIsSound, Delivering, NoContext
  <2>2. CASE q # r
    BY <1>1, <1>2, <2>2 DEF ContextIsSound, Delivering, RecoveryInvariant
  <2> QED BY <2>1, <2>2
<1>4. NoCodeIsDeliveredTwice'
  BY <1>1 DEF NoCodeIsDeliveredTwice, Delivering, RecoveryInvariant
<1> QED
  BY <1>3, <1>4

\* A step that issues nothing keeps the properties of the rows, if what is usable
\* then is a newest code of the present password.
LEMMA RowsStaySound ==
  ASSUME ConstantsAreValid, RecoveryInvariant, TypeOK',
         \A r \in Requests : ContextIsSound(r)', NoCodeIsDeliveredTwice',
         \A c \in Codes : /\ code'[c].exists = code[c].exists
                          /\ code'[c].user = code[c].user
                          /\ code'[c].created = code[c].created
                          /\ code'[c].credential = code[c].credential,
         \A c \in Codes : Usable(c)' =>
             /\ IsLatest(c, code[c].user)
             /\ code[c].credential = account'[code[c].user].password
  PROVE  RecoveryInvariant'
<1>1. \A u : CodesOf(u)' = CodesOf(u)
  BY DEF CodesOf
<1>2. \A c, u : IsLatest(c, u) => IsLatest(c, u)'
  <2>1. \A u : CodesOf(u) \subseteq Codes
    BY DEF CodesOf
  <2> QED BY <1>1, <2>1 DEF IsLatest
<1>3. OnlyTheNewestIsUsable'
  <2> SUFFICES ASSUME NEW c \in Codes, Usable(c)'
               PROVE  /\ IsLatest(c, code[c].user)'
                      /\ \A r \in Requests : UndeliveredBy(r)' => ctx'[r].code # c
    BY DEF OnlyTheNewestIsUsable
  <2>1. IsLatest(c, code[c].user)'
    BY <1>2
  <2>2. ASSUME NEW r \in Requests, UndeliveredBy(r)' PROVE ctx'[r].code # c
    BY <2>2 DEF UndeliveredBy, ContextIsSound, Delivering, Usable, ConstantsAreValid
  <2> QED BY <2>1, <2>2
<1>4. CodesFollowThePassword'
  BY DEF CodesFollowThePassword
<1>5. IssuingIsLimited'
  <2>1. \A u, at : HourBefore(u, at)' = HourBefore(u, at)
    BY <1>1 DEF HourBefore, CodesOf
  <2>2. \A c \in Codes : \A d \in CodesOf(code[c].user) : Apart(c, d) => Apart(c, d)'
    BY DEF Apart, CodesOf
  <2>3. \A c \in Codes : code[c].exists =>
          /\ Cardinality(HourBefore(code[c].user, code[c].created)) <= HourlyLimit
          /\ \A d \in CodesOf(code[c].user) \ {c} : Apart(c, d)
    BY DEF RecoveryInvariant, IssuingIsLimited
  <2> QED BY <1>1, <2>1, <2>2, <2>3 DEF IssuingIsLimited
<1>6. RowsHaveOwners'
  BY DEF RowsHaveOwners, RecoveryInvariant
<1> QED
  BY <1>3, <1>4, <1>5, <1>6 DEF RecoveryInvariant

-----------------------------------------------------------------------------
(* Issuing and activating.                                                    *)

\* A code that may be issued is newer, by the cooldown, than any other.
LEMMA IssuedCodeIsNewest ==
  ASSUME ConstantsAreValid, TypeOK, NEW u, NEW at \in Nat, MayIssue(u, at)
  PROVE  \A d \in CodesOf(u) : code[d].created + Cooldown <= at /\ code[d].created < at
<1> SUFFICES ASSUME NEW d \in CodesOf(u)
             PROVE  code[d].created + Cooldown <= at /\ code[d].created < at
  OBVIOUS
<1>1. CodesOf(u) \in SUBSET Codes /\ CodesOf(u) # {}
  BY DEF CodesOf
<1>2. PICK c \in CodesOf(u) : \A e \in CodesOf(u) : code[e].created <= code[c].created
  BY <1>1, ThereIsANewest
<1>3. at - code[c].created >= Cooldown
  BY <1>1, <1>2 DEF MayIssue, IsLatest
<1>4. code[c].created \in Nat /\ code[d].created \in Nat /\ Cooldown \in Nat /\ Cooldown > 0
  BY <1>1, RowTypes, Numbers
<1> QED
  BY <1>2, <1>3, <1>4

\* A request commits a pending code under the account's lock (create_challenge).
LEMMA IssueKeepsInvariant ==
  ASSUME ConstantsAreValid, RecoveryInvariant, NEW r \in Requests, Issue(r)
  PROVE  RecoveryInvariant'
<1> USE DEF RecoveryInvariant
<1>0. PICK u \in Users, at \in Time : u = ctx[r].user /\ at = ctx[r].at
  BY DEF Issue, ContextIsSound, TypeOK, Context
<1>1. PICK c \in Codes :
        /\ ~code[c].exists
        /\ code' = [Spent(Outstanding(u, at)) EXCEPT ![c] =
               [exists |-> TRUE, user |-> u, used |-> TRUE, created |-> at,
                expires |-> at + Expiry, attempts |-> 0, credential |-> account[u].password]]
        /\ ctx' = [ctx EXCEPT ![r].code = c, ![r].password = account[u].password]
  BY <1>0 DEF Issue
<1>2. /\ pc[r] = "issue" /\ pc' = [pc EXCEPT ![r] = "deliver"]
      /\ now' = now /\ account' = account
      /\ MayIssue(u, at)
  BY <1>0 DEF Issue, Goto
<1>3. u \in Users /\ at \in Time /\ at <= now /\ account[u].password \in Passwords
  BY <1>0 DEF ContextIsSound, TypeOK
<1>4. /\ code'[c] = [exists |-> TRUE, user |-> u, used |-> TRUE, created |-> at,
                     expires |-> at + Expiry, attempts |-> 0, credential |-> account[u].password]
      /\ \A d \in Codes \ {c} : code'[d] = IF d \in Outstanding(u, at)
                                            THEN [code[d] EXCEPT !.used = TRUE] ELSE code[d]
  BY <1>1 DEF Spent
<1>5. \A d \in Codes \ {c} :
        /\ code'[d].exists = code[d].exists /\ code'[d].user = code[d].user
        /\ code'[d].created = code[d].created /\ code'[d].credential = code[d].credential
        /\ code'[d].expires = code[d].expires /\ code'[d].attempts = code[d].attempts
        /\ code[d].used => code'[d].used
        /\ ~code'[d].used => ~code[d].used /\ d \notin Outstanding(u, at)
  <2> TAKE d \in Codes \ {c}
  <2>1. code[d] \in Row
    BY DEF TypeOK
  <2> QED BY <1>4, <2>1 DEF Row
<1>6. TypeOK'
  <2>1. code' \in [Codes -> Row]
    <3>1. code' = [d \in Codes |-> code'[d]]
      BY <1>1 DEF Spent
    <3>2. code'[c] \in Row
      BY <1>3, <1>4, Numbers DEF Row, Time
    <3>3. \A d \in Codes \ {c} : code'[d] \in Row
      BY <1>4 DEF TypeOK, Row
    <3> QED BY <3>1, <3>2, <3>3
  <2>2. ctx' \in [Requests -> Context]
    BY <1>1, <1>3 DEF TypeOK, Context
  <2>3. pc' \in [Requests -> Stages]
    BY <1>2 DEF TypeOK, Stages
  <2> QED BY <1>2, <2>1, <2>2, <2>3 DEF TypeOK
<1>7. /\ ctx'[r].code = c /\ ctx'[r].password = account[u].password
      /\ ctx'[r].user = u /\ ctx'[r].at = at /\ pc'[r] = "deliver"
      /\ \A q \in Requests \ {r} : ctx'[q] = ctx[q] /\ pc'[q] = pc[q]
  BY <1>0, <1>1, <1>2 DEF TypeOK, Context
<1>8. \A q \in Requests \ {r} : Delivering(q) => ctx[q].code \in Codes \ {c}
  BY <1>1 DEF ContextIsSound
<1>9. ASSUME NEW q \in Requests PROVE ContextIsSound(q)'
  <2>1. CASE q = r
    BY <1>2, <1>3, <1>4, <1>7, <2>1 DEF ContextIsSound, Delivering
  <2>2. CASE q # r
    <3>1. ContextIsSound(q)
      OBVIOUS
    <3>2. ctx'[q] = ctx[q] /\ pc'[q] = pc[q] /\ now' = now
      BY <1>2, <1>7, <2>2
    <3>3. CASE Delivering(q)
      <4>1. ctx[q].code \in Codes \ {c}
        BY <1>8, <2>2, <3>3
      <4> QED BY <1>5, <3>1, <3>2, <3>3, <4>1 DEF ContextIsSound, Delivering
    <3>4. CASE ~Delivering(q)
      BY <3>1, <3>2, <3>4 DEF ContextIsSound, Delivering
    <3> QED BY <3>3, <3>4
  <2> QED BY <2>1, <2>2
<1>10. NoCodeIsDeliveredTwice'
  BY <1>7, <1>8 DEF NoCodeIsDeliveredTwice, Delivering
<1>11. /\ CodesOf(u)' = CodesOf(u) \cup {c} /\ c \notin CodesOf(u)
       /\ \A v : v # u => CodesOf(v)' = CodesOf(v)
       /\ \A v : CodesOf(v) \subseteq Codes \ {c}
  <2>1. c \in Codes /\ code'[c].exists /\ code'[c].user = u
    BY <1>4
  <2>2. \A v : CodesOf(v) \subseteq Codes \ {c}
    BY <1>1 DEF CodesOf
  <2>3. \A v : \A d \in Codes \ {c} : d \in CodesOf(v)' <=> d \in CodesOf(v)
    BY <1>5 DEF CodesOf
  <2>4. \A v : c \in CodesOf(v)' <=> v = u
    BY <2>1 DEF CodesOf
  <2>5. \A v : CodesOf(v)' \subseteq Codes
    BY DEF CodesOf
  <2> QED BY <2>2, <2>3, <2>4, <2>5
<1>12. \A d \in Codes : Usable(d)' => d # c /\ Usable(d) /\ code[d].user # u
  <2> SUFFICES ASSUME NEW d \in Codes, Usable(d)' PROVE d # c /\ Usable(d) /\ code[d].user # u
    OBVIOUS
  <2>1. d # c
    BY <1>4 DEF Usable
  <2>2. Usable(d) /\ d \notin Outstanding(u, at)
    BY <1>2, <1>5, <2>1 DEF Usable
  <2>3. code[d].expires > at
    BY <1>3, <2>2, RowTypes, Numbers DEF Usable, Time, TypeOK
  <2> QED BY <2>1, <2>2, <2>3 DEF Usable, Outstanding, CodesOf
<1>13. OnlyTheNewestIsUsable'
  <2> SUFFICES ASSUME NEW d \in Codes, Usable(d)'
               PROVE  /\ IsLatest(d, code[d].user)'
                      /\ \A q \in Requests : UndeliveredBy(q)' => ctx'[q].code # d
    BY DEF OnlyTheNewestIsUsable
  <2>1. IsLatest(d, code[d].user)
    BY <1>12 DEF OnlyTheNewestIsUsable
  <2>2. IsLatest(d, code[d].user)'
    BY <1>5, <1>11, <1>12, <2>1 DEF IsLatest
  <2>3. \A q \in Requests : UndeliveredBy(q)' => ctx'[q].code # d
    BY <1>9 DEF UndeliveredBy, ContextIsSound, Delivering, Usable, ConstantsAreValid
  <2> QED BY <2>2, <2>3
<1>14. CodesFollowThePassword'
  BY <1>2, <1>5, <1>12 DEF CodesFollowThePassword
<1>15. IssuingIsLimited'
  <2>1. \A d \in CodesOf(u) : code[d].created + Cooldown <= at /\ code[d].created < at
    BY <1>2, <1>3, IssuedCodeIsNewest, Numbers DEF Time
  <2>2. /\ \A d \in Codes : code[d].created \in Nat
        /\ at \in Nat /\ Cooldown \in Nat /\ Hour \in Nat /\ HourlyLimit \in Nat
    BY <1>3, RowTypes, Numbers DEF Time
  <2>3. ASSUME NEW d \in Codes \ {c}, code[d].exists
        PROVE  /\ HourBefore(code[d].user, code[d].created)' = HourBefore(code[d].user, code[d].created)
               /\ \A e \in CodesOf(code[d].user)' \ {d} : Apart(d, e)'
    <3>1. CASE code[d].user # u
      <4>1. CodesOf(code[d].user)' = CodesOf(code[d].user)
        BY <1>5, <1>11, <3>1
      <4>2. \A e \in CodesOf(code[d].user) : code'[e].created = code[e].created
        BY <1>5, <1>11
      <4>3. HourBefore(code[d].user, code[d].created)' = HourBefore(code[d].user, code[d].created)
        BY <1>5, <4>1, <4>2 DEF HourBefore
      <4>4. \A e \in CodesOf(code[d].user) \ {d} : Apart(d, e)
        BY <2>3 DEF IssuingIsLimited
      <4> QED BY <1>5, <4>1, <4>2, <4>3, <4>4 DEF Apart
    <3>2. CASE code[d].user = u
      <4>1. d \in CodesOf(u)
        BY <2>3, <3>2 DEF CodesOf
      <4>2. code'[c].created \notin (code[d].created - Hour)..code[d].created
        BY <1>4, <2>1, <2>2, <4>1
      <4>3. HourBefore(u, code[d].created)' = HourBefore(u, code[d].created)
        BY <1>5, <1>11, <4>2 DEF HourBefore
      <4>4. Apart(d, c)'
        BY <1>4, <1>5, <2>1, <4>1 DEF Apart
      <4>5. \A e \in CodesOf(u) \ {d} : Apart(d, e)'
        BY <1>5, <1>11, <2>3, <3>2 DEF Apart, IssuingIsLimited
      <4> QED BY <1>5, <1>11, <3>2, <4>3, <4>4, <4>5
    <3> QED BY <3>1, <3>2
  <2>4. Cardinality(HourBefore(u, at)') <= HourlyLimit
    <3> DEFINE S == {d \in CodesOf(u) : code[d].created >= at - Hour}
    <3>1. IsFiniteSet(S)
      BY <1>11, FS_Subset DEF ConstantsAreValid
    <3>2. Cardinality(S) < HourlyLimit
      BY <1>2 DEF MayIssue, CreatedSince
    <3>3. HourBefore(u, at)' \subseteq S \cup {c}
      <4> SUFFICES ASSUME NEW d \in HourBefore(u, at)', d # c PROVE d \in S
        OBVIOUS
      <4>1. d \in CodesOf(u) /\ code'[d].created \in (at - Hour)..at
        BY <1>11, <2>2, <1>4 DEF HourBefore
      <4>2. code'[d].created = code[d].created
        BY <1>5, <1>11, <4>1
      <4> QED BY <2>2, <4>1, <4>2
    <3> HIDE DEF S
    <3>4. /\ Cardinality(S) \in Nat /\ Cardinality(HourBefore(u, at)') \in Nat
          /\ Cardinality(HourBefore(u, at)') <= Cardinality(S) + 1
      BY <3>1, <3>3, OneMore
    <3> QED BY <2>2, <3>2, <3>4
  <2>5. \A e \in CodesOf(u) : Apart(c, e)'
    BY <1>4, <1>5, <1>11, <2>1 DEF Apart
  <2>6. ASSUME NEW d \in Codes \ {c}, code'[d].exists
        PROVE  /\ Cardinality(HourBefore(code[d].user, code[d].created)') <= HourlyLimit
               /\ \A e \in CodesOf(code[d].user)' \ {d} : Apart(d, e)'
    BY <1>5, <2>3, <2>6 DEF IssuingIsLimited
  <2>7. ASSUME NEW d \in Codes, code'[d].exists
        PROVE  /\ Cardinality(HourBefore(code[d].user, code[d].created)') <= HourlyLimit
               /\ \A e \in CodesOf(code[d].user)' \ {d} : Apart(d, e)'
    <3>1. CASE d = c
      BY <1>4, <1>11, <2>4, <2>5, <3>1
    <3>2. CASE d # c
      BY <1>5, <2>6, <2>7, <3>2
    <3> QED BY <3>1, <3>2
  <2> QED BY <2>7 DEF IssuingIsLimited
<1>16. RowsHaveOwners'
  BY <1>4, <1>5 DEF RowsHaveOwners
<1> QED
  BY <1>6, <1>9, <1>10, <1>13, <1>14, <1>15, <1>16

\* A delivered code that is still current becomes the only usable one (activate_delivered).
LEMMA ActivateKeepsInvariant ==
  ASSUME ConstantsAreValid, RecoveryInvariant, NEW r \in Requests, Activate(r)
  PROVE  RecoveryInvariant'
<1> USE DEF RecoveryInvariant
<1>1. PICK c \in Codes : c = ctx[r].code
  BY DEF Activate, ContextIsSound, Delivering
<1>2. /\ pc[r] = "activate" /\ StillCurrent(r) /\ Finish(r)
      /\ code' = [code EXCEPT ![c].used = FALSE] /\ now' = now /\ account' = account
  BY <1>1 DEF Activate
<1>3. /\ \A d \in Codes \ {c} : code'[d] = code[d]
      /\ code'[c] = [code[c] EXCEPT !.used = FALSE]
      /\ code[c] \in Row
  BY <1>2 DEF TypeOK
<1>4. /\ code'[c].exists = code[c].exists /\ code'[c].user = code[c].user
      /\ code'[c].created = code[c].created /\ code'[c].credential = code[c].credential
  BY <1>3 DEF Row
<1>5. TypeOK'
  <2>1. code' \in [Codes -> Row]
    BY <1>2, <1>3 DEF TypeOK, Row
  <2>2. pc' \in [Requests -> Stages] /\ ctx' \in [Requests -> Context]
    BY <1>2, Numbers DEF TypeOK, Finish, Goto, Stages, NoContext, Context, Time, Passwords
  <2> QED BY <1>2, <2>1, <2>2 DEF TypeOK
<1>6. \A q \in Requests \ {r} : Delivering(q) => ctx[q].code \in Codes \ {c} /\ code[ctx[q].code].used
  BY <1>1, <1>2 DEF ContextIsSound, NoCodeIsDeliveredTwice, Delivering
<1>7. (\A q \in Requests : ContextIsSound(q)') /\ NoCodeIsDeliveredTwice'
  <2>1. now' >= now
    BY <1>2, Numbers DEF TypeOK, Time
  <2>2. \A q \in Requests \ {r} : Delivering(q) => code'[ctx[q].code].used
    BY <1>3, <1>6
  <2> QED BY <1>2, <1>3, <1>4, <1>5, <2>1, <2>2, OthersStaySound
<1>8. ASSUME NEW d \in Codes, Usable(d)'
      PROVE  IsLatest(d, code[d].user) /\ code[d].credential = account'[code[d].user].password
  <2>1. CASE d = c
    BY <1>1, <1>2, <2>1 DEF StillCurrent, ContextIsSound, Delivering
  <2>2. CASE d # c
    <3>1. Usable(d)
      BY <1>2, <1>3, <1>8, <2>2 DEF Usable
    <3> QED BY <1>2, <3>1 DEF OnlyTheNewestIsUsable, CodesFollowThePassword
  <2> QED BY <2>1, <2>2
<1> QED
  BY <1>3, <1>4, <1>5, <1>7, <1>8, RowsStaySound

-----------------------------------------------------------------------------
(* Steps that void codes, count attempts or only end a request.               *)

\* Spending codes, whichever, changes nothing else of them.
LEMMA SpendingTypes ==
  ASSUME ConstantsAreValid, TypeOK, NEW S, code' = Spent(S)
  PROVE  /\ code' \in [Codes -> Row]
         /\ \A c \in Codes :
              /\ code'[c].exists = code[c].exists /\ code'[c].user = code[c].user
              /\ code'[c].created = code[c].created /\ code'[c].credential = code[c].credential
              /\ code'[c].expires = code[c].expires /\ code'[c].attempts = code[c].attempts
              /\ code[c].used => code'[c].used
              /\ ~code'[c].used => ~code[c].used /\ c \notin S
<1>1. \A c \in Codes :
        /\ code'[c] = IF c \in S THEN [code[c] EXCEPT !.used = TRUE] ELSE code[c]
        /\ code[c] \in Row
  BY DEF Spent, TypeOK
<1>2. code' = [c \in Codes |-> code'[c]]
  BY DEF Spent
<1>3. \A c \in Codes : code'[c] \in Row
  BY <1>1 DEF Row
<1> QED
  BY <1>1, <1>2, <1>3 DEF Row

\* A new password that voids all codes a reset could use.
LEMMA NewPasswordKeepsInvariant ==
  ASSUME ConstantsAreValid, RecoveryInvariant, NEW r \in Requests, NEW S, NEW u \in Users,
         code' = Spent(S), Finish(r), now' = now,
         account[u].password < MaxPassword,
         account' = [account EXCEPT ![u].password = @ + 1],
         \A c \in Codes : Usable(c) /\ code[c].user = u => c \in S
  PROVE  RecoveryInvariant'
<1> USE DEF RecoveryInvariant
<1>1. TypeOK'
  <2>1. code' \in [Codes -> Row]
    BY SpendingTypes
  <2>2. account' \in [Users -> [active: BOOLEAN, password: Passwords]]
    BY Numbers DEF TypeOK, Passwords
  <2>3. pc' \in [Requests -> Stages] /\ ctx' \in [Requests -> Context]
    BY Numbers DEF TypeOK, Finish, Goto, Stages, NoContext, Context, Time, Passwords
  <2> QED BY <2>1, <2>2, <2>3 DEF TypeOK
<1>2. (\A q \in Requests : ContextIsSound(q)') /\ NoCodeIsDeliveredTwice'
  <2>1. now' >= now
    BY Numbers DEF TypeOK, Time
  <2>2. \A q \in Requests \ {r} : Delivering(q) => code'[ctx[q].code].used
    BY SpendingTypes DEF ContextIsSound
  <2> QED BY <1>1, <2>1, <2>2, SpendingTypes, OthersStaySound
<1>3. ASSUME NEW c \in Codes, Usable(c)'
      PROVE  IsLatest(c, code[c].user) /\ code[c].credential = account'[code[c].user].password
  <2>1. Usable(c) /\ code[c].user # u
    BY <1>3, SpendingTypes DEF Usable
  <2>2. account'[code[c].user].password = account[code[c].user].password
    BY <2>1 DEF TypeOK
  <2> QED BY <2>1, <2>2 DEF OnlyTheNewestIsUsable, CodesFollowThePassword
<1> QED
  BY <1>1, <1>2, <1>3, SpendingTypes, RowsStaySound

\* A request that ends, having at most counted wrong numbers.
LEMMA EndingKeepsInvariant ==
  ASSUME ConstantsAreValid, RecoveryInvariant, NEW r \in Requests,
         Finish(r), now' = now, account' = account, code' \in [Codes -> Row],
         \A c \in Codes :
             /\ code'[c].exists = code[c].exists /\ code'[c].user = code[c].user
             /\ code'[c].created = code[c].created /\ code'[c].credential = code[c].credential
             /\ code'[c].expires = code[c].expires /\ code[c].attempts <= code'[c].attempts
             /\ code'[c].used = code[c].used
  PROVE  RecoveryInvariant'
<1> USE DEF RecoveryInvariant
<1>1. TypeOK'
  BY Numbers DEF TypeOK, Finish, Goto, Stages, NoContext, Context, Time, Passwords
<1>2. (\A q \in Requests : ContextIsSound(q)') /\ NoCodeIsDeliveredTwice'
  <2>1. now' >= now
    BY Numbers DEF TypeOK, Time
  <2>2. \A q \in Requests \ {r} : Delivering(q) => code'[ctx[q].code].used
    BY DEF ContextIsSound
  <2> QED BY <1>1, <2>1, <2>2, OthersStaySound
<1>3. ASSUME NEW c \in Codes, Usable(c)'
      PROVE  IsLatest(c, code[c].user) /\ code[c].credential = account'[code[c].user].password
  <2>1. code[c].attempts \in Nat /\ code'[c].attempts \in Nat /\ MaxAttempts \in Nat
    BY <1>1, Numbers DEF TypeOK, Row
  <2>2. Usable(c)
    BY <1>3, <2>1 DEF Usable
  <2> QED BY <2>2 DEF OnlyTheNewestIsUsable, CodesFollowThePassword
<1> QED
  BY <1>1, <1>2, <1>3, RowsStaySound

\* What a step does to requests alone.
LEMMA WaitingKeepsInvariant ==
  ASSUME ConstantsAreValid, RecoveryInvariant, TypeOK', now' >= now, code' = code,
         \A u \in Users : account'[u].password = account[u].password,
         \A q \in Requests : ContextIsSound(q)', NoCodeIsDeliveredTwice'
  PROVE  RecoveryInvariant'
<1> USE DEF RecoveryInvariant
<1>1. ASSUME NEW c \in Codes, Usable(c)'
      PROVE  IsLatest(c, code[c].user) /\ code[c].credential = account'[code[c].user].password
  <2>1. now \in Nat /\ now' \in Nat /\ code[c].expires \in Nat
    BY RowTypes, Numbers DEF TypeOK, Time
  <2>2. Usable(c)
    BY <1>1, <2>1 DEF Usable
  <2>3. IsLatest(c, code[c].user) /\ code[c].credential = account[code[c].user].password
    BY <2>2 DEF OnlyTheNewestIsUsable, CodesFollowThePassword
  <2>4. code[c].user \in Users
    BY <2>2 DEF Usable, RowsHaveOwners
  <2> QED BY <2>3, <2>4
<1> QED
  BY <1>1, RowsStaySound

\* A request that begins has read the clock and delivers nothing yet.
LEMMA ArrivalKeepsInvariant ==
  ASSUME ConstantsAreValid, RecoveryInvariant, NEW r \in Requests, Arrive(r)
  PROVE  RecoveryInvariant'
<1> USE DEF RecoveryInvariant
<1>1. PICK aim \in {"issue", "complete", "change"}, u \in Users,
           c \in Codes \cup {NoCode}, p \in Passwords :
        /\ Begin(r, aim, u, c, p)
        /\ aim = "issue" => c = NoCode
        /\ aim = "change" => p < MaxPassword
  <2>1. 0 \in Passwords
    BY Numbers DEF Passwords
  <2> QED BY <2>1 DEF Arrive, BeginForgot, BeginReset, BeginChange
<1>2. /\ pc[r] = "idle" /\ pc' = [pc EXCEPT ![r] = aim]
      /\ ctx' = [ctx EXCEPT ![r] = [user |-> u, at |-> now, code |-> c, password |-> p]]
      /\ now' = now /\ account' = account /\ code' = code
  BY <1>1 DEF Begin, Goto
<1>3. TypeOK'
  BY <1>2 DEF TypeOK, Stages, Context
<1>4. /\ pc'[r] = aim /\ ctx'[r] = [user |-> u, at |-> now, code |-> c, password |-> p]
      /\ \A q \in Requests \ {r} : pc'[q] = pc[q] /\ ctx'[q] = ctx[q]
  BY <1>2 DEF TypeOK
<1>5. now' >= now /\ now <= now
  BY <1>2, Numbers DEF TypeOK, Time
<1>6. ASSUME NEW q \in Requests PROVE ContextIsSound(q)'
  <2>1. CASE q = r
    BY <1>1, <1>2, <1>4, <1>5, <2>1 DEF ContextIsSound, Delivering
  <2>2. CASE q # r
    BY <1>2, <1>4, <2>2 DEF ContextIsSound, Delivering
  <2> QED BY <2>1, <2>2
<1>7. NoCodeIsDeliveredTwice'
  BY <1>4 DEF NoCodeIsDeliveredTwice, Delivering
<1> QED
  BY <1>2, <1>3, <1>5, <1>6, <1>7, WaitingKeepsInvariant

\* Delivery succeeds or fails outside any transaction.
LEMMA DeliverKeepsInvariant ==
  ASSUME ConstantsAreValid, RecoveryInvariant, NEW r \in Requests, Deliver(r)
  PROVE  RecoveryInvariant'
<1> USE DEF RecoveryInvariant
<1>1. /\ pc[r] = "deliver" /\ pc' = [pc EXCEPT ![r] = "activate"]
      /\ UNCHANGED <<now, account, code, ctx>>
  BY DEF Deliver, Goto
<1>2. TypeOK'
  BY <1>1 DEF TypeOK, Stages
<1>3. \A q \in Requests : pc'[q] = IF q = r THEN "activate" ELSE pc[q]
  BY <1>1 DEF TypeOK
<1>4. \A q \in Requests : ContextIsSound(q)'
  BY <1>1, <1>3 DEF ContextIsSound, Delivering
<1>5. NoCodeIsDeliveredTwice'
  BY <1>1, <1>3 DEF NoCodeIsDeliveredTwice, Delivering
<1>6. now' >= now
  BY <1>1, Numbers DEF TypeOK, Time
<1> QED
  BY <1>1, <1>2, <1>4, <1>5, <1>6, WaitingKeepsInvariant

\* Time passes.
LEMMA TickKeepsInvariant ==
  ASSUME ConstantsAreValid, RecoveryInvariant, Tick
  PROVE  RecoveryInvariant'
<1> USE DEF RecoveryInvariant
<1>1. /\ now \in Nat /\ now' = now + 1 /\ now' \in Time /\ now' >= now
      /\ UNCHANGED <<account, code, pc, ctx>>
      /\ \A q \in Requests : ctx[q].at \in Nat
  BY Numbers DEF Tick, TypeOK, Time, Context
<1>2. TypeOK'
  BY <1>1 DEF TypeOK
<1>3. \A q \in Requests : ContextIsSound(q)'
  BY <1>1 DEF ContextIsSound, Delivering
<1>4. NoCodeIsDeliveredTwice'
  BY <1>1 DEF NoCodeIsDeliveredTwice, Delivering
<1> QED
  BY <1>1, <1>2, <1>3, <1>4, WaitingKeepsInvariant

\* An administrator blocks or restores the account.
LEMMA ChangeStatusKeepsInvariant ==
  ASSUME ConstantsAreValid, RecoveryInvariant, NEW u \in Users, ChangeStatus(u)
  PROVE  RecoveryInvariant'
<1> USE DEF RecoveryInvariant
<1>1. account' = [account EXCEPT ![u].active = ~@] /\ UNCHANGED <<now, code, pc, ctx>>
  BY DEF ChangeStatus
<1>2. /\ account' \in [Users -> [active: BOOLEAN, password: Passwords]]
      /\ \A v \in Users : account'[v].password = account[v].password
  BY <1>1 DEF TypeOK
<1>3. TypeOK'
  BY <1>1, <1>2 DEF TypeOK
<1>4. (\A q \in Requests : ContextIsSound(q)') /\ NoCodeIsDeliveredTwice'
  BY <1>1 DEF ContextIsSound, NoCodeIsDeliveredTwice, Delivering
<1>5. now' >= now
  BY <1>1, Numbers DEF TypeOK, Time
<1> QED
  BY <1>1, <1>2, <1>3, <1>4, <1>5, WaitingKeepsInvariant

\* A correct code changes the password and ends every code, a wrong one counts an attempt.
LEMMA ResetKeepsInvariant ==
  ASSUME ConstantsAreValid, RecoveryInvariant, NEW r \in Requests, Reset(r)
  PROVE  RecoveryInvariant'
<1> USE DEF RecoveryInvariant
<1>1. CASE Complete(r)
  <2>1. PICK u \in Users : u = ctx[r].user
    BY <1>1 DEF Complete, ContextIsSound
  <2>2. /\ account[u].password < MaxPassword
        /\ account' = [account EXCEPT ![u].password = @ + 1]
        /\ code' = Spent({d \in CodesOf(u) : ~code[d].used})
        /\ Finish(r) /\ now' = now
    BY <1>1, <2>1 DEF Complete
  <2>3. \A c \in Codes : Usable(c) /\ code[c].user = u => c \in {d \in CodesOf(u) : ~code[d].used}
    BY DEF Usable, CodesOf
  <2> QED BY <2>2, <2>3, NewPasswordKeepsInvariant
<1>2. CASE Miss(r)
  <2>1. PICK c \in Codes : Challenge(r, c) /\ code' = [code EXCEPT ![c].attempts = @ + 1]
    BY <1>2 DEF Miss
  <2>2. code[c] \in Row /\ code[c].attempts \in 0..MaxAttempts /\ code[c].attempts < MaxAttempts
    BY <2>1 DEF Challenge, TypeOK, Row
  <2>3. code'[c] = [code[c] EXCEPT !.attempts = @ + 1] /\ \A d \in Codes \ {c} : code'[d] = code[d]
    BY <2>1 DEF TypeOK
  <2>4. code'[c] \in Row /\ code' \in [Codes -> Row]
    BY <2>1, <2>2, <2>3, Numbers DEF Row, TypeOK
  <2>5. \A d \in Codes : code[d].attempts \in Nat
    BY RowTypes, Numbers
  <2>6. \A d \in Codes :
          /\ code'[d].exists = code[d].exists /\ code'[d].user = code[d].user
          /\ code'[d].created = code[d].created /\ code'[d].credential = code[d].credential
          /\ code'[d].expires = code[d].expires /\ code[d].attempts <= code'[d].attempts
          /\ code'[d].used = code[d].used
    BY <2>2, <2>3, <2>5 DEF Row
  <2> QED BY <1>2, <2>4, <2>6, EndingKeepsInvariant DEF Miss
<1>3. CASE Refuse(r)
  BY <1>3, RowTypes, Numbers, EndingKeepsInvariant DEF Refuse, TypeOK
<1> QED
  BY <1>1, <1>2, <1>3 DEF Reset

\* So does a change of the password by its owner.
LEMMA ChangeKeepsInvariant ==
  ASSUME ConstantsAreValid, RecoveryInvariant, NEW r \in Requests, Change(r)
  PROVE  RecoveryInvariant'
<1> USE DEF RecoveryInvariant
<1>1. PICK u \in Users, at \in Time : u = ctx[r].user /\ at = ctx[r].at
  BY DEF Change, ContextIsSound, TypeOK, Context
<1>2. /\ pc[r] = "change" /\ account[u].password = ctx[r].password
      /\ account' = [account EXCEPT ![u].password = @ + 1]
      /\ code' = Spent(Outstanding(u, at)) /\ Finish(r) /\ now' = now
  BY <1>1 DEF Change
<1>3. account[u].password < MaxPassword /\ at <= now
  BY <1>1, <1>2 DEF ContextIsSound
<1>4. \A c \in Codes : Usable(c) /\ code[c].user = u => c \in Outstanding(u, at)
  BY <1>3, RowTypes, Numbers DEF Usable, Outstanding, CodesOf, TypeOK, Time
<1> QED
  BY <1>2, <1>3, <1>4, NewPasswordKeepsInvariant

\* A request that ends without a write.
LEMMA RefusalKeepsInvariant ==
  ASSUME ConstantsAreValid, RecoveryInvariant, NEW r \in Requests,
         Decline(r) \/ FailDelivery(r) \/ Overtaken(r) \/ RefuseChange(r) \/ Abort(r)
  PROVE  RecoveryInvariant'
<1>1. Finish(r) /\ UNCHANGED <<now, account, code>>
  BY DEF Decline, FailDelivery, Overtaken, RefuseChange, Abort
<1> QED
  BY <1>1, RowTypes, Numbers, EndingKeepsInvariant DEF RecoveryInvariant, TypeOK

-----------------------------------------------------------------------------

\* No code and no request at first.
LEMMA InitHasInvariant ==
  ASSUME ConstantsAreValid, Init
  PROVE  RecoveryInvariant
<1>1. TypeOK
  BY Numbers DEF Init, TypeOK, Time, Passwords, Row, Blank, Stages, Context, NoContext
<1>2. \A c \in Codes : ~code[c].exists
  BY DEF Init, Blank
<1>3. \A r \in Requests : pc[r] = "idle" /\ ctx[r].at <= now
  BY DEF Init, NoContext
<1> QED
  BY <1>1, <1>2, <1>3 DEF RecoveryInvariant, RowsHaveOwners, ContextIsSound, Delivering,
     NoCodeIsDeliveredTwice, OnlyTheNewestIsUsable, CodesFollowThePassword, IssuingIsLimited, Usable

\* Every step together.
LEMMA NextKeepsInvariant ==
  ASSUME ConstantsAreValid, RecoveryInvariant, [Next]_vars
  PROVE  RecoveryInvariant'
<1>1. CASE UNCHANGED vars
  <2>1. now' = now /\ account' = account /\ code' = code /\ pc' = pc /\ ctx' = ctx
    BY <1>1 DEF vars
  <2>2. TypeOK' /\ now' >= now
    BY <2>1, Numbers DEF RecoveryInvariant, TypeOK, Time
  <2>3. (\A q \in Requests : ContextIsSound(q)') /\ NoCodeIsDeliveredTwice'
    BY <2>1 DEF RecoveryInvariant, ContextIsSound, NoCodeIsDeliveredTwice, Delivering
  <2> QED BY <2>1, <2>2, <2>3, WaitingKeepsInvariant
<1>2. ASSUME NEW r \in Requests,
             Arrive(r) \/ Forgot(r) \/ Reset(r) \/ Change(r) \/ RefuseChange(r) \/ Abort(r)
      PROVE  RecoveryInvariant'
  <2>1. CASE Arrive(r)
    BY <2>1, ArrivalKeepsInvariant
  <2>2. CASE Issue(r)
    BY <2>2, IssueKeepsInvariant
  <2>3. CASE Deliver(r)
    BY <2>3, DeliverKeepsInvariant
  <2>4. CASE Activate(r)
    BY <2>4, ActivateKeepsInvariant
  <2>5. CASE Reset(r)
    BY <2>5, ResetKeepsInvariant
  <2>6. CASE Change(r)
    BY <2>6, ChangeKeepsInvariant
  <2>7. CASE Decline(r) \/ FailDelivery(r) \/ Overtaken(r) \/ RefuseChange(r) \/ Abort(r)
    BY <2>7, RefusalKeepsInvariant
  <2> QED BY <1>2, <2>1, <2>2, <2>3, <2>4, <2>5, <2>6, <2>7 DEF Forgot
<1>3. CASE Tick
  BY <1>3, TickKeepsInvariant
<1>4. CASE \E u \in Users : ChangeStatus(u)
  BY <1>4, ChangeStatusKeepsInvariant
<1> QED
  BY <1>1, <1>2, <1>3, <1>4 DEF Next

\* Whatever requests, deliveries and clocks overlap, recovery keeps its invariant.
THEOREM RecoveryInvariantHolds == ASSUME ConstantsAreValid PROVE Spec => []RecoveryInvariant
<1>1. Init => RecoveryInvariant
  BY InitHasInvariant
<1>2. RecoveryInvariant /\ [Next]_vars => RecoveryInvariant'
  BY NextKeepsInvariant
<1> QED
  BY <1>1, <1>2, PTL DEF Spec

\* No code is usable beside a newer one, or before it was delivered (request_reset).
THEOREM NewestIsUsable == ASSUME ConstantsAreValid PROVE Spec => []OnlyTheNewestIsUsable
<1>1. RecoveryInvariant => OnlyTheNewestIsUsable
  BY DEF RecoveryInvariant
<1> QED
  BY <1>1, RecoveryInvariantHolds, PTL

\* A change of the password ends every code issued for the old one (reset_password,
\* change_password).
THEOREM CodesEndWithThePassword == ASSUME ConstantsAreValid PROVE Spec => []CodesFollowThePassword
<1>1. RecoveryInvariant => CodesFollowThePassword
  BY DEF RecoveryInvariant
<1> QED
  BY <1>1, RecoveryInvariantHolds, PTL

\* No hour has more codes of an account than the limit, and no two are closer than
\* the cooldown (_may_issue).
THEOREM IssuingStaysLimited == ASSUME ConstantsAreValid PROVE Spec => []IssuingIsLimited
<1>1. RecoveryInvariant => IssuingIsLimited
  BY DEF RecoveryInvariant
<1> QED
  BY <1>1, RecoveryInvariantHolds, PTL

-----------------------------------------------------------------------------
(* Registration and the verification of phones (module Registration).           *)

\* The instance's finite sets and cardinalities are those of the library.
LEMMA PhoneCount ==
  /\ \A S : Phone!IsFiniteSet(S) <=> IsFiniteSet(S)
  /\ \A S : Phone!Cardinality(S) = Cardinality(S)
  BY DEF Phone!IsFiniteSet, IsFiniteSet, Phone!Cardinality, Cardinality

\* The numbers among the constants.
LEMMA PhoneNumbers ==
  ASSUME Phone!ConstantsAreValid
  PROVE  /\ Expiry \in Nat /\ Cooldown \in Nat /\ Hour \in Nat
         /\ HourlyLimit \in Nat /\ MaxAttempts \in Nat /\ (MaxTime - 1) \in Nat
         /\ Expiry > 0 /\ Cooldown > 0 /\ Hour > 0 /\ HourlyLimit > 0 /\ MaxAttempts > 0
         /\ None \notin NewUsers /\ None \notin Codes /\ None \notin Phones /\ None \notin Emails
  BY DEF Phone!ConstantsAreValid

\* The fields of an account, a code and a request.
LEMMA PhoneTypes ==
  ASSUME Phone!ConstantsAreValid, Phone!TypeOK
  PROVE  /\ \A u \in NewUsers : person[u] \in Phone!Account
         /\ \A c \in Codes : /\ message[c] \in Phone!Row /\ message[c].created \in Nat
                             /\ message[c].created <= (MaxTime - 1)
                             /\ message[c].attempts \in 0..MaxAttempts
         /\ \A r \in Requests : local[r] \in Phone!Context /\ local[r].at \in Nat
               /\ local[r].at <= (MaxTime - 1)
         /\ now \in Nat /\ now <= (MaxTime - 1)
<1>1. \A u \in NewUsers : person[u] \in Phone!Account
  BY DEF Phone!TypeOK
<1>2. \A c \in Codes : message[c] \in Phone!Row
  BY DEF Phone!TypeOK
<1>3. \A r \in Requests : local[r] \in Phone!Context
  BY DEF Phone!TypeOK
<1>4. now \in Phone!Time
  BY DEF Phone!TypeOK
<1>5. \A t \in Phone!Time : t \in Nat /\ t <= (MaxTime - 1)
  BY PhoneNumbers DEF Phone!Time
<1>6. \A x \in Phone!Row : x.created \in Phone!Time /\ x.attempts \in 0..MaxAttempts
  BY DEF Phone!Row
<1>7. \A x \in Phone!Context : x.at \in Phone!Time
  BY DEF Phone!Context
<1> QED
  BY <1>1, <1>2, <1>3, <1>4, <1>5, <1>6, <1>7

\* A set with one element more, or a part of it.
LEMMA PhoneOneMore ==
  ASSUME NEW S, Phone!IsFiniteSet(S), NEW x, NEW T \in SUBSET (S \cup {x})
  PROVE  /\ Phone!Cardinality(S) \in Nat /\ Phone!Cardinality(T) \in Nat
         /\ Phone!Cardinality(T) <= Phone!Cardinality(S) + 1
  BY OneMore, PhoneCount

\* Any account with codes has a newest one.
LEMMA PhoneThereIsANewest ==
  ASSUME Phone!ConstantsAreValid, Phone!TypeOK, NEW u, Phone!CodesOf(u) # {}
  PROVE  \E c \in Codes : Phone!IsLatest(c, u)
<1> DEFINE Age(c) == (MaxTime - 1) - message[c].created
           T == {Age(c) : c \in Phone!CodesOf(u)}
<1>0. Phone!CodesOf(u) \subseteq Codes
  BY DEF Phone!CodesOf
<1>1. \A c \in Phone!CodesOf(u) : message[c].created \in Nat /\ message[c].created <= (MaxTime - 1) /\ (MaxTime - 1) \in Nat
  BY <1>0, PhoneTypes, PhoneNumbers
<1>2. \A c \in Phone!CodesOf(u) : Age(c) \in Nat
  BY <1>1
<1>3. T \subseteq Nat /\ T # {}
  BY <1>2
<1>4. PICK x \in T : \A y \in T : ~ (<<y, x>> \in OpToRel(<, Nat))
  <2> HIDE DEF T
  <2> QED BY <1>3, NatLessThanWellFounded, WFMin
<1>5. \A y \in T : ~ (y < x)
  BY <1>3, <1>4 DEF OpToRel
<1>6. PICK c \in Phone!CodesOf(u) : x = Age(c)
  BY <1>4
<1>7. ASSUME NEW d \in Phone!CodesOf(u) PROVE message[d].created <= message[c].created
  <2>1. ~ (Age(d) < Age(c))
    BY <1>5, <1>6
  <2> QED BY <1>1, <2>1
<1> QED
  BY <1>0, <1>7 DEF Phone!IsLatest

-----------------------------------------------------------------------------
(* What most steps have in common.                                            *)

\* A request that ends leaves the others as they were.
LEMMA PhoneFinishIsSound ==
  ASSUME Phone!ConstantsAreValid, Phone!RegistrationInvariant, NEW r \in Requests,
         Phone!Finish(r), now' = now
  PROVE  /\ stage' \in [Requests -> Phone!Stages] /\ local' \in [Requests -> Phone!Context]
         /\ \A q \in Requests : Phone!RequestIsSound(q)'
<1>1. stage' = [stage EXCEPT ![r] = "idle"] /\ local' = [local EXCEPT ![r] = Phone!NoContext]
  BY DEF Phone!Finish, Phone!Goto
<1>2. Phone!NoContext \in Phone!Context /\ Phone!NoContext.at = 0
  BY PhoneNumbers DEF Phone!NoContext, Phone!Context, Phone!Time
<1>3. stage' \in [Requests -> Phone!Stages] /\ local' \in [Requests -> Phone!Context]
  BY <1>1, <1>2 DEF Phone!RegistrationInvariant, Phone!TypeOK, Phone!Stages
<1>4. ASSUME NEW q \in Requests PROVE Phone!RequestIsSound(q)'
  <2>1. now \in Nat
    BY PhoneTypes DEF Phone!RegistrationInvariant
  <2>2. CASE q = r
    BY <1>1, <1>2, <2>1, <2>2 DEF Phone!RequestIsSound, Phone!RegistrationInvariant, Phone!TypeOK
  <2>3. CASE q # r
    BY <1>1, <2>3 DEF Phone!RequestIsSound, Phone!RegistrationInvariant, Phone!TypeOK
  <2> QED BY <2>2, <2>3
<1> QED
  BY <1>3, <1>4

\* A request that moves on with what it has, or with one code more.
LEMMA PhoneMoveIsSound ==
  ASSUME Phone!ConstantsAreValid, Phone!RegistrationInvariant, NEW r \in Requests, now' = now,
         NEW to \in Phone!Stages, Phone!Goto(r, to), NEW x \in Phone!Context,
         local' = [local EXCEPT ![r] = x],
         x.at <= now,
         to \in {"check", "insert"} => x.email # None \/ x.phone # None,
         to \in {"send", "expire"} => x.code \in Codes
  PROVE  /\ stage' \in [Requests -> Phone!Stages] /\ local' \in [Requests -> Phone!Context]
         /\ \A q \in Requests : Phone!RequestIsSound(q)'
<1>1. stage' = [stage EXCEPT ![r] = to]
  BY DEF Phone!Goto
<1>2. stage' \in [Requests -> Phone!Stages] /\ local' \in [Requests -> Phone!Context]
  BY <1>1 DEF Phone!RegistrationInvariant, Phone!TypeOK
<1>3. ASSUME NEW q \in Requests PROVE Phone!RequestIsSound(q)'
  <2>1. CASE q = r
    BY <1>1, <2>1 DEF Phone!RequestIsSound, Phone!RegistrationInvariant, Phone!TypeOK
  <2>2. CASE q # r
    BY <1>1, <2>2 DEF Phone!RequestIsSound, Phone!RegistrationInvariant, Phone!TypeOK
  <2> QED BY <2>1, <2>2
<1> QED
  BY <1>2, <1>3

\* A step that neither issues nor spends a code, nor changes who an account is.
LEMMA PhoneWaitingKeepsInvariant ==
  ASSUME Phone!ConstantsAreValid, Phone!RegistrationInvariant, Phone!TypeOK', now' >= now,
         \A q \in Requests : Phone!RequestIsSound(q)',
         \A c \in Codes : /\ message'[c].exists = message[c].exists
                                /\ message'[c].user = message[c].user
                          /\ message'[c].created = message[c].created
                                /\ message'[c].spent = message[c].spent,
         \A u \in NewUsers : /\ person'[u].exists = person[u].exists
                             /\ person'[u].email = person[u].email
                             /\ person'[u].phone = person[u].phone
                             /\ person'[u].buyer = person[u].buyer
                             /\ person'[u].verified = person[u].verified
  PROVE  Phone!RegistrationInvariant'
<1>1. \A u : Phone!CodesOf(u)' = Phone!CodesOf(u) /\ Phone!CodesOf(u) \subseteq Codes
  BY DEF Phone!CodesOf
<1>2. \A e, p : Phone!Owners(e, p)' = Phone!Owners(e, p)
  BY DEF Phone!Owners
<1>3. Phone!CodesHaveOwners'
  <2>1. now \in Nat /\ now' \in Nat
    BY PhoneTypes DEF Phone!RegistrationInvariant, Phone!TypeOK, Phone!Time
  <2>2. \A c \in Codes : message[c].created \in Nat
    BY PhoneTypes DEF Phone!RegistrationInvariant
  <2> QED BY <2>1, <2>2 DEF Phone!RegistrationInvariant, Phone!CodesHaveOwners
<1>4. Phone!AccountsAreWhole'
  BY <1>1, <1>2 DEF Phone!RegistrationInvariant, Phone!AccountsAreWhole
<1>5. \A c, u : Phone!IsLatest(c, u)' <=> Phone!IsLatest(c, u)
  BY <1>1 DEF Phone!IsLatest
<1>6. Phone!VerifiedByTheNewest'
  <2> SUFFICES ASSUME NEW u \in NewUsers
               PROVE  /\ person'[u].verified = ({c \in Phone!CodesOf(u) : message'[c].spent} # {})
                      /\ \A c \in {d \in Phone!CodesOf(u) : message'[d].spent} :
                            Phone!IsLatest(c, u)' /\ {d \in Phone!CodesOf(u) : message'[d].spent} = {c}
    BY <1>1 DEF Phone!VerifiedByTheNewest
  <2>1. {c \in Phone!CodesOf(u) : message'[c].spent} = {c \in Phone!CodesOf(u) : message[c].spent}
    BY <1>1
  <2> QED BY <1>1, <1>5, <2>1 DEF Phone!RegistrationInvariant, Phone!VerifiedByTheNewest
<1>7. Phone!IssuingIsLimited'
  <2> SUFFICES ASSUME NEW c \in Codes, message[c].exists
               PROVE  /\ Phone!Cardinality({d \in Phone!CodesOf(message[c].user) :
                             message'[d].created \in (message[c].created - Hour)..message[c].created})
                               <= HourlyLimit
                      /\ \A d \in Phone!CodesOf(message[c].user) \ {c} :
                           \/ message'[d].created >= message[c].created + Cooldown
                           \/ message'[d].created + Cooldown <= message[c].created
    BY <1>1 DEF Phone!IssuingIsLimited
  <2>1. {d \in Phone!CodesOf(message[c].user) :
            message'[d].created \in (message[c].created - Hour)..message[c].created}
        = {d \in Phone!CodesOf(message[c].user) :
            message[d].created \in (message[c].created - Hour)..message[c].created}
    BY <1>1
  <2> QED BY <1>1, <2>1 DEF Phone!RegistrationInvariant, Phone!IssuingIsLimited
<1> QED
  BY <1>3, <1>4, <1>6, <1>7 DEF Phone!RegistrationInvariant

-----------------------------------------------------------------------------
(* Issuing a code.                                                            *)

\* A new code of an account none of whose codes was spent, at least the cooldown
\* after its newest and with room in the hour, keeps what is said of codes.
LEMMA PhoneNewCodeIsInOrder ==
  ASSUME Phone!ConstantsAreValid, Phone!RegistrationInvariant, NEW u \in NewUsers,
         NEW c \in Codes,
         NEW since \in Int, since <= now - Hour,
         ~message[c].exists, Phone!NewCode(c, u, now + Expiry) \/ \E at \in Phone!Time : Phone!NewCode(c, u, at + Expiry),
         \A d \in Phone!CodesOf(u) : message[d].created + Cooldown <= now,
         Phone!CreatedSince(u, since) < HourlyLimit \/ Phone!CodesOf(u) = {}
  PROVE  /\ message' \in [Codes -> Phone!Row]
         /\ message'[c].exists /\ message'[c].user = u /\ ~message'[c].spent
               /\ message'[c].created = now
         /\ \A d \in Codes \ {c} : message'[d] = message[d]
         /\ Phone!CodesOf(u)' = Phone!CodesOf(u) \cup {c}
         /\ \A v \in NewUsers \ {u} : Phone!CodesOf(v)' = Phone!CodesOf(v)
         /\ \A v : c \notin Phone!CodesOf(v) /\ Phone!CodesOf(v) \subseteq Codes
         /\ Phone!IssuingIsLimited'
<1>0. now \in Nat /\ now \in Phone!Time /\ \A d \in Codes : message[d].created \in Nat
  BY PhoneTypes DEF Phone!RegistrationInvariant, Phone!TypeOK
<1>1. PICK at \in Phone!Time :
        message' = [message EXCEPT ![c] = [exists |-> TRUE, user |-> u, spent |-> FALSE,
                 created |-> now, expires |-> at + Expiry, attempts |-> 0]]
  BY <1>0 DEF Phone!NewCode
<1>2. /\ message'[c] = [exists |-> TRUE, user |-> u, spent |-> FALSE,
                     created |-> now, expires |-> at + Expiry, attempts |-> 0]
      /\ \A d \in Codes \ {c} : message'[d] = message[d]
  BY <1>1 DEF Phone!RegistrationInvariant, Phone!TypeOK
<1>3. message'[c] \in Phone!Row
  BY <1>0, <1>2, PhoneNumbers DEF Phone!Row, Phone!Time
<1>4. message' \in [Codes -> Phone!Row]
  BY <1>1, <1>2, <1>3 DEF Phone!RegistrationInvariant, Phone!TypeOK
<1>5. /\ \A v : c \notin Phone!CodesOf(v) /\ Phone!CodesOf(v) \subseteq Codes
      /\ Phone!CodesOf(u)' = Phone!CodesOf(u) \cup {c}
      /\ \A v \in NewUsers \ {u} : Phone!CodesOf(v)' = Phone!CodesOf(v)
  BY <1>2 DEF Phone!CodesOf
<1>6. Phone!IssuingIsLimited'
  <2> SUFFICES ASSUME NEW d \in Codes, message'[d].exists, NEW v, v = message'[d].user
               PROVE  /\ Phone!Cardinality({e \in Phone!CodesOf(v)' :
                             message'[e].created \in (message'[d].created - Hour)..message'[d].created})
                               <= HourlyLimit
                      /\ \A e \in Phone!CodesOf(v)' \ {d} :
                           \/ message'[e].created >= message'[d].created + Cooldown
                           \/ message'[e].created + Cooldown <= message'[d].created
    BY DEF Phone!IssuingIsLimited, Phone!CodesOf
  <2>1. CASE d = c
    <3>1. v = u /\ message'[d].created = now
      BY <1>2, <2>1
    <3>2. \A e \in Phone!CodesOf(u)' \ {c} : message'[e].created = message[e].created /\ e \in Phone!CodesOf(u)
      BY <1>2, <1>5
    <3> DEFINE recent == {e \in Phone!CodesOf(u)' : message'[e].created \in (now - Hour)..now}
               before == {e \in Phone!CodesOf(u) : message[e].created >= since}
    <3>3. Phone!IsFiniteSet(before)
      BY <1>5, FS_Subset, PhoneCount DEF Phone!ConstantsAreValid
    <3>4. recent \in SUBSET (before \cup {c})
      <4> SUFFICES ASSUME NEW e \in recent, e # c PROVE e \in before
        OBVIOUS
      <4>1. e \in Phone!CodesOf(u) /\ e \in Codes /\ message[e].created \in (now - Hour)..now
        BY <1>5, <3>2
      <4>2. message[e].created >= since
        BY <1>0, <4>1, PhoneNumbers
      <4> QED BY <4>1, <4>2
    <3>5. Phone!Cardinality(recent) <= Phone!Cardinality(before) + 1 /\ Phone!Cardinality(before) \in Nat
          /\ Phone!Cardinality(recent) \in Nat
      <4> HIDE DEF recent, before
      <4> QED BY <3>3, <3>4, PhoneOneMore
    <3>6. Phone!Cardinality(before) < HourlyLimit
      <4>1. CASE Phone!CreatedSince(u, since) < HourlyLimit
        BY <4>1 DEF Phone!CreatedSince
      <4>2. CASE Phone!CodesOf(u) = {}
        <5>1. before = {}
          BY <4>2
        <5> QED BY <5>1, FS_EmptySet, PhoneCount, PhoneNumbers
      <4> QED BY <4>1, <4>2
    <3>7. Phone!Cardinality(recent) <= HourlyLimit
      <4> HIDE DEF recent, before
      <4> QED BY <3>5, <3>6, PhoneNumbers
    <3>8. \A e \in Phone!CodesOf(u)' \ {c} : message'[e].created + Cooldown <= now
      BY <3>2
    <3> QED BY <2>1, <3>1, <3>7, <3>8
  <2>2. CASE d # c
    <3>1. message'[d] = message[d] /\ message[d].exists /\ v = message[d].user /\ v \in NewUsers
      BY <1>2, <2>2 DEF Phone!RegistrationInvariant, Phone!CodesHaveOwners
    <3>2. \A e \in Phone!CodesOf(v) : message'[e] = message[e] /\ e \in Codes
      BY <1>2, <1>5
    <3>3. c \in Phone!CodesOf(v)' =>
            message'[c].created >= message[d].created + Cooldown /\ message'[c].created = now
      <4>1. c \in Phone!CodesOf(v)' => v = u
        BY <1>2 DEF Phone!CodesOf
      <4>2. v = u => d \in Phone!CodesOf(u)
        BY <3>1 DEF Phone!CodesOf
      <4> QED BY <1>2, <4>1, <4>2
    <3>4. Phone!CodesOf(v)' \subseteq Phone!CodesOf(v) \cup {c}
      BY <1>5, <3>1
    <3>5. {e \in Phone!CodesOf(v)' : message'[e].created \in (message[d].created - Hour)..message[d].created}
          = {e \in Phone!CodesOf(v) : message[e].created \in (message[d].created - Hour)..message[d].created}
      <4>1. c \in Phone!CodesOf(v)' =>
              message'[c].created \notin (message[d].created - Hour)..message[d].created
        BY <1>0, <3>3, PhoneNumbers
      <4>2. Phone!CodesOf(v) \subseteq Phone!CodesOf(v)'
        BY <1>5, <3>1
      <4> QED BY <3>2, <3>4, <4>1, <4>2
    <3>6. /\ Phone!Cardinality({e \in Phone!CodesOf(v) :
                 message[e].created \in (message[d].created - Hour)..message[d].created}) <= HourlyLimit
          /\ \A e \in Phone!CodesOf(v) \ {d} : \/ message[e].created >= message[d].created + Cooldown
                                               \/ message[e].created + Cooldown <= message[d].created
      BY <3>1 DEF Phone!RegistrationInvariant, Phone!IssuingIsLimited
    <3>7. \A e \in Phone!CodesOf(v)' \ {d} : \/ message'[e].created >= message[d].created + Cooldown
                                             \/ message'[e].created + Cooldown <= message[d].created
      BY <3>2, <3>3, <3>4, <3>6
    <3> QED BY <3>1, <3>5, <3>6, <3>7
  <2> QED BY <2>1, <2>2
<1> QED
  BY <1>2, <1>4, <1>5, <1>6

\* Where codes change for one account alone, the others are verified as they were.
LEMMA PhoneOthersAreVerifiedAlike ==
  ASSUME Phone!ConstantsAreValid, Phone!RegistrationInvariant, NEW u \in NewUsers,
         NEW v \in NewUsers \ {u},
         Phone!CodesOf(v)' = Phone!CodesOf(v), person'[v].verified = person[v].verified,
         \A d \in Phone!CodesOf(v) : message'[d] = message[d]
  PROVE  LET spent == {d \in Phone!CodesOf(v)' : message'[d].spent}
         IN  /\ person'[v].verified = (spent # {})
             /\ \A d \in spent : Phone!IsLatest(d, v)' /\ spent = {d}
<1>1. {d \in Phone!CodesOf(v)' : message'[d].spent} = {d \in Phone!CodesOf(v) : message[d].spent}
  OBVIOUS
<1>2. \A d : Phone!IsLatest(d, v) => Phone!IsLatest(d, v)'
  BY DEF Phone!IsLatest
<1> QED
  BY <1>1, <1>2 DEF Phone!RegistrationInvariant, Phone!VerifiedByTheNewest

\* An account is registered, alone with its address and phone (register).
LEMMA PhoneInsertKeepsInvariant ==
  ASSUME Phone!ConstantsAreValid, Phone!RegistrationInvariant, NEW r \in Requests, Phone!Insert(r)
  PROVE  Phone!RegistrationInvariant'
<1> DEFINE e == local[r].email
           p == local[r].phone
<1>0. /\ local[r] \in Phone!Context /\ e \in Emails \cup {None} /\ p \in Phones \cup {None}
      /\ e # None \/ p # None
      /\ local[r].at <= now /\ now \in Nat /\ now' = now
  <2>1. local[r] \in Phone!Context /\ now \in Nat
    BY PhoneTypes DEF Phone!RegistrationInvariant
  <2>2. e \in Emails \cup {None} /\ p \in Phones \cup {None}
    BY <2>1 DEF Phone!Context
  <2> QED BY <2>1, <2>2 DEF Phone!Insert, Phone!RegistrationInvariant, Phone!RequestIsSound
<1>1. Phone!Owners(e, p) = {}
  BY DEF Phone!Insert, Phone!Free
<1>2. PICK u \in NewUsers :
        /\ ~person[u].exists
        /\ person' = [person EXCEPT ![u] =
               [exists |-> TRUE, email |-> e, phone |-> p,
                active |-> TRUE, verified |-> FALSE, buyer |-> TRUE]]
        /\ IF p = None
           THEN Phone!Finish(r) /\ UNCHANGED message
           ELSE \E c \in Codes :
                  /\ ~message[c].exists
                  /\ Phone!NewCode(c, u, now + Expiry)
                  /\ Phone!Goto(r, "send")
                  /\ local' = [local EXCEPT ![r].code = c]
  BY DEF Phone!Insert
<1>3. /\ person'[u] = [exists |-> TRUE, email |-> e, phone |-> p,
                        active |-> TRUE, verified |-> FALSE, buyer |-> TRUE]
      /\ \A v \in NewUsers \ {u} : person'[v] = person[v]
      /\ person' \in [NewUsers -> Phone!Account]
  <2>1. [exists |-> TRUE, email |-> e, phone |-> p,
         active |-> TRUE, verified |-> FALSE, buyer |-> TRUE] \in Phone!Account
    BY <1>0 DEF Phone!Account
  <2> HIDE DEF e, p
  <2> QED BY <1>2, <2>1 DEF Phone!RegistrationInvariant, Phone!TypeOK
<1>4. Phone!CodesOf(u) = {}
  BY <1>2 DEF Phone!CodesOf, Phone!RegistrationInvariant, Phone!CodesHaveOwners
<1>5. /\ message' \in [Codes -> Phone!Row] /\ stage' \in [Requests -> Phone!Stages]
            /\ local' \in [Requests -> Phone!Context]
      /\ \A q \in Requests : Phone!RequestIsSound(q)'
      /\ Phone!IssuingIsLimited'
      /\ \A c \in Phone!CodesOf(u)' : ~message'[c].spent
      /\ (p # None) = (Phone!CodesOf(u)' # {})
      /\ \A v \in NewUsers \ {u} : Phone!CodesOf(v)' = Phone!CodesOf(v)
            /\ \A d \in Phone!CodesOf(v) : message'[d] = message[d]
      /\ \A c \in Codes : message'[c].exists =>
            \/ message'[c] = message[c]
            \/ message'[c].user = u /\ message'[c].created = now
  <2>1. CASE p = None
    <3>1. Phone!Finish(r) /\ message' = message
      BY <1>2, <2>1
    <3>2. \A v : Phone!CodesOf(v)' = Phone!CodesOf(v)
      BY <3>1 DEF Phone!CodesOf
    <3>3. Phone!IssuingIsLimited'
      BY <3>1 DEF Phone!RegistrationInvariant, Phone!IssuingIsLimited, Phone!CodesOf
    <3>4. message' \in [Codes -> Phone!Row]
      BY <3>1 DEF Phone!RegistrationInvariant, Phone!TypeOK
    <3>5. /\ stage' \in [Requests -> Phone!Stages] /\ local' \in [Requests -> Phone!Context]
          /\ \A q \in Requests : Phone!RequestIsSound(q)'
      BY <1>0, <3>1, PhoneFinishIsSound
    <3> HIDE DEF p
    <3> QED BY <1>4, <2>1, <3>1, <3>2, <3>3, <3>4, <3>5
  <2>2. CASE p # None
    <3>1. PICK c \in Codes :
            /\ ~message[c].exists /\ Phone!NewCode(c, u, now + Expiry) /\ Phone!Goto(r, "send")
            /\ local' = [local EXCEPT ![r].code = c]
      BY <1>2, <2>2
    <3>2. now - Hour \in Int /\ now - Hour <= now - Hour
      BY <1>0, PhoneNumbers
    <3>3. /\ message' \in [Codes -> Phone!Row]
          /\ message'[c].exists /\ message'[c].user = u /\ ~message'[c].spent
                /\ message'[c].created = now
          /\ \A d \in Codes \ {c} : message'[d] = message[d]
          /\ Phone!CodesOf(u)' = Phone!CodesOf(u) \cup {c}
          /\ \A v \in NewUsers \ {u} : Phone!CodesOf(v)' = Phone!CodesOf(v)
          /\ \A v : c \notin Phone!CodesOf(v) /\ Phone!CodesOf(v) \subseteq Codes
          /\ Phone!IssuingIsLimited'
      BY <1>4, <3>1, <3>2, PhoneNewCodeIsInOrder
    <3>4. [local[r] EXCEPT !.code = c] \in Phone!Context /\ [local[r] EXCEPT !.code = c].at = local[r].at
          /\ [local[r] EXCEPT !.code = c].code = c
      BY <1>0 DEF Phone!Context
    <3>5. local' = [local EXCEPT ![r] = [local[r] EXCEPT !.code = c]]
      BY <3>1 DEF Phone!RegistrationInvariant, Phone!TypeOK
    <3>6. /\ stage' \in [Requests -> Phone!Stages] /\ local' \in [Requests -> Phone!Context]
          /\ \A q \in Requests : Phone!RequestIsSound(q)'
      BY <1>0, <3>1, <3>4, <3>5, PhoneMoveIsSound DEF Phone!Stages
    <3> HIDE DEF p
    <3> QED BY <1>4, <2>2, <3>3, <3>6
  <2> QED BY <2>1, <2>2
<1>6. Phone!TypeOK'
  BY <1>0, <1>3, <1>5 DEF Phone!RegistrationInvariant, Phone!TypeOK
<1>7. Phone!CodesHaveOwners'
  <2> SUFFICES ASSUME NEW c \in Codes, message'[c].exists
               PROVE  /\ message'[c].user \in NewUsers /\ person'[message'[c].user].exists
                      /\ message'[c].created <= now
    BY <1>0 DEF Phone!CodesHaveOwners
  <2>1. CASE message'[c] = message[c]
    BY <1>2, <1>3, <2>1 DEF Phone!RegistrationInvariant, Phone!CodesHaveOwners
  <2>2. CASE message'[c].user = u /\ message'[c].created = now
    BY <1>0, <1>3, <2>2
  <2> QED BY <1>5, <2>1, <2>2
<1>8. Phone!AccountsAreWhole'
  <2> SUFFICES ASSUME NEW v \in NewUsers, person'[v].exists, NEW f, f = person'[v].email,
                      NEW q, q = person'[v].phone
               PROVE  /\ Phone!Owners(f, q)' = {v}
                      /\ person'[v].buyer /\ (q # None) = (Phone!CodesOf(v)' # {})
    BY DEF Phone!AccountsAreWhole, Phone!Owners
  <2>1. CASE v = u
    <3>1. f = e /\ q = p /\ person'[v].buyer
      BY <1>3, <2>1
    <3>2. (q # None) = (Phone!CodesOf(v)' # {})
      BY <1>5, <2>1, <3>1
    <3>3. Phone!Owners(f, q)' = {v}
      <4> HIDE DEF e, p
      <4> QED BY <1>0, <1>1, <1>3, <2>1, <3>1 DEF Phone!Owners
    <3> QED BY <3>1, <3>2, <3>3
  <2>2. CASE v # u
    <3>1. /\ person[v].exists /\ f = person[v].email /\ q = person[v].phone
          /\ person'[v].buyer = person[v].buyer /\ Phone!CodesOf(v)' = Phone!CodesOf(v)
      BY <1>3, <1>5, <2>2
    <3>2. Phone!Owners(f, q) = {v} /\ person[v].buyer /\ (q # None) = (Phone!CodesOf(v) # {})
      BY <3>1 DEF Phone!RegistrationInvariant, Phone!AccountsAreWhole
    <3>3. ~(f # None /\ e = f) /\ ~(q # None /\ p = q)
      BY <1>1, <3>1 DEF Phone!Owners
    <3>4. Phone!Owners(f, q)' = {v}
      <4> HIDE DEF e, p
      <4> QED BY <1>2, <1>3, <3>2, <3>3 DEF Phone!Owners
    <3> QED BY <3>1, <3>2, <3>4
  <2> QED BY <2>1, <2>2
<1>9. Phone!VerifiedByTheNewest'
  <2> SUFFICES ASSUME NEW v \in NewUsers
               PROVE  LET spent == {d \in Phone!CodesOf(v)' : message'[d].spent}
                      IN  /\ person'[v].verified = (spent # {})
                          /\ \A d \in spent : Phone!IsLatest(d, v)' /\ spent = {d}
    BY DEF Phone!VerifiedByTheNewest
  <2>1. CASE v = u
    <3>1. {d \in Phone!CodesOf(v)' : message'[d].spent} = {}
      BY <1>5, <2>1
    <3>2. person'[v].verified = FALSE
      BY <1>3, <2>1
    <3> QED BY <3>1, <3>2
  <2>2. CASE v # u
    BY <1>3, <1>5, <2>2, PhoneOthersAreVerifiedAlike
  <2> QED BY <2>1, <2>2
<1> QED
  BY <1>5, <1>6, <1>7, <1>8, <1>9 DEF Phone!RegistrationInvariant

\* A code is issued again, to an account that is not verified (resend).
LEMMA PhoneResendKeepsInvariant ==
  ASSUME Phone!ConstantsAreValid, Phone!RegistrationInvariant, NEW r \in Requests, Phone!Resend(r)
  PROVE  Phone!RegistrationInvariant'
<1>0. /\ local[r] \in Phone!Context /\ local[r].at \in Nat /\ local[r].at \in Phone!Time
            /\ local[r].at <= now
      /\ now \in Nat
  <2>1. local[r] \in Phone!Context /\ local[r].at \in Nat /\ now \in Nat
    BY PhoneTypes DEF Phone!RegistrationInvariant
  <2> QED BY <2>1 DEF Phone!RegistrationInvariant, Phone!RequestIsSound, Phone!Context
<1>1. PICK u \in NewUsers, c \in Codes :
        /\ u \in Phone!Owners(None, local[r].phone)
        /\ Phone!Awaits(u) /\ Phone!MayIssue(u, local[r].at)
        /\ ~message[c].exists
        /\ Phone!NewCode(c, u, local[r].at + Expiry)
        /\ local' = [local EXCEPT ![r].code = c]
  BY DEF Phone!Resend, Phone!Owners
<1>2. Phone!Goto(r, "send") /\ now' = now /\ person' = person
  BY DEF Phone!Resend
<1>3. person[u].exists /\ person[u].phone # None /\ ~person[u].verified
  BY <1>1 DEF Phone!Owners, Phone!Awaits
<1>4. \A d \in Phone!CodesOf(u) : message[d].created + Cooldown <= now
  <2> SUFFICES ASSUME NEW d \in Phone!CodesOf(u) PROVE message[d].created + Cooldown <= now
    OBVIOUS
  <2>1. PICK n \in Codes : Phone!IsLatest(n, u)
    BY PhoneThereIsANewest DEF Phone!RegistrationInvariant
  <2>2. local[r].at - message[n].created >= Cooldown /\ message[d].created <= message[n].created
    BY <1>1, <2>1 DEF Phone!MayIssue, Phone!IsLatest
  <2>3. d \in Codes
    BY DEF Phone!CodesOf
  <2>4. message[n].created \in Nat /\ message[d].created \in Nat
    BY <2>1, <2>3, PhoneTypes DEF Phone!RegistrationInvariant
  <2> QED BY <1>0, <2>2, <2>4, PhoneNumbers
<1>5. local[r].at - Hour \in Int /\ local[r].at - Hour <= now - Hour
  BY <1>0, PhoneNumbers
<1>6. /\ message' \in [Codes -> Phone!Row]
      /\ message'[c].exists /\ message'[c].user = u /\ ~message'[c].spent
            /\ message'[c].created = now
      /\ \A d \in Codes \ {c} : message'[d] = message[d]
      /\ Phone!CodesOf(u)' = Phone!CodesOf(u) \cup {c}
      /\ \A v \in NewUsers \ {u} : Phone!CodesOf(v)' = Phone!CodesOf(v)
      /\ \A v : c \notin Phone!CodesOf(v) /\ Phone!CodesOf(v) \subseteq Codes
      /\ Phone!IssuingIsLimited'
  <2>1. Phone!CreatedSince(u, local[r].at - Hour) < HourlyLimit
    BY <1>1 DEF Phone!MayIssue
  <2> QED BY <1>0, <1>1, <1>4, <1>5, <2>1, PhoneNewCodeIsInOrder
<1>7. /\ stage' \in [Requests -> Phone!Stages] /\ local' \in [Requests -> Phone!Context]
      /\ \A q \in Requests : Phone!RequestIsSound(q)'
  <2>1. [local[r] EXCEPT !.code = c] \in Phone!Context /\ [local[r] EXCEPT !.code = c].at = local[r].at
        /\ [local[r] EXCEPT !.code = c].code = c
    BY <1>0 DEF Phone!Context
  <2>2. local' = [local EXCEPT ![r] = [local[r] EXCEPT !.code = c]]
    BY <1>1 DEF Phone!RegistrationInvariant, Phone!TypeOK
  <2> QED BY <1>0, <1>2, <2>1, <2>2, PhoneMoveIsSound DEF Phone!Stages
<1>8. Phone!TypeOK'
  BY <1>2, <1>6, <1>7 DEF Phone!RegistrationInvariant, Phone!TypeOK
<1>9. Phone!CodesHaveOwners'
  <2> SUFFICES ASSUME NEW d \in Codes, message'[d].exists
               PROVE  /\ message'[d].user \in NewUsers /\ person[message'[d].user].exists
                      /\ message'[d].created <= now
    BY <1>2 DEF Phone!CodesHaveOwners
  <2>1. CASE d = c
    BY <1>0, <1>3, <1>6, <2>1
  <2>2. CASE d # c
    BY <1>6, <2>2 DEF Phone!RegistrationInvariant, Phone!CodesHaveOwners
  <2> QED BY <2>1, <2>2
<1>10. Phone!AccountsAreWhole'
  <2>1. \A f, q : Phone!Owners(f, q)' = Phone!Owners(f, q)
    BY <1>2 DEF Phone!Owners
  <2>2. Phone!CodesOf(u) # {} /\ \A v \in NewUsers : (Phone!CodesOf(v)' # {}) = (Phone!CodesOf(v) # {})
    BY <1>3, <1>6 DEF Phone!RegistrationInvariant, Phone!AccountsAreWhole
  <2> QED BY <1>2, <2>1, <2>2 DEF Phone!RegistrationInvariant, Phone!AccountsAreWhole
<1>11. Phone!VerifiedByTheNewest'
  <2> SUFFICES ASSUME NEW v \in NewUsers
               PROVE  LET spent == {d \in Phone!CodesOf(v)' : message'[d].spent}
                      IN  /\ person'[v].verified = (spent # {})
                          /\ \A d \in spent : Phone!IsLatest(d, v)' /\ spent = {d}
    BY DEF Phone!VerifiedByTheNewest
  <2>1. CASE v = u
    <3>1. {d \in Phone!CodesOf(u) : message[d].spent} = {}
      BY <1>3 DEF Phone!RegistrationInvariant, Phone!VerifiedByTheNewest
    <3>2. {d \in Phone!CodesOf(v)' : message'[d].spent} = {}
      BY <1>6, <2>1, <3>1
    <3>3. person'[v].verified = FALSE
      <4>1. person[u] \in Phone!Account
        BY PhoneTypes DEF Phone!RegistrationInvariant
      <4> QED BY <1>2, <1>3, <2>1, <4>1 DEF Phone!Account
    <3> QED BY <3>2, <3>3
  <2>2. CASE v # u
    BY <1>2, <1>6, <2>2, PhoneOthersAreVerifiedAlike
  <2> QED BY <2>1, <2>2
<1> QED
  BY <1>6, <1>7, <1>8, <1>9, <1>10, <1>11 DEF Phone!RegistrationInvariant

-----------------------------------------------------------------------------
(* The other steps.                                                           *)

\* The newest code verifies the phone and is spent (verify).
LEMMA PhoneVerifyKeepsInvariant ==
  ASSUME Phone!ConstantsAreValid, Phone!RegistrationInvariant, NEW r \in Requests, Phone!Verify(r)
  PROVE  Phone!RegistrationInvariant'
<1>1. PICK c \in Codes, u \in NewUsers :
        /\ Phone!Challenge(r, u, c)
        /\ person' = [person EXCEPT ![u].verified = TRUE]
        /\ message' = [message EXCEPT ![c].spent = TRUE]
  <2>1. PICK u \in NewUsers : /\ Phone!Challenge(r, u, local[r].code)
                              /\ person' = [person EXCEPT ![u].verified = TRUE]
    BY DEF Phone!Verify, Phone!Owners
  <2>2. local[r].code \in Codes
    BY <2>1 DEF Phone!Challenge, Phone!IsLatest, Phone!CodesOf
  <2> QED BY <2>1, <2>2 DEF Phone!Verify
<1>2. Phone!Finish(r) /\ now' = now
  BY DEF Phone!Verify
<1>3. /\ person[u] \in Phone!Account /\ message[c] \in Phone!Row
      /\ person'[u] = [person[u] EXCEPT !.verified = TRUE]
      /\ message'[c] = [message[c] EXCEPT !.spent = TRUE]
      /\ \A v \in NewUsers \ {u} : person'[v] = person[v]
      /\ \A d \in Codes \ {c} : message'[d] = message[d]
  BY <1>1, PhoneTypes DEF Phone!RegistrationInvariant, Phone!TypeOK
<1>4. /\ \A v \in NewUsers : /\ person'[v].exists = person[v].exists
                             /\ person'[v].email = person[v].email
                             /\ person'[v].phone = person[v].phone
                             /\ person'[v].buyer = person[v].buyer
      /\ \A d \in Codes : /\ message'[d].exists = message[d].exists
            /\ message'[d].user = message[d].user
                          /\ message'[d].created = message[d].created
      /\ person'[u].verified = TRUE /\ message'[c].spent
      /\ \A d \in Codes \ {c} : message'[d].spent = message[d].spent
  BY <1>3 DEF Phone!Account, Phone!Row
<1>5. Phone!TypeOK' /\ \A q \in Requests : Phone!RequestIsSound(q)'
  <2>1. person'[u] \in Phone!Account /\ message'[c] \in Phone!Row
    BY <1>3 DEF Phone!Account, Phone!Row
  <2>2. person' \in [NewUsers -> Phone!Account] /\ message' \in [Codes -> Phone!Row]
    BY <1>1, <1>3, <2>1 DEF Phone!RegistrationInvariant, Phone!TypeOK
  <2> QED BY <1>2, <2>2, PhoneFinishIsSound DEF Phone!RegistrationInvariant, Phone!TypeOK
<1>6. \A v : Phone!CodesOf(v)' = Phone!CodesOf(v) /\ Phone!CodesOf(v) \subseteq Codes
  BY <1>4 DEF Phone!CodesOf
<1>7. \A d, v : Phone!IsLatest(d, v) => Phone!IsLatest(d, v)'
  BY <1>4, <1>6 DEF Phone!IsLatest
<1>8. /\ Phone!IsLatest(c, u) /\ ~person[u].verified
      /\ \A v \in NewUsers \ {u} : c \notin Phone!CodesOf(v)
  BY <1>1 DEF Phone!Challenge, Phone!Awaits, Phone!IsLatest, Phone!CodesOf
<1>9. Phone!VerifiedByTheNewest'
  <2> SUFFICES ASSUME NEW v \in NewUsers
               PROVE  LET spent == {d \in Phone!CodesOf(v)' : message'[d].spent}
                      IN  /\ person'[v].verified = (spent # {})
                          /\ \A d \in spent : Phone!IsLatest(d, v)' /\ spent = {d}
    BY DEF Phone!VerifiedByTheNewest
  <2>1. CASE v = u
    <3>1. {d \in Phone!CodesOf(u) : message[d].spent} = {}
      BY <1>8 DEF Phone!RegistrationInvariant, Phone!VerifiedByTheNewest
    <3>2. {d \in Phone!CodesOf(v)' : message'[d].spent} = {c}
      <4>1. c \in Phone!CodesOf(u)
        BY <1>8 DEF Phone!IsLatest
      <4> QED BY <1>4, <1>6, <2>1, <3>1, <4>1
    <3>3. person'[v].verified = TRUE /\ Phone!IsLatest(c, v)'
      BY <1>4, <1>7, <1>8, <2>1
    <3> QED BY <3>2, <3>3
  <2>2. CASE v # u
    <3>1. person'[v].verified = person[v].verified /\ \A d \in Phone!CodesOf(v) : message'[d] = message[d]
      BY <1>3, <1>6, <1>8, <2>2
    <3> QED BY <1>6, <2>2, <3>1, PhoneOthersAreVerifiedAlike
  <2> QED BY <2>1, <2>2
<1>10. Phone!CodesHaveOwners'
  BY <1>2, <1>4 DEF Phone!RegistrationInvariant, Phone!CodesHaveOwners
<1>11. Phone!AccountsAreWhole'
  <2>1. \A f, q : Phone!Owners(f, q)' = Phone!Owners(f, q)
    BY <1>4 DEF Phone!Owners
  <2> QED BY <1>4, <1>6, <2>1 DEF Phone!RegistrationInvariant, Phone!AccountsAreWhole
<1>12. Phone!IssuingIsLimited'
  <2>1. \A d \in Codes :
          {x \in Phone!CodesOf(message[d].user) :
             message'[x].created \in (message[d].created - Hour)..message[d].created}
        = {x \in Phone!CodesOf(message[d].user) :
             message[x].created \in (message[d].created - Hour)..message[d].created}
    BY <1>4, <1>6
  <2> QED BY <1>4, <1>6, <2>1 DEF Phone!RegistrationInvariant, Phone!IssuingIsLimited
<1> QED
  BY <1>5, <1>9, <1>10, <1>11, <1>12 DEF Phone!RegistrationInvariant

\* A wrong number counts, and a code that was not sent is expired; both are written
\* into the row of a code.
LEMMA PhoneMarkKeepsInvariant ==
  ASSUME Phone!ConstantsAreValid, Phone!RegistrationInvariant, NEW r \in Requests,
         Phone!Miss(r) \/ Phone!Expire(r)
  PROVE  Phone!RegistrationInvariant'
<1>1. Phone!Finish(r) /\ now' = now /\ person' = person
  BY DEF Phone!Miss, Phone!Expire
<1>2. PICK c \in Codes, x \in Phone!Row :
        /\ message' = [message EXCEPT ![c] = x]
        /\ x.exists = message[c].exists /\ x.user = message[c].user
        /\ x.created = message[c].created /\ x.spent = message[c].spent
  <2>1. CASE Phone!Miss(r)
    <3>1. PICK u \in NewUsers, c \in Codes :
            Phone!Challenge(r, u, c) /\ message' = [message EXCEPT ![c].attempts = @ + 1]
      BY <2>1 DEF Phone!Miss, Phone!Owners
    <3> DEFINE x == [message[c] EXCEPT !.attempts = @ + 1]
    <3>2. message[c] \in Phone!Row /\ message[c].attempts \in 0..MaxAttempts
                                         /\ message[c].attempts < MaxAttempts
      BY <3>1, PhoneTypes DEF Phone!RegistrationInvariant, Phone!Challenge
    <3>3. message[c].attempts + 1 \in 0..MaxAttempts
      BY <3>2, PhoneNumbers
    <3>4. /\ x \in Phone!Row /\ x.exists = message[c].exists /\ x.user = message[c].user
          /\ x.created = message[c].created /\ x.spent = message[c].spent
      BY <3>2, <3>3 DEF Phone!Row
    <3>5. message' = [message EXCEPT ![c] = x]
      BY <3>1
    <3> QED BY <3>4, <3>5
  <2>2. CASE Phone!Expire(r)
    <3> DEFINE c == local[r].code
               x == [message[c] EXCEPT !.expires = now - 1]
    <3>1. c \in Codes /\ message' = [message EXCEPT ![c] = x]
      BY <2>2 DEF Phone!Expire, Phone!RegistrationInvariant, Phone!RequestIsSound
    <3>2. message[c] \in Phone!Row /\ now - 1 \in -1..((MaxTime - 1) + Expiry)
      BY <3>1, PhoneTypes, PhoneNumbers DEF Phone!RegistrationInvariant
    <3>3. /\ x \in Phone!Row /\ x.exists = message[c].exists /\ x.user = message[c].user
          /\ x.created = message[c].created /\ x.spent = message[c].spent
      BY <3>2 DEF Phone!Row
    <3> QED BY <3>1, <3>3
  <2> QED BY <2>1, <2>2
<1>3. message' \in [Codes -> Phone!Row]
  BY <1>2 DEF Phone!RegistrationInvariant, Phone!TypeOK
<1>4. Phone!TypeOK' /\ \A q \in Requests : Phone!RequestIsSound(q)'
  BY <1>1, <1>3, PhoneFinishIsSound DEF Phone!RegistrationInvariant, Phone!TypeOK
<1>5. \A d \in Codes : /\ message'[d].exists = message[d].exists
                             /\ message'[d].user = message[d].user
                       /\ message'[d].created = message[d].created
                             /\ message'[d].spent = message[d].spent
  BY <1>2 DEF Phone!RegistrationInvariant, Phone!TypeOK
<1>6. now \in Nat
  BY PhoneTypes DEF Phone!RegistrationInvariant
<1> QED
  BY <1>1, <1>4, <1>5, <1>6, PhoneWaitingKeepsInvariant

\* A request that ends without writing.
LEMMA PhoneEndKeepsInvariant ==
  ASSUME Phone!ConstantsAreValid, Phone!RegistrationInvariant, NEW r \in Requests,
         Phone!Conflict(r) \/ Phone!Decline(r) \/ Phone!Sent(r) \/ Phone!ExpireFails(r) \/ Phone!Refuse(r) \/ Phone!Abort(r)
  PROVE  Phone!RegistrationInvariant'
<1>1. Phone!Finish(r) /\ now' = now /\ person' = person /\ message' = message
  BY DEF Phone!Conflict, Phone!Decline, Phone!Sent, Phone!ExpireFails, Phone!Refuse, Phone!Abort
<1>2. Phone!TypeOK' /\ \A q \in Requests : Phone!RequestIsSound(q)'
  BY <1>1, PhoneFinishIsSound DEF Phone!RegistrationInvariant, Phone!TypeOK
<1>3. now \in Nat
  BY PhoneTypes DEF Phone!RegistrationInvariant
<1> QED
  BY <1>1, <1>2, <1>3, PhoneWaitingKeepsInvariant

\* A request that arrives or moves on without writing.
LEMMA PhoneMoveKeepsInvariant ==
  ASSUME Phone!ConstantsAreValid, Phone!RegistrationInvariant, NEW r \in Requests,
         Phone!Arrive(r) \/ Phone!CheckDuplicates(r) \/ Phone!SendRefused(r)
  PROVE  Phone!RegistrationInvariant'
<1>1. now' = now /\ person' = person /\ message' = message
  BY DEF Phone!Arrive, Phone!Begin, Phone!CheckDuplicates, Phone!SendRefused
<1>2. now \in Nat /\ now \in Phone!Time
  BY PhoneTypes DEF Phone!RegistrationInvariant, Phone!TypeOK
<1>3. PICK to \in Phone!Stages, x \in Phone!Context :
        /\ Phone!Goto(r, to) /\ local' = [local EXCEPT ![r] = x]
        /\ x.at <= now
        /\ to \in {"check", "insert"} => x.email # None \/ x.phone # None
        /\ to \in {"send", "expire"} => x.code \in Codes
  <2>1. CASE Phone!Arrive(r)
    <3>1. PICK to \in {"check", "resend", "verify"}, e \in Emails \cup {None},
               p \in Phones \cup {None}, c \in Codes \cup {None} :
            /\ to = "check" => e # None \/ p # None
            /\ Phone!Begin(r, to, e, p, c)
      BY <2>1 DEF Phone!Arrive
    <3> DEFINE x == [email |-> e, phone |-> p, at |-> now, code |-> c]
    <3>2. x \in Phone!Context /\ x.at <= now
      BY <1>2 DEF Phone!Context
    <3>3. Phone!Goto(r, to) /\ local' = [local EXCEPT ![r] = x]
      BY <3>1 DEF Phone!Begin
    <3>4. x.email = e /\ x.phone = p
      OBVIOUS
    <3> QED BY <3>1, <3>2, <3>3, <3>4 DEF Phone!Stages
  <2>2. CASE Phone!CheckDuplicates(r) \/ Phone!SendRefused(r)
    <3>1. PICK to \in {"insert", "expire"} :
            /\ Phone!Goto(r, to) /\ local' = local
            /\ to = "insert" => stage[r] = "check"
            /\ to = "expire" => stage[r] = "send"
      BY <2>2 DEF Phone!CheckDuplicates, Phone!SendRefused
    <3>2. local[r] \in Phone!Context /\ local' = [local EXCEPT ![r] = local[r]]
      BY <3>1 DEF Phone!RegistrationInvariant, Phone!TypeOK
    <3>3. Phone!RequestIsSound(r)
      BY DEF Phone!RegistrationInvariant
    <3> QED BY <3>1, <3>2, <3>3 DEF Phone!Stages, Phone!RequestIsSound
  <2> QED BY <2>1, <2>2
<1>4. Phone!TypeOK' /\ \A q \in Requests : Phone!RequestIsSound(q)'
  BY <1>1, <1>3, PhoneMoveIsSound DEF Phone!RegistrationInvariant, Phone!TypeOK
<1> QED
  BY <1>1, <1>2, <1>4, PhoneWaitingKeepsInvariant

\* The clock, and an administrator.
LEMMA PhoneOutsideKeepsInvariant ==
  ASSUME Phone!ConstantsAreValid, Phone!RegistrationInvariant,
         Phone!Tick \/ \E u \in NewUsers : Phone!ChangeStatus(u)
  PROVE  Phone!RegistrationInvariant'
<1>1. message' = message /\ stage' = stage /\ local' = local
  BY DEF Phone!Tick, Phone!ChangeStatus
<1>2. now \in Nat /\ \A q \in Requests : local[q].at \in Nat
  BY PhoneTypes DEF Phone!RegistrationInvariant
<1>3. /\ now' \in Phone!Time /\ now' >= now /\ person' \in [NewUsers -> Phone!Account]
      /\ \A u \in NewUsers : /\ person'[u].exists = person[u].exists
                             /\ person'[u].email = person[u].email
                             /\ person'[u].phone = person[u].phone
                             /\ person'[u].buyer = person[u].buyer
                             /\ person'[u].verified = person[u].verified
  <2>1. CASE Phone!Tick
    BY <1>2, <2>1, PhoneNumbers
       DEF Phone!Tick, Phone!RegistrationInvariant, Phone!TypeOK, Phone!Time
  <2>2. CASE \E u \in NewUsers : Phone!ChangeStatus(u)
    <3>0. PICK u \in NewUsers : Phone!ChangeStatus(u)
      BY <2>2
    <3>1. person[u] \in Phone!Account /\ now' = now
      BY <3>0, PhoneTypes DEF Phone!ChangeStatus, Phone!RegistrationInvariant
    <3>2. [person[u] EXCEPT !.active = ~@] \in Phone!Account
      BY <3>1 DEF Phone!Account
    <3>3. person' = [person EXCEPT ![u] = [person[u] EXCEPT !.active = ~@]]
      BY <3>0 DEF Phone!ChangeStatus
    <3> QED BY <1>2, <3>1, <3>2, <3>3 DEF Phone!RegistrationInvariant, Phone!TypeOK, Phone!Account
  <2> QED BY <2>1, <2>2
<1>4. Phone!TypeOK'
  BY <1>1, <1>3 DEF Phone!RegistrationInvariant, Phone!TypeOK
<1>5. \A q \in Requests : Phone!RequestIsSound(q)'
  <2>1. now' \in Nat
    BY <1>3, PhoneNumbers DEF Phone!Time
  <2> QED BY <1>1, <1>2, <1>3, <2>1 DEF Phone!RegistrationInvariant, Phone!RequestIsSound
<1> QED
  BY <1>1, <1>3, <1>4, <1>5, PhoneWaitingKeepsInvariant

\* No account, no code and no request at first.
LEMMA PhoneInitHasInvariant ==
  ASSUME Phone!ConstantsAreValid, Phone!Init
  PROVE  Phone!RegistrationInvariant
<1>1. Phone!TypeOK
  BY PhoneNumbers
     DEF Phone!Init, Phone!TypeOK, Phone!Time, Phone!Account, Phone!NoAccount, Phone!Row,
     Phone!Blank, Phone!Stages, Phone!Context, Phone!NoContext
<1>2. /\ \A u \in NewUsers : ~person[u].exists /\ person[u].verified = FALSE
      /\ \A c \in Codes : ~message[c].exists
      /\ \A r \in Requests : stage[r] = "idle" /\ local[r].at = 0 /\ now = 0
  BY DEF Phone!Init, Phone!NoAccount, Phone!Blank, Phone!NoContext
<1>3. \A u : Phone!CodesOf(u) = {}
  BY <1>2 DEF Phone!CodesOf
<1>4. \A r \in Requests : Phone!RequestIsSound(r)
  BY <1>2 DEF Phone!RequestIsSound
<1>5. Phone!VerifiedByTheNewest
  BY <1>2, <1>3 DEF Phone!VerifiedByTheNewest
<1> QED
  BY <1>1, <1>2, <1>4, <1>5
     DEF Phone!RegistrationInvariant, Phone!CodesHaveOwners, Phone!AccountsAreWhole,
     Phone!IssuingIsLimited

\* Every step together.
LEMMA PhoneNextKeepsInvariant ==
  ASSUME Phone!ConstantsAreValid, Phone!RegistrationInvariant, Phone!Next
  PROVE  Phone!RegistrationInvariant'
<1>1. ASSUME NEW r \in Requests,
             \/ Phone!Arrive(r) \/ Phone!Register(r) \/ Phone!Resend(r) \/ Phone!Decline(r)
             \/ Phone!SendCode(r) \/ Phone!VerifyPhone(r) \/ Phone!Abort(r)
      PROVE  Phone!RegistrationInvariant'
  <2>1. CASE Phone!Arrive(r) \/ Phone!CheckDuplicates(r) \/ Phone!SendRefused(r)
    BY <2>1, PhoneMoveKeepsInvariant
  <2>2. CASE Phone!Insert(r)
    BY <2>2, PhoneInsertKeepsInvariant
  <2>3. CASE Phone!Resend(r)
    BY <2>3, PhoneResendKeepsInvariant
  <2>4. CASE Phone!Verify(r)
    BY <2>4, PhoneVerifyKeepsInvariant
  <2>5. CASE Phone!Miss(r) \/ Phone!Expire(r)
    BY <2>5, PhoneMarkKeepsInvariant
  <2>6. CASE Phone!Conflict(r) \/ Phone!Decline(r) \/ Phone!Sent(r) \/ Phone!ExpireFails(r) \/ Phone!Refuse(r) \/ Phone!Abort(r)
    BY <2>6, PhoneEndKeepsInvariant
  <2> QED BY <1>1, <2>1, <2>2, <2>3, <2>4, <2>5, <2>6
             DEF Phone!Register, Phone!SendCode, Phone!VerifyPhone
<1>2. CASE Phone!Tick \/ \E u \in NewUsers : Phone!ChangeStatus(u)
  BY <1>2, PhoneOutsideKeepsInvariant
<1> QED
  BY <1>1, <1>2 DEF Phone!Next

-----------------------------------------------------------------------------
(* The services side by side: module MCCodes, whose properties the run Codes  *)
(* checks on a small instance.                                                *)

\* Each service keeps its invariant on its own side; on the others it has no code yet.
\* (The clock they share goes on, for recovery beyond what the others know.)
CodesInvariant ==
    /\ side = "recovery" => RecoveryInvariant
    /\ side = "phone" => Phone!RegistrationInvariant
    /\ side = "email" => Email!VerificationInvariant
    /\ side # "recovery" => \A c \in Codes : ~code[c].exists
    /\ side # "phone" => /\ \A c \in Codes : ~message[c].exists
                         /\ \A u \in NewUsers : ~person[u].exists /\ person[u].verified = FALSE
    /\ side # "email" => \A c \in Codes : ~mail[c].activated

\* A clock that stands and requests that wait.
LEMMA PhoneStays ==
  ASSUME Phone!RegistrationInvariant, UNCHANGED <<now, phoneVars>>
  PROVE  Phone!RegistrationInvariant'
<1>1. UNCHANGED <<now, person, message, stage, local>>
  BY DEF phoneVars
<1>2. \A u : Phone!CodesOf(u)' = Phone!CodesOf(u)
  BY <1>1 DEF Phone!CodesOf
<1>3. /\ Phone!TypeOK' /\ Phone!CodesHaveOwners' /\ \A r \in Requests : Phone!RequestIsSound(r)'
  BY <1>1 DEF Phone!RegistrationInvariant, Phone!TypeOK, Phone!CodesHaveOwners, Phone!RequestIsSound
<1>4. Phone!AccountsAreWhole' /\ Phone!VerifiedByTheNewest' /\ Phone!IssuingIsLimited'
  BY <1>1, <1>2 DEF Phone!RegistrationInvariant, Phone!AccountsAreWhole, Phone!Owners,
                    Phone!VerifiedByTheNewest, Phone!IsLatest, Phone!IssuingIsLimited
<1> QED
  BY <1>3, <1>4 DEF Phone!RegistrationInvariant

\* A step of one service, or of none.
LEMMA CodesStepKeepsInvariant ==
  ASSUME CodeConstantsAreValid, CodesInvariant,
         [CodesNext]_<<now, side, resetVars, phoneVars, emailVars>>
  PROVE  CodesInvariant'
<1> USE DEF CodeConstantsAreValid
<1>1. UNCHANGED side
  BY DEF CodesNext
<1>2. ASSUME side = "recovery" PROVE RecoveryInvariant'
  <2>1. [Next]_vars
    BY <1>2 DEF CodesNext, resetVars, vars
  <2> QED BY <1>2, <2>1, NextKeepsInvariant DEF CodesInvariant
<1>3. ASSUME side = "phone" PROVE Phone!RegistrationInvariant'
  <2>1. Phone!RegistrationInvariant
    BY <1>3 DEF CodesInvariant
  <2>2. CASE Phone!Next
    BY <2>1, <2>2, PhoneNextKeepsInvariant
  <2>3. CASE UNCHANGED <<now, phoneVars>>
    BY <2>1, <2>3, PhoneStays
  <2> QED BY <1>3, <2>2, <2>3 DEF CodesNext
<1>4. ASSUME side = "email" PROVE Email!VerificationInvariant'
  <2>1. [Email!Next]_(Email!vars)
    BY <1>4 DEF CodesNext, emailVars, Email!vars
  <2> QED BY <1>4, <2>1, Email!NextKeepsInvariant DEF CodesInvariant
<1>5. /\ side # "recovery" => UNCHANGED resetVars
      /\ side # "phone" => UNCHANGED phoneVars
      /\ side # "email" => UNCHANGED emailVars
  BY DEF CodesNext
<1> QED
  BY <1>1, <1>2, <1>3, <1>4, <1>5 DEF CodesInvariant, resetVars, phoneVars, emailVars

\* The invariants of the three services hold in the composition.
THEOREM CodesInvariantHolds ==
  ASSUME CodeConstantsAreValid PROVE CodesSpec => []CodesInvariant
<1>1. CodesInit => CodesInvariant
  <2> SUFFICES ASSUME CodesInit PROVE CodesInvariant
    OBVIOUS
  <2>1. /\ RecoveryInvariant /\ Phone!RegistrationInvariant /\ Email!VerificationInvariant
    BY InitHasInvariant, PhoneInitHasInvariant, Email!InitHasInvariant
       DEF CodesInit, CodeConstantsAreValid
  <2>2. \A c \in Codes : ~code[c].exists /\ ~message[c].exists /\ ~mail[c].activated
    BY DEF CodesInit, Init, Phone!Init, Email!Init, Blank, Phone!Blank, Email!Blank
  <2>3. \A u \in NewUsers : ~person[u].exists /\ person[u].verified = FALSE
    BY DEF CodesInit, Phone!Init, Phone!NoAccount
  <2> QED BY <2>1, <2>2, <2>3 DEF CodesInvariant
<1>2. CodesInvariant /\ [CodesNext]_<<now, side, resetVars, phoneVars, emailVars>> => CodesInvariant'
  BY CodesStepKeepsInvariant
<1> QED
  BY <1>1, <1>2, PTL DEF CodesSpec

\* What holds of accounts and codes on the one side holds without any on the others.
LEMMA CodesInvariantMeans ==
  ASSUME CodeConstantsAreValid, CodesInvariant
  PROVE  /\ OnlyTheNewestIsUsable /\ CodesFollowThePassword
         /\ AccountsAreWhole /\ VerifiedByTheNewest /\ NewestUntilVerified /\ CodesAreLimited
<1>1. OnlyTheNewestIsUsable /\ CodesFollowThePassword /\ IssuingIsLimited
  BY DEF CodesInvariant, RecoveryInvariant, OnlyTheNewestIsUsable, CodesFollowThePassword,
         Usable, IssuingIsLimited
<1>2. Phone!AccountsAreWhole /\ Phone!VerifiedByTheNewest /\ Phone!IssuingIsLimited
  <2>1. CASE side = "phone"
    BY <2>1 DEF CodesInvariant, Phone!RegistrationInvariant
  <2>2. CASE side # "phone"
    <3>1. /\ \A c \in Codes : ~message[c].exists
          /\ \A u \in NewUsers : ~person[u].exists /\ person[u].verified = FALSE
      BY <2>2 DEF CodesInvariant
    <3>2. \A u : Phone!CodesOf(u) = {}
      BY <3>1 DEF Phone!CodesOf
    <3>3. Phone!VerifiedByTheNewest
      BY <3>1, <3>2 DEF Phone!VerifiedByTheNewest
    <3> QED BY <3>1, <3>3 DEF Phone!AccountsAreWhole, Phone!IssuingIsLimited
  <2> QED BY <2>1, <2>2
<1>3. Email!NewestUntilVerified
  <2>1. CASE side = "email"
    BY <2>1 DEF CodesInvariant, Email!VerificationInvariant
  <2>2. CASE side # "email"
    <3>1. \A c \in Codes : ~Email!Active(c)
      BY <2>2 DEF CodesInvariant, Email!Active
    <3> QED BY <3>1 DEF Email!NewestUntilVerified, Email!OnlyTheNewestIsActive,
                        Email!VerifiedEndsTheCodes, Email!CodesOf
  <2> QED BY <2>1, <2>2
<1> QED
  BY <1>1, <1>2, <1>3 DEF AccountsAreWhole, VerifiedByTheNewest, NewestUntilVerified, CodesAreLimited

\* Registrations that pass the duplicate check together end in accounts that share neither
\* address nor phone, each with its role and its first code (register).
THEOREM RegisteredAccountsAreWhole ==
  ASSUME CodeConstantsAreValid PROVE CodesSpec => []AccountsAreWhole
<1>1. CodesInvariant => AccountsAreWhole
  BY CodesInvariantMeans
<1> QED
  BY <1>1, CodesInvariantHolds, PTL

\* A phone is verified by one code, the newest, and gets no other (verify, resend).
THEOREM PhonesAreVerifiedByTheNewest ==
  ASSUME CodeConstantsAreValid PROVE CodesSpec => []VerifiedByTheNewest
<1>1. CodesInvariant => VerifiedByTheNewest
  BY CodesInvariantMeans
<1> QED
  BY <1>1, CodesInvariantHolds, PTL

\* An account has one active code of its address, the newest that was delivered, and none
\* once the address is verified (resend, verify).
THEOREM EmailCodesAreTheNewest ==
  ASSUME CodeConstantsAreValid PROVE CodesSpec => []NewestUntilVerified
<1>1. CodesInvariant => NewestUntilVerified
  BY CodesInvariantMeans
<1> QED
  BY <1>1, CodesInvariantHolds, PTL

\* No hour has more codes of an account than the limit and no two are closer than the
\* cooldown, for recovery and for phones (_may_issue, resend).
THEOREM IssuingOfCodesIsLimited ==
  ASSUME CodeConstantsAreValid PROVE CodesSpec => []CodesAreLimited
<1>1. CodesInvariant => CodesAreLimited
  BY CodesInvariantMeans
<1> QED
  BY <1>1, CodesInvariantHolds, PTL
=============================================================================
