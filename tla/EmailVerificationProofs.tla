----------------------- MODULE EmailVerificationProofs -----------------------
(***************************************************************************)
(* Proofs that the verification of an address keeps VerificationInvariant, *)
(* for every set of accounts, codes and requests, every configuration and  *)
(* every order in which deliveries end.                                    *)
(***************************************************************************)
EXTENDS EmailVerificationSafety, TLAPS

\* What the assumptions say of each bound.
LEMMA Numbers ==
  ASSUME ConstantsAreValid
  PROVE  Expiry \in Nat /\ MaxAttempts \in Nat /\ MaxTime \in Nat
  BY DEF ConstantsAreValid

\* The types of the fields of a code and of a request.
LEMMA RowTypes ==
  ASSUME ConstantsAreValid, TypeOK, NEW c \in Codes
  PROVE  /\ code[c] \in Row
         /\ code[c].exists \in BOOLEAN /\ code[c].used \in BOOLEAN
         /\ code[c].activated \in BOOLEAN /\ code[c].created \in Nat
<1>1. code[c] \in Row
  BY DEF TypeOK
<1> QED
  BY <1>1, Numbers DEF Row, Time

-----------------------------------------------------------------------------
(* What most steps have in common.                                            *)

\* The request that ends leaves the other deliveries as they were, if their codes
\* do not become active.
LEMMA OthersStaySound ==
  ASSUME ConstantsAreValid, VerificationInvariant, NEW r \in Requests, Finish(r),
         \A c \in Codes : code'[c].exists = code[c].exists /\ code'[c].user = code[c].user,
         \A q \in Requests \ {r} : Delivering(q) => ~code'[ctx[q].code].activated
  PROVE  (\A q \in Requests : DeliveryIsSound(q)') /\ NoCodeIsDeliveredTwice'
<1>1. /\ \A q \in Requests \ {r} : pc'[q] = pc[q] /\ ctx'[q] = ctx[q]
      /\ pc'[r] = "idle"
  BY DEF Finish, Goto, VerificationInvariant, TypeOK
<1>2. ASSUME NEW q \in Requests PROVE DeliveryIsSound(q)'
  <2>1. CASE q = r
    BY <1>1, <2>1 DEF DeliveryIsSound, Delivering
  <2>2. CASE q # r
    BY <1>1, <2>2 DEF DeliveryIsSound, Delivering, VerificationInvariant
  <2> QED BY <2>1, <2>2
<1>3. NoCodeIsDeliveredTwice'
  BY <1>1 DEF NoCodeIsDeliveredTwice, Delivering, VerificationInvariant
<1> QED
  BY <1>2, <1>3

\* A step that issues and activates nothing keeps the properties of the rows, if it
\* verifies only accounts whose codes it spends.
LEMMA RowsStaySound ==
  ASSUME ConstantsAreValid, VerificationInvariant, TypeOK',
         \A q \in Requests : DeliveryIsSound(q)', NoCodeIsDeliveredTwice',
         \A c \in Codes : /\ code'[c].exists = code[c].exists
                          /\ code'[c].user = code[c].user
                          /\ code'[c].created = code[c].created
                          /\ code'[c].activated = code[c].activated
                          /\ code[c].used => code'[c].used,
         \A u \in Users : account'[u].verified /\ ~account[u].verified =>
             \A c \in CodesOf(u) : ~Active(c)'
  PROVE  VerificationInvariant'
<1>1. \A u : CodesOf(u)' = CodesOf(u)
  BY DEF CodesOf
<1>2. \A c \in Codes : Active(c)' => Active(c)
  BY DEF Active
<1>3. OnlyTheNewestIsActive'
  <2> SUFFICES ASSUME NEW c \in Codes, Active(c)'
               PROVE  /\ \A d \in CodesOf(code[c].user)' \ {c} :
                           code'[d].activated => code'[d].used /\ code'[d].created <= code'[c].created
                      /\ \A q \in Requests : Delivering(q)' => ctx'[q].code # c
    BY DEF OnlyTheNewestIsActive, Delivering
  <2>1. \A d \in CodesOf(code[c].user) \ {c} :
           code[d].activated => code[d].used /\ code[d].created <= code[c].created
    BY <1>2 DEF VerificationInvariant, NewestUntilVerified, OnlyTheNewestIsActive
  <2>2. CodesOf(code[c].user)' = CodesOf(code[c].user) /\ CodesOf(code[c].user) \subseteq Codes
    BY <1>1 DEF CodesOf
  <2>3. \A q \in Requests : Delivering(q)' => ctx'[q].code # c
    BY DEF DeliveryIsSound, Active
  <2> QED BY <2>1, <2>2, <2>3
<1>4. VerifiedEndsTheCodes'
  <2> SUFFICES ASSUME NEW u \in Users, account'[u].verified, NEW c \in CodesOf(u)
               PROVE  ~Active(c)'
    BY <1>1 DEF VerifiedEndsTheCodes
  <2>1. c \in Codes
    BY DEF CodesOf
  <2>2. CASE account[u].verified
    BY <1>2, <2>1, <2>2 DEF VerificationInvariant, NewestUntilVerified, VerifiedEndsTheCodes
  <2> QED BY <2>2
<1>5. ActivatedCodesExist'
  BY DEF ActivatedCodesExist, VerificationInvariant
<1> QED
  BY <1>3, <1>4, <1>5 DEF VerificationInvariant, NewestUntilVerified

\* A step that leaves rows and verifications alone.
LEMMA WaitingKeepsInvariant ==
  ASSUME ConstantsAreValid, VerificationInvariant, TypeOK', code' = code,
         \A u \in Users : account'[u].verified = account[u].verified,
         \A q \in Requests : DeliveryIsSound(q)', NoCodeIsDeliveredTwice'
  PROVE  VerificationInvariant'
  BY RowsStaySound

\* The local variables of a request that ends are of the type.
LEMMA FinishTypes ==
  ASSUME ConstantsAreValid, TypeOK, NEW r \in Requests, Finish(r)
  PROVE  pc' \in [Requests -> Stages] /\ ctx' \in [Requests -> Context]
  BY Numbers DEF TypeOK, Finish, Goto, Stages, NoContext, Context, Time

\* Spending codes, whichever, changes nothing else of them.
LEMMA SpendingTypes ==
  ASSUME ConstantsAreValid, TypeOK, NEW S, code' = Spent(S)
  PROVE  /\ code' \in [Codes -> Row]
         /\ \A c \in Codes :
              /\ code'[c].exists = code[c].exists /\ code'[c].user = code[c].user
              /\ code'[c].created = code[c].created /\ code'[c].activated = code[c].activated
              /\ code[c].used => code'[c].used
              /\ c \in S => code'[c].used
<1>1. \A c \in Codes :
        /\ code'[c] = IF c \in S THEN [code[c] EXCEPT !.used = TRUE] ELSE code[c]
        /\ code[c] \in Row
  BY DEF Spent, TypeOK
<1>2. code' = [c \in Codes |-> code'[c]]
  BY DEF Spent
<1>3. \A c \in Codes : code'[c] \in Row
  BY <1>1 DEF Row
<1> QED
  BY <1>1, <1>2, <1>3 DEF Row

-----------------------------------------------------------------------------
(* Issuing and activating.                                                    *)

\* A request commits a pending code (create_challenge).
LEMMA IssueKeepsInvariant ==
  ASSUME ConstantsAreValid, VerificationInvariant, NEW r \in Requests, Issue(r)
  PROVE  VerificationInvariant'
<1> USE DEF VerificationInvariant
<1>0. PICK u \in Users, at \in Time : u = ctx[r].user /\ at = ctx[r].at
  BY DEF Issue, DeliveryIsSound, TypeOK, Context
<1>1. PICK c \in Codes :
        /\ ~code[c].exists
        /\ code' = [Spent({}) EXCEPT ![c] =
               [exists |-> TRUE, user |-> u, activated |-> FALSE, used |-> FALSE,
                created |-> at, expires |-> at + Expiry, attempts |-> 0]]
        /\ ctx' = [ctx EXCEPT ![r].code = c, ![r].since = 0, ![r].seen = {}]
  BY <1>0 DEF Issue, Kept
<1>2. /\ pc[r] = "issue" /\ pc' = [pc EXCEPT ![r] = "deliver"]
      /\ now' = now /\ account' = account
  BY DEF Issue, Goto
<1>3. /\ code'[c] = [exists |-> TRUE, user |-> u, activated |-> FALSE, used |-> FALSE,
                     created |-> at, expires |-> at + Expiry, attempts |-> 0]
      /\ \A d \in Codes \ {c} : code'[d] = code[d]
      /\ code' = [d \in Codes |-> code'[d]]
  BY <1>1 DEF Spent
<1>4. TypeOK'
  <2>1. code'[c] \in Row
    BY <1>0, <1>3, Numbers DEF Row, Time
  <2>2. code' \in [Codes -> Row]
    BY <1>3, <2>1 DEF TypeOK
  <2>3. pc' \in [Requests -> Stages] /\ ctx' \in [Requests -> Context]
    <3>1. 0 \in Time
      BY Numbers DEF Time
    <3>2. ctx[r] \in Context
      BY DEF TypeOK
    <3>3. [ctx[r] EXCEPT !.code = c, !.since = 0, !.seen = {}] \in Context
      BY <3>1, <3>2 DEF Context
    <3>4. ctx' = [ctx EXCEPT ![r] = [ctx[r] EXCEPT !.code = c, !.since = 0, !.seen = {}]]
      BY <1>1 DEF TypeOK
    <3> QED BY <1>2, <3>3, <3>4 DEF TypeOK, Stages
  <2> QED BY <1>2, <2>2, <2>3 DEF TypeOK
<1>5. /\ ctx'[r].code = c /\ ctx'[r].user = u /\ pc'[r] = "deliver"
      /\ \A q \in Requests \ {r} : ctx'[q] = ctx[q] /\ pc'[q] = pc[q]
  BY <1>0, <1>1, <1>2 DEF TypeOK, Context
<1>6. \A q \in Requests \ {r} : Delivering(q) => ctx[q].code \in Codes \ {c}
  BY <1>1 DEF DeliveryIsSound
<1>7. ASSUME NEW q \in Requests PROVE DeliveryIsSound(q)'
  <2>1. CASE q = r
    BY <1>0, <1>3, <1>5, <2>1 DEF DeliveryIsSound, Delivering
  <2>2. CASE q # r
    <3>1. DeliveryIsSound(q) /\ ctx'[q] = ctx[q] /\ pc'[q] = pc[q]
      BY <1>5, <2>2
    <3>2. Delivering(q) => code'[ctx[q].code] = code[ctx[q].code]
      BY <1>3, <1>6, <2>2
    <3> QED BY <3>1, <3>2 DEF DeliveryIsSound, Delivering
  <2> QED BY <2>1, <2>2
<1>8. NoCodeIsDeliveredTwice'
  BY <1>5, <1>6 DEF NoCodeIsDeliveredTwice, Delivering
<1>9. ~Active(c)' /\ \A d \in Codes : Active(d)' => d # c /\ Active(d)
  BY <1>3 DEF Active
<1>10. \A v : CodesOf(v)' \subseteq CodesOf(v) \cup {c} /\ CodesOf(v) \subseteq Codes \ {c}
  BY <1>1, <1>3 DEF CodesOf
<1>11. OnlyTheNewestIsActive'
  <2> SUFFICES ASSUME NEW d \in Codes, Active(d)'
               PROVE  /\ \A e \in CodesOf(code[d].user)' \ {d} :
                           code'[e].activated => code'[e].used /\ code'[e].created <= code'[d].created
                      /\ \A q \in Requests : Delivering(q)' => ctx'[q].code # d
    BY DEF OnlyTheNewestIsActive, Delivering
  <2>1. d # c /\ Active(d) /\ code'[d] = code[d]
    BY <1>3, <1>9
  <2>2. \A e \in CodesOf(code[d].user) \ {d} :
           code[e].activated => code[e].used /\ code[e].created <= code[d].created
    BY <2>1 DEF NewestUntilVerified, OnlyTheNewestIsActive
  <2>3. \A e \in CodesOf(code[d].user)' \ {d} :
           code'[e].activated => code'[e].used /\ code'[e].created <= code'[d].created
    BY <1>3, <1>10, <2>1, <2>2
  <2>4. \A q \in Requests : Delivering(q)' => ctx'[q].code # d
    BY <1>7 DEF DeliveryIsSound, Active
  <2> QED BY <2>3, <2>4
<1>12. VerifiedEndsTheCodes'
  BY <1>2, <1>9, <1>10 DEF NewestUntilVerified, VerifiedEndsTheCodes
<1>13. ActivatedCodesExist'
  BY <1>3 DEF ActivatedCodesExist
<1> QED
  BY <1>4, <1>7, <1>8, <1>11, <1>12, <1>13 DEF NewestUntilVerified

\* After the delivery the code replaces the active one (activate_delivered).
LEMMA ActivateKeepsInvariant ==
  ASSUME ConstantsAreValid, VerificationInvariant, NEW r \in Requests, Activate(r)
  PROVE  VerificationInvariant'
<1> USE DEF VerificationInvariant
<1>1. PICK c \in Codes, u \in Users : c = ctx[r].code /\ u = ctx[r].user /\ code[c].user = u
  BY DEF Activate, DeliveryIsSound, Delivering
<1>2. /\ pc[r] = "activate" /\ Finish(r) /\ now' = now /\ account' = account
      /\ Eligible(u) /\ IsLatest(c, u) /\ ~code[c].activated
      /\ code' = [Spent(Superseded(c)) EXCEPT ![c].activated = TRUE]
  BY <1>1 DEF Activate, StillWanted, Pending
<1>3. /\ \A d \in Codes \ {c} : code'[d] = IF d \in Superseded(c)
                                          THEN [code[d] EXCEPT !.used = TRUE] ELSE code[d]
      /\ code'[c] = [code[c] EXCEPT !.activated = TRUE]
      /\ code' = [d \in Codes |-> code'[d]]
  BY <1>2 DEF Spent, Superseded
<1>4. \A d \in Codes : code[d] \in Row /\ code'[d] \in Row
  <2> TAKE d \in Codes
  <2>1. code[d] \in Row
    BY RowTypes
  <2>2. [code[d] EXCEPT !.used = TRUE] \in Row /\ [code[d] EXCEPT !.activated = TRUE] \in Row
    BY <2>1 DEF Row
  <2> QED BY <1>3, <2>1, <2>2
<1>5. /\ \A d \in Codes : /\ code'[d].exists = code[d].exists /\ code'[d].user = code[d].user
                          /\ code'[d].created = code[d].created
                          /\ code[d].used => code'[d].used
      /\ \A d \in Codes \ {c} : /\ code'[d].activated = code[d].activated
                                /\ d \in Superseded(c) => code'[d].used
  BY <1>3, <1>4 DEF Row
<1>6. TypeOK'
  BY <1>2, <1>3, <1>4, FinishTypes DEF TypeOK
<1>7. (\A q \in Requests : DeliveryIsSound(q)') /\ NoCodeIsDeliveredTwice'
  <2>1. \A q \in Requests \ {r} : Delivering(q) => ctx[q].code \in Codes \ {c}
    BY <1>1, <1>2 DEF DeliveryIsSound, NoCodeIsDeliveredTwice, Delivering
  <2>2. \A q \in Requests \ {r} : Delivering(q) => ~code'[ctx[q].code].activated
    BY <1>5, <2>1 DEF DeliveryIsSound
  <2> QED BY <1>2, <1>5, <2>2, OthersStaySound
<1>8. \A v : CodesOf(v)' = CodesOf(v) /\ CodesOf(v) \subseteq Codes
  BY <1>5 DEF CodesOf
<1>9. \A d \in CodesOf(u) \ {c} : code'[d].activated =>
        code'[d].used /\ code'[d].created <= code'[c].created
  <2> SUFFICES ASSUME NEW d \in CodesOf(u) \ {c}, code'[d].activated
               PROVE  code'[d].used /\ code'[d].created <= code'[c].created
    OBVIOUS
  <2>1. d \in Codes /\ code[d].activated
    BY <1>5, <1>8
  <2>2. code'[d].used
    BY <1>1, <1>5, <2>1 DEF Superseded, Active
  <2>3. code[d].created <= code[c].created
    BY <1>2 DEF IsLatest
  <2> QED BY <1>5, <2>1, <2>2, <2>3
<1>10. ASSUME NEW d \in Codes, Active(d)', d # c PROVE Active(d) /\ code[d].user # u
  <2>1. Active(d) /\ d \notin Superseded(c)
    BY <1>5, <1>10 DEF Active
  <2>2. code[d].exists
    BY <2>1 DEF Active, ActivatedCodesExist
  <2> QED BY <1>1, <1>10, <2>1, <2>2 DEF Superseded, CodesOf
<1>11. OnlyTheNewestIsActive'
  <2> SUFFICES ASSUME NEW d \in Codes, Active(d)'
               PROVE  /\ \A e \in CodesOf(code[d].user)' \ {d} :
                           code'[e].activated => code'[e].used /\ code'[e].created <= code'[d].created
                      /\ \A q \in Requests : Delivering(q)' => ctx'[q].code # d
    BY DEF OnlyTheNewestIsActive, Delivering
  <2>1. \A q \in Requests : Delivering(q)' => ctx'[q].code # d
    BY <1>7 DEF DeliveryIsSound, Active
  <2>2. CASE d = c
    BY <1>1, <1>5, <1>8, <1>9, <2>1, <2>2
  <2>3. CASE d # c
    <3>1. Active(d) /\ code[d].user # u
      BY <1>10, <2>3
    <3>2. \A e \in CodesOf(code[d].user) \ {d} :
             code[e].activated => code[e].used /\ code[e].created <= code[d].created
      BY <3>1 DEF NewestUntilVerified, OnlyTheNewestIsActive
    <3>3. c \notin CodesOf(code[d].user)
      BY <1>1, <3>1 DEF CodesOf
    <3>4. CodesOf(code[d].user)' = CodesOf(code[d].user)
      BY <1>5, <1>8
    <3> QED BY <1>5, <1>8, <2>1, <3>2, <3>3, <3>4
  <2> QED BY <2>2, <2>3
<1>12. VerifiedEndsTheCodes'
  <2> SUFFICES ASSUME NEW v \in Users, account[v].verified, NEW d \in CodesOf(v)
               PROVE  ~Active(d)'
    BY <1>2, <1>8 DEF VerifiedEndsTheCodes
  <2>1. v # u
    BY <1>2 DEF Eligible
  <2>2. d # c /\ d \in Codes /\ ~Active(d)
    BY <1>1, <2>1 DEF CodesOf, NewestUntilVerified, VerifiedEndsTheCodes
  <2> QED BY <1>10, <2>2
<1>13. ActivatedCodesExist'
  <2>1. code[c].exists
    BY <1>2 DEF IsLatest, CodesOf
  <2> QED BY <1>5, <2>1 DEF ActivatedCodesExist
<1> QED
  BY <1>6, <1>7, <1>11, <1>12, <1>13 DEF NewestUntilVerified

-----------------------------------------------------------------------------
(* The other steps.                                                           *)

\* A failed delivery ends its code.
LEMMA CancelKeepsInvariant ==
  ASSUME ConstantsAreValid, VerificationInvariant, NEW r \in Requests, CancelPending(r)
  PROVE  VerificationInvariant'
<1> USE DEF VerificationInvariant
<1>1. PICK S : code' = Spent(S) /\ Finish(r) /\ now' = now /\ account' = account
  BY DEF CancelPending
<1>2. TypeOK'
  BY <1>1, SpendingTypes, FinishTypes DEF TypeOK
<1>3. (\A q \in Requests : DeliveryIsSound(q)') /\ NoCodeIsDeliveredTwice'
  <2>1. \A q \in Requests \ {r} : Delivering(q) => ~code'[ctx[q].code].activated
    BY <1>1, SpendingTypes DEF DeliveryIsSound
  <2> QED BY <1>1, <2>1, SpendingTypes, OthersStaySound
<1> QED
  BY <1>1, <1>2, <1>3, SpendingTypes, RowsStaySound

\* The active code is consumed and the address verified (verify).
LEMMA VerifyKeepsInvariant ==
  ASSUME ConstantsAreValid, VerificationInvariant, NEW r \in Requests, Verify(r)
  PROVE  VerificationInvariant'
<1> USE DEF VerificationInvariant
<1>1. PICK u \in Users, c \in Codes : u = ctx[r].user /\ c = ctx[r].code
  BY DEF Verify, DeliveryIsSound, Challenge, IsLatestActive, CodesOf
<1>2. /\ code[c].user = u /\ Finish(r) /\ now' = now
      /\ account' = [account EXCEPT ![u].verified = TRUE]
      /\ code' = Spent({c} \cup Superseded(c))
  BY <1>1 DEF Verify, Challenge, IsLatestActive, CodesOf
<1>3. TypeOK'
  <2>1. account' \in [Users -> [active: BOOLEAN, verified: BOOLEAN]]
    BY <1>2 DEF TypeOK
  <2> QED BY <1>2, <2>1, SpendingTypes, FinishTypes DEF TypeOK
<1>4. (\A q \in Requests : DeliveryIsSound(q)') /\ NoCodeIsDeliveredTwice'
  <2>1. \A q \in Requests \ {r} : Delivering(q) => ~code'[ctx[q].code].activated
    BY <1>2, SpendingTypes DEF DeliveryIsSound
  <2> QED BY <1>2, <2>1, SpendingTypes, OthersStaySound
<1>5. \A d \in CodesOf(u) : ~Active(d)'
  <2> SUFFICES ASSUME NEW d \in CodesOf(u) PROVE ~Active(d)'
    OBVIOUS
  <2>1. d \in Codes
    BY DEF CodesOf
  <2>2. Active(d) => d \in {c} \cup Superseded(c)
    BY <1>2 DEF Superseded
  <2> QED BY <1>2, <2>1, <2>2, SpendingTypes DEF Active
<1>6. \A v \in Users \ {u} : account'[v].verified = account[v].verified
  BY <1>2 DEF TypeOK
<1> QED
  BY <1>2, <1>3, <1>4, <1>5, <1>6, SpendingTypes, RowsStaySound

\* A wrong code counts an attempt.
LEMMA MissKeepsInvariant ==
  ASSUME ConstantsAreValid, VerificationInvariant, NEW r \in Requests, Miss(r)
  PROVE  VerificationInvariant'
<1> USE DEF VerificationInvariant
<1>1. PICK c \in Codes : Challenge(r, c) /\ code' = [code EXCEPT ![c].attempts = @ + 1]
  BY DEF Miss
<1>2. Finish(r) /\ now' = now /\ account' = account
  BY DEF Miss
<1>3. code[c] \in Row /\ code[c].attempts \in 0..MaxAttempts /\ code[c].attempts < MaxAttempts
  BY <1>1, RowTypes DEF Challenge, Row
<1>4. code'[c] = [code[c] EXCEPT !.attempts = @ + 1] /\ \A d \in Codes \ {c} : code'[d] = code[d]
  BY <1>1 DEF TypeOK
<1>5. code'[c] \in Row /\ code' \in [Codes -> Row]
  BY <1>1, <1>3, <1>4, Numbers DEF Row, TypeOK
<1>6. TypeOK'
  BY <1>2, <1>5, FinishTypes DEF TypeOK
<1>7. \A d \in Codes :
        /\ code'[d].exists = code[d].exists /\ code'[d].user = code[d].user
        /\ code'[d].created = code[d].created /\ code'[d].activated = code[d].activated
        /\ code[d].used => code'[d].used
  BY <1>3, <1>4 DEF Row
<1>8. (\A q \in Requests : DeliveryIsSound(q)') /\ NoCodeIsDeliveredTwice'
  <2>1. \A q \in Requests \ {r} : Delivering(q) => ~code'[ctx[q].code].activated
    BY <1>7 DEF DeliveryIsSound
  <2> QED BY <1>2, <1>7, <2>1, OthersStaySound
<1> QED
  BY <1>2, <1>6, <1>7, <1>8, RowsStaySound

\* A refusal, a crash, or a request that ends for another reason.
LEMMA RefusalKeepsInvariant ==
  ASSUME ConstantsAreValid, VerificationInvariant, NEW r \in Requests, Decline(r) \/ Refuse(r) \/ Abort(r)
  PROVE  VerificationInvariant'
<1> USE DEF VerificationInvariant
<1>1. Finish(r) /\ now' = now /\ account' = account /\ code' = code
  BY DEF Decline, Refuse, Abort
<1>2. TypeOK'
  BY <1>1, FinishTypes DEF TypeOK
<1>3. (\A q \in Requests : DeliveryIsSound(q)') /\ NoCodeIsDeliveredTwice'
  BY <1>1, OthersStaySound DEF DeliveryIsSound
<1> QED
  BY <1>1, <1>2, <1>3, WaitingKeepsInvariant

\* A request that goes on to a stage with the code it has, or has none to deliver.
LEMMA ProgressKeepsInvariant ==
  ASSUME ConstantsAreValid, VerificationInvariant, NEW r \in Requests, TypeOK',
         now' = now, account' = account, code' = code,
         \A q \in Requests \ {r} : pc'[q] = pc[q] /\ ctx'[q] = ctx[q],
         pc'[r] # "idle" => ctx'[r].user \in Users,
         Delivering(r)' => Delivering(r) /\ ctx'[r] = ctx[r]
  PROVE  VerificationInvariant'
<1> USE DEF VerificationInvariant
<1>1. ASSUME NEW q \in Requests PROVE DeliveryIsSound(q)'
  <2>1. CASE q = r
    BY <2>1 DEF DeliveryIsSound, Delivering
  <2>2. CASE q # r
    BY <2>2 DEF DeliveryIsSound, Delivering
  <2> QED BY <2>1, <2>2
<1>2. NoCodeIsDeliveredTwice'
  BY DEF NoCodeIsDeliveredTwice, Delivering
<1> QED
  BY <1>1, <1>2, WaitingKeepsInvariant

\* A request begins, with the account as it is.
LEMMA ArrivalKeepsInvariant ==
  ASSUME ConstantsAreValid, VerificationInvariant, NEW r \in Requests, Arrive(r)
  PROVE  VerificationInvariant'
<1> USE DEF VerificationInvariant
<1>1. PICK u \in Users, stage \in {"authenticated", "verify"} :
        /\ pc' = [pc EXCEPT ![r] = stage] /\ UNCHANGED <<now, account, code>>
        /\ \/ ctx' = [ctx EXCEPT ![r].user = u, ![r].since = now,
                                 ![r].seen = {c \in Codes : code[c].exists}]
           \/ \E c \in Codes \cup {NoCode} :
                ctx' = [ctx EXCEPT ![r].user = u, ![r].at = now, ![r].code = c]
  BY DEF Arrive, Authenticate, BeginVerify, Goto
<1>2. ctx[r] \in Context /\ now \in Time
  BY DEF TypeOK
<1>3. [ctx[r] EXCEPT !.user = u, !.since = now, !.seen = {c \in Codes : code[c].exists}] \in Context
  BY <1>2 DEF Context
<1>4. \A c \in Codes \cup {NoCode} : [ctx[r] EXCEPT !.user = u, !.at = now, !.code = c] \in Context
  BY <1>2 DEF Context
<1>5. PICK x \in Context : x.user = u /\ ctx' = [ctx EXCEPT ![r] = x]
  <2>1. CASE ctx' = [ctx EXCEPT ![r].user = u, ![r].since = now,
                                ![r].seen = {c \in Codes : code[c].exists}]
    BY <1>2, <1>3, <2>1 DEF TypeOK, Context
  <2>2. ASSUME NEW c \in Codes \cup {NoCode},
               ctx' = [ctx EXCEPT ![r].user = u, ![r].at = now, ![r].code = c]
        PROVE  \E x \in Context : x.user = u /\ ctx' = [ctx EXCEPT ![r] = x]
    <3> DEFINE x == [ctx[r] EXCEPT !.user = u, !.at = now, !.code = c]
    <3>1. x \in Context /\ x.user = u
      BY <1>2, <1>4 DEF Context
    <3>2. ctx' = [ctx EXCEPT ![r] = x]
      BY <2>2 DEF TypeOK
    <3> QED BY <3>1, <3>2
  <2> QED BY <1>1, <2>1, <2>2
<1>6. TypeOK'
  BY <1>1, <1>5 DEF TypeOK, Stages
<1>7. /\ pc'[r] = stage /\ ctx'[r].user = u
      /\ \A q \in Requests \ {r} : pc'[q] = pc[q] /\ ctx'[q] = ctx[q]
  BY <1>1, <1>5 DEF TypeOK
<1> QED
  BY <1>1, <1>6, <1>7, ProgressKeepsInvariant DEF Delivering

\* A request reads its clock or hears from the delivery, and writes no row.
LEMMA StageKeepsInvariant ==
  ASSUME ConstantsAreValid, VerificationInvariant, NEW r \in Requests, ReadClock(r) \/ Deliver(r) \/ Fail(r)
  PROVE  VerificationInvariant'
<1> USE DEF VerificationInvariant
<1>1. CASE ReadClock(r)
  <2>1. /\ pc[r] = "authenticated" /\ pc' = [pc EXCEPT ![r] = "issue"]
        /\ ctx' = [ctx EXCEPT ![r].at = now] /\ UNCHANGED <<now, account, code>>
    BY <1>1 DEF ReadClock, Goto
  <2>2. ctx[r] \in Context /\ [ctx[r] EXCEPT !.at = now] \in Context
    BY DEF TypeOK, Context
  <2>3. ctx' = [ctx EXCEPT ![r] = [ctx[r] EXCEPT !.at = now]]
    BY <2>1 DEF TypeOK
  <2>4. TypeOK'
    BY <2>1, <2>2, <2>3 DEF TypeOK, Stages
  <2>5. /\ pc'[r] = "issue" /\ ctx'[r].user = ctx[r].user
        /\ \A q \in Requests \ {r} : pc'[q] = pc[q] /\ ctx'[q] = ctx[q]
    BY <2>1, <2>2, <2>3 DEF TypeOK, Context
  <2>6. ctx[r].user \in Users
    BY <2>1 DEF DeliveryIsSound
  <2> QED BY <2>1, <2>4, <2>5, <2>6, ProgressKeepsInvariant DEF Delivering
<1>2. CASE Deliver(r) \/ Fail(r)
  <2>1. PICK stage \in {"activate", "cancel"} :
          /\ Delivering(r) /\ pc' = [pc EXCEPT ![r] = stage]
          /\ UNCHANGED <<now, account, code, ctx>>
    BY <1>2 DEF Deliver, Fail, Goto, Delivering
  <2>2. TypeOK'
    BY <2>1 DEF TypeOK, Stages
  <2>3. \A q \in Requests : pc'[q] = IF q = r THEN stage ELSE pc[q]
    BY <2>1 DEF TypeOK
  <2>4. ctx[r].user \in Users
    BY <2>1 DEF DeliveryIsSound, Delivering
  <2> QED BY <2>1, <2>2, <2>3, <2>4, ProgressKeepsInvariant
<1> QED
  BY <1>1, <1>2

\* The clock, and an administrator.
LEMMA OutsideKeepsInvariant ==
  ASSUME ConstantsAreValid, VerificationInvariant, Tick \/ \E u \in Users : ChangeStatus(u)
  PROVE  VerificationInvariant'
<1> USE DEF VerificationInvariant
<1>1. UNCHANGED <<code, pc, ctx>>
  BY DEF Tick, ChangeStatus
<1>2. TypeOK' /\ \A v \in Users : account'[v].verified = account[v].verified
  <2>1. CASE Tick
    BY <2>1, Numbers DEF Tick, TypeOK, Time
  <2>2. ASSUME NEW u \in Users, ChangeStatus(u)
        PROVE  TypeOK' /\ \A v \in Users : account'[v].verified = account[v].verified
    BY <2>2 DEF ChangeStatus, TypeOK
  <2> QED BY <2>1, <2>2
<1>3. (\A q \in Requests : DeliveryIsSound(q)') /\ NoCodeIsDeliveredTwice'
  BY <1>1 DEF DeliveryIsSound, NoCodeIsDeliveredTwice, Delivering
<1> QED
  BY <1>1, <1>2, <1>3, WaitingKeepsInvariant

-----------------------------------------------------------------------------

\* No code and no request at first.
LEMMA InitHasInvariant ==
  ASSUME ConstantsAreValid, Init
  PROVE  VerificationInvariant
<1>1. TypeOK
  BY Numbers DEF Init, TypeOK, Time, Row, Blank, Stages, Context, NoContext
<1>2. \A c \in Codes : ~code[c].exists /\ ~code[c].activated
  BY DEF Init, Blank
<1>3. \A r \in Requests : pc[r] = "idle"
  BY DEF Init
<1> QED
  BY <1>1, <1>2, <1>3 DEF VerificationInvariant, DeliveryIsSound, Delivering, NoCodeIsDeliveredTwice,
     ActivatedCodesExist, NewestUntilVerified, OnlyTheNewestIsActive, VerifiedEndsTheCodes, Active,
     CodesOf

\* Every step together.
LEMMA NextKeepsInvariant ==
  ASSUME ConstantsAreValid, VerificationInvariant, [Next]_vars
  PROVE  VerificationInvariant'
<1>1. CASE UNCHANGED vars
  <2>1. now' = now /\ account' = account /\ code' = code /\ pc' = pc /\ ctx' = ctx
    BY <1>1 DEF vars
  <2>2. TypeOK'
    BY <2>1 DEF VerificationInvariant, TypeOK
  <2>3. (\A q \in Requests : DeliveryIsSound(q)') /\ NoCodeIsDeliveredTwice'
    BY <2>1 DEF VerificationInvariant, DeliveryIsSound, NoCodeIsDeliveredTwice, Delivering
  <2> QED BY <2>1, <2>2, <2>3, WaitingKeepsInvariant
<1>2. ASSUME NEW r \in Requests,
             Arrive(r) \/ Resend(r) \/ Verify(r) \/ Miss(r) \/ Refuse(r) \/ Abort(r)
      PROVE  VerificationInvariant'
  <2>1. CASE Arrive(r)
    BY <2>1, ArrivalKeepsInvariant
  <2>2. CASE ReadClock(r) \/ Deliver(r) \/ Fail(r)
    BY <2>2, StageKeepsInvariant
  <2>3. CASE Issue(r)
    BY <2>3, IssueKeepsInvariant
  <2>4. CASE Activate(r)
    BY <2>4, ActivateKeepsInvariant
  <2>5. CASE CancelPending(r)
    BY <2>5, CancelKeepsInvariant
  <2>6. CASE Verify(r)
    BY <2>6, VerifyKeepsInvariant
  <2>7. CASE Miss(r)
    BY <2>7, MissKeepsInvariant
  <2>8. CASE Decline(r) \/ Refuse(r) \/ Abort(r)
    BY <2>8, RefusalKeepsInvariant
  <2> QED BY <1>2, <2>1, <2>2, <2>3, <2>4, <2>5, <2>6, <2>7, <2>8 DEF Resend
<1>3. CASE Tick \/ \E u \in Users : ChangeStatus(u)
  BY <1>3, OutsideKeepsInvariant
<1> QED
  BY <1>1, <1>2, <1>3 DEF Next

\* Whatever deliveries overtake each other, the invariant is kept.
THEOREM VerificationInvariantHolds ==
  ASSUME ConstantsAreValid PROVE Spec => []VerificationInvariant
<1>1. Init => VerificationInvariant
  BY InitHasInvariant
<1>2. VerificationInvariant /\ [Next]_vars => VerificationInvariant'
  BY NextKeepsInvariant
<1> QED
  BY <1>1, <1>2, PTL DEF Spec

\* No code is active beside a newer one that was delivered, none before its delivery,
\* and none once the address is verified (resend, verify).
THEOREM NewestCodeUntilVerified ==
  ASSUME ConstantsAreValid PROVE Spec => []NewestUntilVerified
<1>1. VerificationInvariant => NewestUntilVerified
  BY DEF VerificationInvariant
<1> QED
  BY <1>1, VerificationInvariantHolds, PTL
=============================================================================
