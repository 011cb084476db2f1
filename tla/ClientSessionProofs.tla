------------------------ MODULE ClientSessionProofs ------------------------
(***************************************************************************)
(* Proofs of what a browser with one tab owes to the person signed in, for *)
(* every number of accounts, sign-ins, open requests, refusals and losses. *)
(***************************************************************************)
EXTENDS ClientSessionSafety, TLAPS

\* Which fields the requests of a tab have, and what tells none from one.
LEMMA Shapes ==
  ASSUME TypeOK
  PROVE  /\ \A c \in Calls \cup Tabs : call[c] # Quiet => call[c] \in Request
         /\ \A t \in Tabs : /\ logout[t] # Quiet => logout[t] \in SignOut
                            /\ login[t] # Quiet => login[t] \in SignIn
         /\ Quiet.phase = "none"
         /\ None = -1 /\ None \notin Nat
         /\ NoCookie \in Cookie /\ NoCookie.family = 0 /\ 0 \notin Families
  BY DEF TypeOK, Quiet, None, NoCookie, Cookie, Families

\* With one tab, what holds of it holds of all.
LEMMA OneTabIsEnough ==
  ASSUME OneTab, NEW t \in Tabs, TypeOK', CookiesAreOwned', RotationsFit',
         TabFits(t)', SignOutFits(t)', SignInFits(t)', EndedFits(t)', CookieIsNewest(t)',
         \A c \in Calls \cup Tabs : CallFits(c)'
  PROVE  ClientInvariant'
<1>0. \A s \in Tabs : s = t
  BY DEF OneTab
<1>1. \A s \in Tabs : TabFits(s)'
  BY <1>0 DEF TabFits
<1>2. \A s \in Tabs : SignOutFits(s)'
  BY <1>0 DEF SignOutFits
<1>3. \A s \in Tabs : SignInFits(s)'
  BY <1>0 DEF SignInFits
<1>4. \A s \in Tabs : EndedFits(s)'
  BY <1>0 DEF EndedFits
<1>5. \A s \in Tabs : CookieIsNewest(s)'
  BY <1>0 DEF CookieIsNewest
<1> QED
  BY <1>1, <1>2, <1>3, <1>4, <1>5 DEF ClientInvariant

\* Clearing the session starts a version nobody is signed in to.
LEMMA ClearingStartsAfresh ==
  ASSUME TypeOK, NEW t \in Tabs, Clear(t)
  PROVE  /\ tab'[t].status = "unauthenticated" /\ tab'[t].version = tab[t].version + 1
         /\ cache'[t] = {}
         /\ tab' \in [Tabs -> [status: {"bootstrapping", "authenticated", "unauthenticated"},
                               user: Users \cup {NoUser}, token: Users \cup {NoUser},
                               version: Nat]]
         /\ cache' \in [Tabs -> SUBSET Users]
  BY DEF TypeOK, Clear, Cleared

\* A rotation goes out only when none is on the way, with the cookie of the jar.
LEMMA RefreshFits ==
  ASSUME OneTab, ClientInvariant, NEW t \in Tabs, NEW c \in Calls \cup Tabs,
         tab[t].status # "unauthenticated", Shares(t) \/ jar # NoCookie, Refresh(t, c),
         UNCHANGED <<families, jar, logout, losses>>
  PROVE  /\ rotations' \subseteq Rotation /\ current' \in [Tabs -> Nat \cup {None}]
         /\ current'[t] = tab[t].version
         /\ CookiesAreOwned' /\ RotationsFit' /\ CookieIsNewest(t)'
<1>0. /\ TypeOK /\ CookiesAreOwned /\ RotationsFit /\ TabFits(t) /\ CookieIsNewest(t)
      /\ \A s \in Tabs : s = t
  BY DEF ClientInvariant, OneTab
<1>1. CASE Shares(t)
  <2>1. UNCHANGED <<rotations, current>> /\ current[t] = tab[t].version
    BY <1>1 DEF Refresh, Shares
  <2>2. CookiesAreOwned'
    BY <1>0, <2>1 DEF CookiesAreOwned, Owner
  <2>3. RotationsFit'
    BY <1>0, <2>1 DEF RotationsFit
  <2>4. CookieIsNewest(t)'
    BY <1>0, <2>1 DEF CookieIsNewest
  <2> QED
    BY <1>0, <2>1, <2>2, <2>3, <2>4 DEF TypeOK
<1>2. CASE ~Shares(t)
  <2>1. PICK v \in Nat : v = tab[t].version
    BY <1>0 DEF TypeOK
  <2>2. current[t] = None
    BY <1>0, <1>2 DEF TabFits, Shares
  <2>3. PICK n : n = [tab |-> t, by |-> c, version |-> v, cookie |-> jar,
                      phase |-> "sent", heard |-> TRUE]
    OBVIOUS
  <2>4. rotations' = rotations \cup {n} /\ current' = [current EXCEPT ![t] = v]
    BY <1>2, <2>1, <2>3 DEF Refresh
  <2>5. /\ jar \in [family: Families, generation: Nat] /\ Owner(jar.family) \in Users
    BY <1>0, <1>2, Shapes DEF TypeOK, CookiesAreOwned, Cookie
  <2>6. n \in Rotation
    BY <2>1, <2>3, <2>5 DEF Rotation
  <2>7. \A p \in rotations : ~p.heard /\ p.phase = "sent"
    BY <1>0, <2>2, Shapes DEF TypeOK, RotationsFit, Rotation
  <2>8. /\ n.heard /\ n.tab = t /\ n.version = v /\ n.cookie = jar /\ n.phase = "sent"
    BY <2>3
  <2>9. current'[t] = v
    BY <1>0, <2>4 DEF TypeOK
  <2>10. rotations' \subseteq Rotation /\ current' \in [Tabs -> Nat \cup {None}]
    BY <1>0, <2>4, <2>6 DEF TypeOK
  <2>11. CookiesAreOwned'
    BY <1>0, <2>4, <2>5, <2>8 DEF CookiesAreOwned, Owner
  <2>12. RotationsFit'
    BY <2>4, <2>7, <2>8, <2>9 DEF RotationsFit
  <2>13. CookieIsNewest(t)'
    BY <1>0, <2>4, <2>7, <2>8 DEF CookieIsNewest
  <2> QED
    BY <2>1, <2>9, <2>10, <2>11, <2>12, <2>13
<1> QED
  BY <1>1, <1>2

-----------------------------------------------------------------------------
(* The start of a tab, the requests of its pages and their answers. *)

\* A request that is not of the session of the moment is not current, and stays so.
LEMMA StaleCallsStay ==
  ASSUME OneTab, ClientInvariant, NEW t \in Tabs, NEW d \in Calls \cup Tabs,
         call'[d] = call[d], tab'[t].version \in Nat,
         \/ tab'[t].version > tab[t].version
         \/ tab'[t].version = tab[t].version /\ tab[t].status = "unauthenticated"
  PROVE  CallFits(d)'
<1> SUFFICES ASSUME call[d] # Quiet PROVE CallFits(d)'
  BY DEF CallFits
<1>0. /\ CallFits(d) /\ call[d] \in Request /\ tab[t].version \in Nat
      /\ call[d].tab = t
  BY Shapes DEF ClientInvariant, OneTab, TypeOK, Request
<1>1. call[d].version \in Nat /\ call[d].version <= tab[t].version
  BY <1>0 DEF CallFits, Request
<1>2. tab[t].status = "unauthenticated" => ~Current(d)
  BY <1>0 DEF CallFits, OneTab
<1>3. ~Current(d)' /\ call[d].version <= tab'[t].version
  BY <1>0, <1>1, <1>2 DEF Current
<1> QED
  BY <1>0, <1>3 DEF CallFits

\* A request keeps what it has, as long as the tab stays who it is.
LEMMA SameVersionKeepsCalls ==
  ASSUME OneTab, ClientInvariant, NEW t \in Tabs, NEW d \in Calls \cup Tabs,
         call'[d] = call[d], \A f \in Families : Owner(f) \in Users => Owner(f)' = Owner(f),
         jar' \in {jar, NoCookie} \/ (jar # NoCookie /\ jar'.family = jar.family),
         tab'[t].version = tab[t].version, tab'[t].status = tab[t].status,
         tab'[t].user = tab[t].user,
         current'[t] \in {current[t], None} \/ tab[t].status = "authenticated" \/ d \notin Tabs
  PROVE  CallFits(d)'
<1> SUFFICES ASSUME call[d] # Quiet PROVE CallFits(d)'
  BY DEF CallFits
<1>0. /\ CallFits(d) /\ \A s \in Tabs : s = t /\ call[d].tab = t
  BY Shapes DEF ClientInvariant, OneTab, TypeOK, Request
<1>1. Current(d)' <=> Current(d)
  BY <1>0 DEF Current
<1>2. d \in Tabs => d = t
  BY <1>0
<1>3. \A u : JarIsFor(u) => JarIsFor(u)'
  BY DEF JarIsFor, ClientInvariant, CookiesAreOwned
<1> QED
  BY <1>0, <1>1, <1>2, <1>3 DEF CallFits

\* A tab starts without a session, or by rotating the cookie it finds.
LEMMA BootKeepsInvariant ==
  ASSUME OneTab, ClientInvariant, NEW t \in Tabs, Boot(t)
  PROVE  ClientInvariant'
<1>0. /\ TypeOK /\ CookiesAreOwned /\ RotationsFit /\ TabFits(t)
      /\ SignOutFits(t) /\ SignInFits(t) /\ EndedFits(t) /\ CookieIsNewest(t)
      /\ \A c \in Calls \cup Tabs : CallFits(c)
      /\ tab[t].status = "bootstrapping" /\ call[t] = Quiet
      /\ UNCHANGED <<families, jar, logout, login, refusals, losses, ended>>
      /\ logout[t] = Quiet /\ login[t] = Quiet
      /\ tab[t].version \in Nat /\ current[t] \in {None, tab[t].version}
      /\ None = -1
  BY Shapes DEF ClientInvariant, Boot, TabFits, TypeOK
<1>1. CASE jar = NoCookie
  <2>1. Clear(t) /\ UNCHANGED <<rotations, current, call>>
    BY <1>1 DEF Boot
  <2>2. /\ tab'[t].status = "unauthenticated" /\ tab'[t].version = tab[t].version + 1
        /\ cache'[t] = {}
        /\ tab' \in [Tabs -> [status: {"bootstrapping", "authenticated", "unauthenticated"},
                              user: Users \cup {NoUser}, token: Users \cup {NoUser},
                              version: Nat]]
        /\ cache' \in [Tabs -> SUBSET Users]
    BY <1>0, <2>1, ClearingStartsAfresh
  <2>3. TypeOK'
    BY <1>0, <2>1, <2>2 DEF TypeOK
  <2>4. CookiesAreOwned' /\ RotationsFit' /\ CookieIsNewest(t)'
    BY <1>0, <2>1 DEF CookiesAreOwned, RotationsFit, CookieIsNewest, Owner
  <2>5. TabFits(t)'
    BY <1>0, <2>1, <2>2 DEF TabFits
  <2>6. SignOutFits(t)' /\ SignInFits(t)'
    BY <1>0 DEF SignOutFits, SignInFits
  <2>7. EndedFits(t)'
    BY <1>0, <2>2 DEF EndedFits, Owner
  <2>8. \A c \in Calls \cup Tabs : CallFits(c)'
    BY <1>0, <2>1, <2>2, StaleCallsStay
  <2> QED
    BY <2>3, <2>4, <2>5, <2>6, <2>7, <2>8, OneTabIsEnough
<1>2. CASE jar # NoCookie
  <2>1. PICK v \in Nat : v = tab[t].version
    BY <1>0
  <2>2. PICK n : n = [phase |-> "waiting", tab |-> t, version |-> v,
                      user |-> NoUser, bearer |-> NoUser, retried |-> FALSE]
    OBVIOUS
  <2>3. /\ Refresh(t, t) /\ call' = [call EXCEPT ![t] = n] /\ UNCHANGED <<tab, cache>>
    BY <1>2, <2>1, <2>2 DEF Boot
  <2>4. /\ rotations' \subseteq Rotation /\ current' \in [Tabs -> Nat \cup {None}]
        /\ current'[t] = v
        /\ CookiesAreOwned' /\ RotationsFit' /\ CookieIsNewest(t)'
    BY <1>0, <1>2, <2>1, <2>3, RefreshFits
  <2>5. n \in Request /\ n # Quiet /\ n.phase = "waiting" /\ n.tab = t /\ n.version = v
        /\ n.user = NoUser
    BY <2>2, Shapes DEF Request, Quiet
  <2>6. TypeOK'
    BY <1>0, <2>3, <2>4, <2>5 DEF TypeOK
  <2>7. TabFits(t)'
    BY <1>0, <2>1, <2>3, <2>4 DEF TabFits
  <2>8. SignOutFits(t)' /\ SignInFits(t)'
    BY <1>0 DEF SignOutFits, SignInFits
  <2>9. EndedFits(t)'
    BY <1>0, <1>2 DEF EndedFits
  <2>10. call'[t] = n /\ \A d \in (Calls \cup Tabs) \ {t} : call'[d] = call[d]
    BY <1>0, <2>3 DEF TypeOK
  <2>11. CallFits(t)'
    BY <1>0, <2>1, <2>3, <2>5, <2>10 DEF CallFits
  <2>12. ASSUME NEW d \in Calls \cup Tabs, d # t PROVE CallFits(d)'
    BY <1>0, <2>3, <2>10, <2>12 DEF CallFits, Current, OneTab
  <2> QED
    BY <2>4, <2>6, <2>7, <2>8, <2>9, <2>11, <2>12, OneTabIsEnough
<1> QED
  BY <1>1, <1>2

\* What a request says of its tab, and what it says of the session.
LEMMA CallFacts ==
  ASSUME OneTab, ClientInvariant, NEW t \in Tabs, NEW c \in Calls \cup Tabs, call[c] # Quiet
  PROVE  /\ call[c] \in Request /\ call[c].tab = t /\ CallFits(c)
         /\ call[c].version \in Nat /\ tab[t].version \in Nat
         /\ c \in Tabs => c = t
         /\ Current(c) <=> call[c].version = tab[t].version
  BY Shapes DEF ClientInvariant, OneTab, TypeOK, Request, Current

\* Every part of the invariant, at hand.
LEMMA Parts ==
  ASSUME ClientInvariant, NEW t \in Tabs
  PROVE  /\ TypeOK /\ CookiesAreOwned /\ RotationsFit /\ TabFits(t)
         /\ SignOutFits(t) /\ SignInFits(t) /\ EndedFits(t) /\ CookieIsNewest(t)
         /\ tab[t].version \in Nat
         /\ \A c \in Calls \cup Tabs : CallFits(c)
  BY DEF ClientInvariant, TypeOK

\* Steps that only touch requests leave the session as it is.
LEMMA CallsAlone ==
  ASSUME OneTab, ClientInvariant, NEW t \in Tabs, NEW c \in Calls \cup Tabs,
         NEW new \in Request \cup {Quiet}, call' = [call EXCEPT ![c] = new],
         UNCHANGED <<families, jar, tab, cache, rotations, current, logout, login, ended>>,
         refusals' \in 0..MaxRefusals, losses' \in 0..MaxLosses, losses = 0 \/ losses' # 0,
         c = t => new = Quiet \/ call[t] # Quiet,
         CallFits(c)'
  PROVE  ClientInvariant'
<1>0. /\ TypeOK /\ CookiesAreOwned /\ RotationsFit /\ TabFits(t)
      /\ SignOutFits(t) /\ SignInFits(t) /\ EndedFits(t) /\ CookieIsNewest(t)
  BY Parts
<1>1. TypeOK'
  BY <1>0 DEF TypeOK
<1>2. CookiesAreOwned' /\ RotationsFit'
  BY <1>0 DEF CookiesAreOwned, RotationsFit, Owner
<1>3. TabFits(t)' /\ SignOutFits(t)'
  BY <1>0 DEF TabFits, SignOutFits, JarIsFor, Owner
<1>4. SignInFits(t)' /\ CookieIsNewest(t)'
  BY <1>0 DEF SignInFits, CookieIsNewest, Owner
<1>5. call'[c] = new /\ \A d \in (Calls \cup Tabs) \ {c} : call'[d] = call[d]
  BY <1>0 DEF TypeOK
<1>6. EndedFits(t)'
  BY <1>0, <1>5 DEF EndedFits, Owner
<1>7. \A d \in (Calls \cup Tabs) \ {c} : CallFits(d)'
  BY <1>5, SameVersionKeepsCalls DEF Owner
<1> QED
  BY <1>1, <1>2, <1>3, <1>4, <1>6, <1>7, OneTabIsEnough

\* A page's request is drawn for the account the tab shows.
LEMMA AskKeepsInvariant ==
  ASSUME ConstantsAreValid, OneTab, ClientInvariant, NEW t \in Tabs, NEW c \in Calls, Ask(t, c)
  PROVE  ClientInvariant'
<1>0. TypeOK /\ tab[t].status = "authenticated" /\ c \notin Tabs
  BY Parts DEF Ask, ConstantsAreValid
<1>1. PICK v \in Nat, u \in Users \cup {NoUser} : v = tab[t].version /\ u = tab[t].user
  BY <1>0 DEF TypeOK
<1>2. PICK n : n = [phase |-> "queued", tab |-> t, version |-> v,
                    user |-> u, bearer |-> NoUser, retried |-> FALSE]
  OBVIOUS
<1>3. n \in Request /\ n.phase = "queued" /\ n.tab = t /\ n.version = v /\ n.user = u
  BY <1>2 DEF Request
<1>4. /\ call' = [call EXCEPT ![c] = n]
      /\ UNCHANGED <<families, jar, tab, cache, rotations, current, logout, login,
                     refusals, losses, ended>>
  BY <1>1, <1>2 DEF Ask
<1>5. call'[c] = n
  BY <1>0, <1>4 DEF TypeOK
<1>6. CallFits(c)'
  BY <1>0, <1>1, <1>3, <1>4, <1>5 DEF CallFits
<1> QED
  BY <1>0, <1>3, <1>4, <1>6, CallsAlone DEF TypeOK

\* It goes out with the token of that account, or not at all.
LEMMA SendKeepsInvariant ==
  ASSUME OneTab, ClientInvariant, NEW t \in Tabs, NEW c \in Calls \cup Tabs, Send(c)
  PROVE  ClientInvariant'
<1>0. /\ TypeOK /\ TabFits(t) /\ call[c].phase = "queued" /\ call[c] # Quiet
      /\ UNCHANGED <<families, jar, tab, cache, rotations, current, logout, login,
                     refusals, losses, ended>>
      /\ refusals' \in 0..MaxRefusals /\ losses' \in 0..MaxLosses
  BY Parts, Shapes DEF Send, TypeOK
<1>1. /\ call[c] \in Request /\ call[c].tab = t /\ CallFits(c)
      /\ c \notin Tabs
  BY <1>0, CallFacts DEF CallFits
<1>2. CASE ~Current(c)
  <2>1. call' = [call EXCEPT ![c] = Quiet]
    BY <1>0, <1>2 DEF Send, Drop
  <2>2. CallFits(c)'
    BY <1>0, <2>1 DEF CallFits, TypeOK
  <2> QED
    BY <1>0, <1>1, <2>1, <2>2, CallsAlone
<1>3. CASE Current(c)
  <2>1. PICK old \in Request, b \in Users \cup {NoUser} : old = call[c] /\ b = tab[t].token
    BY <1>0, <1>1 DEF TypeOK
  <2>2. PICK n : n = [old EXCEPT !.phase = "flying", !.bearer = b]
    OBVIOUS
  <2>3. /\ n \in Request /\ n.phase = "flying" /\ n.bearer = b
        /\ n.user = old.user /\ n.version = old.version /\ n.tab = old.tab
    BY <2>2 DEF Request
  <2>4. call' = [call EXCEPT ![c] = n] /\ call'[c] = n
    BY <1>0, <1>1, <1>3, <2>1, <2>2 DEF Send, TypeOK, Request
  <2>5. /\ tab[t].status = "authenticated" /\ tab[t].user = old.user
        /\ b = old.user /\ old.user \in Users
        /\ old.version <= tab[t].version
    BY <1>0, <1>1, <1>3, <2>1 DEF CallFits, TabFits
  <2>6. CallFits(c)'
    BY <1>0, <1>1, <2>1, <2>3, <2>4, <2>5 DEF CallFits
  <2> QED
    BY <1>0, <1>1, <2>3, <2>4, <2>6, CallsAlone
<1> QED
  BY <1>2, <1>3

\* Giving the session up, with nothing of it on the way but a rotation.
LEMMA GivingUpKeepsInvariant ==
  ASSUME OneTab, ClientInvariant, NEW t \in Tabs, Clear(t),
         tab[t].status # "unauthenticated",
         UNCHANGED <<families, jar, rotations, current, logout, login, ended>>,
         refusals' \in 0..MaxRefusals, losses' \in 0..MaxLosses, losses = 0 \/ losses' # 0,
         call' \in [Calls \cup Tabs -> Request \cup {Quiet}],
         \A d \in Calls \cup Tabs : call'[d] \in {call[d], Quiet}
  PROVE  ClientInvariant'
<1>0. /\ TypeOK /\ CookiesAreOwned /\ RotationsFit /\ TabFits(t)
      /\ SignOutFits(t) /\ SignInFits(t) /\ EndedFits(t) /\ CookieIsNewest(t)
      /\ tab[t].version \in Nat
  BY Parts
<1>1. /\ tab'[t].status = "unauthenticated" /\ tab'[t].version = tab[t].version + 1
      /\ cache'[t] = {}
      /\ tab' \in [Tabs -> [status: {"bootstrapping", "authenticated", "unauthenticated"},
                            user: Users \cup {NoUser}, token: Users \cup {NoUser},
                            version: Nat]]
      /\ cache' \in [Tabs -> SUBSET Users]
  BY <1>0, ClearingStartsAfresh
<1>2. TypeOK'
  BY <1>0, <1>1 DEF TypeOK
<1>3. CookiesAreOwned' /\ RotationsFit' /\ CookieIsNewest(t)'
  BY <1>0 DEF CookiesAreOwned, RotationsFit, CookieIsNewest, Owner
<1>4. TabFits(t)'
  BY <1>0, <1>1, Shapes DEF TabFits
<1>5. SignOutFits(t)' /\ SignInFits(t)'
  BY <1>0 DEF SignOutFits, SignInFits, TabFits
<1>6. EndedFits(t)'
  BY <1>0, <1>1 DEF EndedFits, Owner
<1>7. ASSUME NEW d \in Calls \cup Tabs PROVE CallFits(d)'
  <2>1. CASE call'[d] = Quiet
    BY <2>1 DEF CallFits
  <2>2. CASE call'[d] = call[d]
    BY <1>0, <1>1, <2>2, StaleCallsStay
  <2> QED
    BY <2>1, <2>2
<1> QED
  BY <1>2, <1>3, <1>4, <1>5, <1>6, <1>7, OneTabIsEnough

\* An answer of /auth/me signs the tab in; that of a page fills the cache.
LEMMA SucceedKeepsInvariant ==
  ASSUME ConstantsAreValid, OneTab, ClientInvariant, NEW t \in Tabs,
         NEW c \in Calls \cup Tabs, Succeed(c)
  PROVE  ClientInvariant'
<1>0. /\ TypeOK /\ CookiesAreOwned /\ RotationsFit /\ TabFits(t)
      /\ SignOutFits(t) /\ SignInFits(t) /\ EndedFits(t) /\ CookieIsNewest(t)
      /\ tab[t].version \in Nat
      /\ call[c].phase = "flying" /\ call[c] # Quiet
      /\ call' = [call EXCEPT ![c] = Quiet]
      /\ UNCHANGED <<families, jar, rotations, current, logout, login, refusals, losses, ended>>
  BY Parts, Shapes DEF Succeed, Drop
<1>1. /\ call[c] \in Request /\ call[c].tab = t /\ CallFits(c) /\ (c \in Tabs => c = t)
  BY <1>0, CallFacts
<1>2. PICK u \in Users : call[c].user = u /\ call[c].bearer = u
  BY <1>0, <1>1 DEF CallFits
<1>3. /\ call'[c] = Quiet /\ \A d \in (Calls \cup Tabs) \ {c} : call'[d] = call[d]
      /\ call' \in [Calls \cup Tabs -> Request \cup {Quiet}]
      /\ CallFits(c)'
  BY <1>0 DEF TypeOK, CallFits
<1>4. CookiesAreOwned' /\ RotationsFit' /\ CookieIsNewest(t)'
  BY <1>0 DEF CookiesAreOwned, RotationsFit, CookieIsNewest, Owner
<1>5. CASE ~Current(c)
  <2>1. UNCHANGED <<tab, cache>>
    BY <1>0, <1>1, <1>5 DEF Succeed
  <2> QED
    BY <1>0, <1>1, <1>3, <2>1, CallsAlone DEF TypeOK
<1>6. CASE Current(c) /\ c \in Tabs
  <2>1. /\ tab[t].status = "bootstrapping" /\ JarIsFor(u) /\ current[t] = None
        /\ cache[t] = {} /\ logout[t] = Quiet /\ login[t] = Quiet /\ u # NoUser
    BY <1>0, <1>1, <1>2, <1>6 DEF CallFits, TabFits, ConstantsAreValid
  <2>2. tab' = [tab EXCEPT ![t] = Authenticated(@, u, u)] /\ UNCHANGED cache
    BY <1>1, <1>2, <1>6 DEF Succeed
  <2>3. /\ tab'[t].status = "authenticated" /\ tab'[t].user = u /\ tab'[t].token = u
        /\ tab'[t].version = tab[t].version + 1
        /\ tab' \in [Tabs -> [status: {"bootstrapping", "authenticated", "unauthenticated"},
                              user: Users \cup {NoUser}, token: Users \cup {NoUser},
                              version: Nat]]
    BY <1>0, <2>2 DEF TypeOK, Authenticated
  <2>4. TypeOK'
    BY <1>0, <1>3, <2>2, <2>3 DEF TypeOK
  <2>5. TabFits(t)'
    BY <1>0, <2>1, <2>2, <2>3 DEF TabFits, JarIsFor, Owner
  <2>6. SignOutFits(t)' /\ SignInFits(t)'
    BY <1>0, <2>1 DEF SignOutFits, SignInFits
  <2>7. EndedFits(t)'
    BY <1>0, <1>1, <1>6, <2>1 DEF EndedFits
  <2>8. \A d \in (Calls \cup Tabs) \ {c} : CallFits(d)'
    BY <1>0, <1>3, <2>3, StaleCallsStay
  <2> QED
    BY <1>3, <1>4, <2>4, <2>5, <2>6, <2>7, <2>8, OneTabIsEnough
<1>7. CASE Current(c) /\ c \notin Tabs
  <2>1. tab[t].status = "authenticated" /\ tab[t].user = u
    BY <1>0, <1>1, <1>2, <1>7 DEF CallFits
  <2>2. cache' = [cache EXCEPT ![t] = @ \cup {u}] /\ UNCHANGED tab
    BY <1>1, <1>2, <1>7 DEF Succeed
  <2>3. TypeOK' /\ cache'[t] = cache[t] \cup {u}
    BY <1>0, <1>3, <2>2 DEF TypeOK
  <2>4. TabFits(t)'
    BY <1>0, <2>1, <2>2, <2>3 DEF TabFits, JarIsFor, Owner
  <2>5. SignOutFits(t)' /\ SignInFits(t)'
    BY <1>0, <2>2 DEF SignOutFits, SignInFits, Owner
  <2>6. EndedFits(t)'
    BY <1>0, <2>1, <2>2 DEF EndedFits
  <2>7. \A d \in (Calls \cup Tabs) \ {c} : CallFits(d)'
    BY <1>0, <1>3, <2>2, SameVersionKeepsCalls DEF Owner
  <2> QED
    BY <1>3, <1>4, <2>3, <2>4, <2>5, <2>6, <2>7, OneTabIsEnough
<1> QED
  BY <1>5, <1>6, <1>7

\* Only the start of a tab gives up on an answer that does not come.
LEMMA FailKeepsInvariant ==
  ASSUME ConstantsAreValid, OneTab, ClientInvariant, NEW t \in Tabs,
         NEW c \in Calls \cup Tabs, Fail(c)
  PROVE  ClientInvariant'
<1>0. /\ TypeOK /\ call[c].phase = "flying" /\ call[c] # Quiet
      /\ call' = [call EXCEPT ![c] = Quiet]
      /\ UNCHANGED <<families, jar, rotations, current, logout, login, refusals, ended>>
      /\ losses' \in 0..MaxLosses /\ losses' # 0 /\ refusals' \in 0..MaxRefusals
  <2>1. refusals \in 0..MaxRefusals /\ losses \in 0..MaxLosses
    BY Parts DEF TypeOK
  <2>2. refusals' \in 0..MaxRefusals /\ losses' \in 0..MaxLosses /\ losses' # 0
    BY <2>1 DEF Fail, ConstantsAreValid
  <2>3. /\ call[c].phase = "flying" /\ call' = [call EXCEPT ![c] = Quiet]
        /\ UNCHANGED <<families, jar, rotations, current, logout, login, refusals, ended>>
    BY DEF Fail, Drop
  <2>4. call[c] # Quiet
    BY <2>3, Parts, Shapes
  <2> QED
    BY <2>2, <2>3, <2>4, Parts
<1>1. /\ call'[c] = Quiet /\ \A d \in (Calls \cup Tabs) \ {c} : call'[d] = call[d]
      /\ call' \in [Calls \cup Tabs -> Request \cup {Quiet}]
      /\ CallFits(c)'
  BY <1>0 DEF TypeOK, CallFits
<1>2. CASE c \in Tabs /\ Current(c)
  <2>1. c = t /\ Clear(t) /\ tab[t].status # "unauthenticated"
    BY <1>0, <1>2, CallFacts DEF CallFits, Fail
  <2> QED
    BY <1>0, <1>1, <2>1, GivingUpKeepsInvariant
<1>3. CASE ~(c \in Tabs /\ Current(c))
  <2>1. UNCHANGED <<tab, cache>>
    BY <1>3 DEF Fail
  <2> QED
    BY <1>0, <1>1, <2>1, CallsAlone
<1> QED
  BY <1>2, <1>3

\* A refused bearer waits once for a rotation, and then ends the session.
LEMMA UnauthorizedKeepsInvariant ==
  ASSUME ConstantsAreValid, OneTab, ClientInvariant, NEW t \in Tabs,
         NEW c \in Calls \cup Tabs, Unauthorized(c)
  PROVE  ClientInvariant'
<1>0. /\ TypeOK /\ CookiesAreOwned /\ RotationsFit /\ TabFits(t)
      /\ SignOutFits(t) /\ SignInFits(t) /\ EndedFits(t) /\ CookieIsNewest(t)
      /\ call[c].phase = "flying" /\ call[c] # Quiet
      /\ UNCHANGED <<families, jar, logout, login, losses, ended>>
      /\ losses' \in 0..MaxLosses /\ losses' = losses /\ refusals' \in 0..MaxRefusals
  <2>1. refusals \in 0..MaxRefusals /\ losses \in 0..MaxLosses
    BY Parts DEF TypeOK
  <2>2. refusals' \in 0..MaxRefusals /\ losses' \in 0..MaxLosses /\ losses' = losses
    BY <2>1 DEF Unauthorized, ConstantsAreValid
  <2>3. call[c].phase = "flying" /\ UNCHANGED <<families, jar, logout, login, losses, ended>>
    BY DEF Unauthorized
  <2>4. call[c] # Quiet
    BY <2>3, Parts, Shapes
  <2> QED
    BY <2>2, <2>3, <2>4, Parts
<1>1. /\ call[c] \in Request /\ call[c].tab = t /\ CallFits(c) /\ (c \in Tabs => c = t)
      /\ (Current(c) <=> call[c].version = tab[t].version)
  BY <1>0, CallFacts
<1>2. CASE call' = [call EXCEPT ![c] = Quiet] /\ UNCHANGED <<tab, cache, rotations, current>>
  <2>1. CallFits(c)'
    BY <1>0, <1>2 DEF TypeOK, CallFits
  <2> QED
    BY <1>0, <1>2, <2>1, CallsAlone
<1>3. CASE Current(c) /\ Clear(t) /\ call' = [call EXCEPT ![c] = Quiet]
           /\ UNCHANGED <<rotations, current>>
  <2>1. tab[t].status # "unauthenticated"
    BY <1>0, <1>1, <1>3 DEF CallFits
  <2>2. /\ call' \in [Calls \cup Tabs -> Request \cup {Quiet}]
        /\ \A d \in Calls \cup Tabs : call'[d] \in {call[d], Quiet}
    BY <1>0, <1>3 DEF TypeOK
  <2> QED
    BY <1>0, <1>3, <2>1, <2>2, GivingUpKeepsInvariant
<1>4. CASE /\ Current(c) /\ ~GivesUp(c) /\ Refresh(t, c)
           /\ call' = [call EXCEPT ![c].phase = "waiting", ![c].retried = TRUE]
           /\ UNCHANGED <<tab, cache>>
  <2>1. PICK old \in Request : old = call[c]
    BY <1>1
  <2>2. PICK n : n = [old EXCEPT !.phase = "waiting", !.retried = TRUE]
    OBVIOUS
  <2>3. /\ n \in Request /\ n.phase = "waiting"
        /\ n.user = old.user /\ n.version = old.version /\ n.tab = t
    BY <1>1, <2>1, <2>2 DEF Request
  <2>4. /\ call' = [call EXCEPT ![c] = n] /\ call'[c] = n
        /\ \A d \in (Calls \cup Tabs) \ {c} : call'[d] = call[d]
        /\ call' \in [Calls \cup Tabs -> Request \cup {Quiet}]
    BY <1>0, <1>4, <2>1, <2>2, <2>3 DEF TypeOK, Request
  <2>5. tab[t].status # "unauthenticated" /\ (Shares(t) \/ jar # NoCookie)
    BY <1>0, <1>1, <1>4 DEF CallFits, GivesUp
  <2>6. /\ rotations' \subseteq Rotation /\ current' \in [Tabs -> Nat \cup {None}]
        /\ current'[t] = tab[t].version
        /\ CookiesAreOwned' /\ RotationsFit' /\ CookieIsNewest(t)'
    BY <1>0, <1>4, <2>5, RefreshFits
  <2>7. TypeOK'
    BY <1>0, <1>4, <2>4, <2>6 DEF TypeOK
  <2>8. TabFits(t)'
    BY <1>0, <1>4, <2>5, <2>6 DEF TabFits, JarIsFor, Owner
  <2>9. SignOutFits(t)' /\ SignInFits(t)'
    BY <1>0, <2>5 DEF SignOutFits, SignInFits
  <2>10. EndedFits(t)'
    BY <1>0, <1>1, <1>4, <2>4 DEF EndedFits, CallFits, Owner
  <2>11. CallFits(c)'
    BY <1>0, <1>1, <1>4, <2>1, <2>3, <2>4 DEF CallFits, JarIsFor, Owner
  <2>12. \A d \in (Calls \cup Tabs) \ {c} : CallFits(d)'
    <3>1. ASSUME NEW d \in (Calls \cup Tabs) \ {c} PROVE tab[t].status = "authenticated" \/ d \notin Tabs
      BY <1>0, <1>1, <1>4, <3>1 DEF CallFits, OneTab
    <3> QED
      BY <1>0, <1>4, <2>4, <3>1, SameVersionKeepsCalls DEF Owner
  <2> QED
    BY <2>6, <2>7, <2>8, <2>9, <2>10, <2>11, <2>12, OneTabIsEnough
<1> QED
  BY <1>1, <1>2, <1>3, <1>4 DEF Unauthorized, Drop

-----------------------------------------------------------------------------
(* The rotation of the cookies. *)

\* A rotation that will be heard is the only one, and nothing else is on the way.
LEMMA HeardRotation ==
  ASSUME OneTab, ClientInvariant, NEW t \in Tabs, NEW p \in rotations, p.heard
  PROVE  /\ p \in Rotation /\ p.tab = t /\ p.version \in Nat /\ p.cookie = jar
         /\ current[t] = p.version /\ jar # NoCookie /\ jar.family \in Families
         /\ p.cookie.family \in Families /\ Owner(jar.family) \in Users
         /\ logout[t] # Quiet => logout[t].phase = "waiting" /\ logout[t].awaits = p.version
         /\ login[t] # Quiet => login[t].phase = "settling"
         /\ ended[t] = {}
         /\ \A q \in rotations \ {p} : ~q.heard /\ q.phase = "sent"
         /\ tab[t].status # "unauthenticated" <=> tab[t].version = p.version
<1>1. /\ p \in Rotation /\ p.tab = t /\ p.version \in Nat /\ p.cookie = jar
      /\ current[t] = p.version /\ p.cookie.family \in Families
      /\ \A q \in rotations \ {p} : ~q.heard /\ q.phase = "sent"
      /\ Owner(p.cookie.family) \in Users
  BY DEF ClientInvariant, OneTab, TypeOK, RotationsFit, Rotation, CookiesAreOwned
<1>2. jar # NoCookie
  BY <1>1, Shapes DEF ClientInvariant
<1>3. current[t] # None
  BY <1>1, Shapes DEF ClientInvariant
<1>4. logout[t] # Quiet => logout[t].phase = "waiting" /\ logout[t].awaits = p.version
  BY <1>1, <1>3 DEF ClientInvariant, SignOutFits
<1>5. login[t] # Quiet => login[t].phase = "settling"
  BY <1>3 DEF ClientInvariant, SignInFits
<1>6. ended[t] = {}
  BY <1>2 DEF ClientInvariant, EndedFits
<1>7. tab[t].status # "unauthenticated" <=> tab[t].version = p.version
  BY <1>1, <1>3, Parts DEF TabFits
<1> QED
  BY <1>1, <1>2, <1>4, <1>5, <1>6, <1>7

\* The server takes each cookie once, and closes the family of a replay.
LEMMA ServeRotationKeepsInvariant ==
  ASSUME OneTab, ClientInvariant, NEW t \in Tabs, NEW p \in rotations, ServeRotation(p)
  PROVE  ClientInvariant'
<1>0. /\ TypeOK /\ CookiesAreOwned /\ RotationsFit /\ TabFits(t)
      /\ SignOutFits(t) /\ SignInFits(t) /\ EndedFits(t) /\ CookieIsNewest(t)
      /\ p \in Rotation /\ p.phase = "sent"
      /\ UNCHANGED <<jar, tab, cache, current, logout, login, call, refusals, losses, ended>>
  BY Parts DEF ServeRotation, TypeOK
<1>1. PICK f \in Families : f = p.cookie.family
  BY <1>0 DEF Rotation
<1> DEFINE Fresh == families[f].open /\ families[f].newest = p.cookie.generation
<1>2. families' = IF Fresh THEN [families EXCEPT ![f].newest = @ + 1]
                  ELSE [families EXCEPT ![f].open = FALSE, ![f].replayed = TRUE]
  BY <1>1 DEF ServeRotation
<1>3. PICK n : n = [p EXCEPT !.phase = IF Fresh THEN "granted" ELSE "refused"]
  OBVIOUS
<1>4. /\ n \in Rotation /\ n.tab = p.tab /\ n.version = p.version /\ n.cookie = p.cookie
      /\ n.heard = p.heard /\ n.phase = IF Fresh THEN "granted" ELSE "refused"
  BY <1>0, <1>3 DEF Rotation
<1>5. rotations' = (rotations \ {p}) \cup (IF ~p.heard THEN {} ELSE {n})
  BY <1>1, <1>3 DEF ServeRotation
<1>6. /\ families' \in [Families -> [owner: Users \cup {NoUser}, newest: Nat,
                                     open: BOOLEAN, replayed: BOOLEAN]]
      /\ \A g \in Families : /\ Owner(g)' = Owner(g)
                             /\ families'[g].open => families[g].open
      /\ ~Fresh => ~families'[f].open
      /\ Fresh => /\ families'[f].open /\ families'[f].newest = families[f].newest + 1
                  /\ \A g \in Families : families'[g].replayed = families[g].replayed
  <2>1. CASE Fresh
    <3>1. families' = [families EXCEPT ![f].newest = @ + 1]
      BY <1>2, <2>1
    <3> QED
      BY <1>0, <2>1, <3>1 DEF TypeOK, Owner
  <2>2. CASE ~Fresh
    <3>1. families' = [families EXCEPT ![f].open = FALSE, ![f].replayed = TRUE]
      BY <1>2, <2>2
    <3>2. /\ families' \in [Families -> [owner: Users \cup {NoUser}, newest: Nat,
                                         open: BOOLEAN, replayed: BOOLEAN]]
          /\ \A g \in Families : /\ families'[g].owner = families[g].owner
                                 /\ families'[g].open => families[g].open
          /\ ~families'[f].open
      BY <1>0, <3>1 DEF TypeOK
    <3> HIDE DEF Fresh
    <3> QED
      BY <2>2, <3>2 DEF Owner
  <2> QED
    BY <2>1, <2>2
<1>7. TypeOK'
  BY <1>0, <1>4, <1>5, <1>6 DEF TypeOK
<1>8. CookiesAreOwned'
  BY <1>0, <1>4, <1>5, <1>6 DEF CookiesAreOwned, TypeOK, Rotation
<1>9. RotationsFit'
  <2>1. CASE p.heard
    <3>1. rotations' = (rotations \ {p}) \cup {n}
      BY <1>5, <2>1
    <3>2. /\ \A q \in rotations \ {p} : ~q.heard /\ q.phase = "sent"
          /\ p.cookie = jar /\ current[p.tab] = p.version
      BY <2>1, HeardRotation, <1>0 DEF RotationsFit
    <3>3. n.phase = "refused" => ~families'[n.cookie.family].open
      BY <1>1, <1>4, <1>6
    <3> QED
      BY <1>0, <1>4, <2>1, <3>1, <3>2, <3>3 DEF RotationsFit
  <2>2. CASE ~p.heard
    <3>1. rotations' = rotations \ {p}
      BY <1>5, <2>2
    <3>2. \A q \in rotations : q.cookie.family \in Families
      BY <1>0 DEF TypeOK, Rotation
    <3> QED
      BY <1>0, <1>6, <3>1, <3>2 DEF RotationsFit
  <2> QED
    BY <2>1, <2>2
<1>10. TabFits(t)'
  BY <1>0, <1>6 DEF TabFits, JarIsFor
<1>11. SignOutFits(t)'
  <2>1. logout[t] # Quiet => logout[t].covers \subseteq Families
    BY <1>0, Shapes DEF SignOut
  <2> QED
    BY <1>0, <1>6, <2>1 DEF SignOutFits
<1>12. SignInFits(t)'
  <2>1. login[t] # Quiet /\ login[t].phase = "granted" => losses # 0
    <3> SUFFICES ASSUME login[t] # Quiet, login[t].phase = "granted", losses = 0 PROVE FALSE
      OBVIOUS
    <3>1. p.heard
      BY <1>0 DEF CookieIsNewest
    <3> QED
      BY <3>1, HeardRotation
  <2> QED
    BY <1>0, <1>6, <2>1 DEF SignInFits
<1>13. EndedFits(t)'
  <2>1. ended[t] \subseteq Families
    BY <1>0 DEF TypeOK
  <2> QED
    BY <1>0, <1>6, <2>1 DEF EndedFits
<1>14. CookieIsNewest(t)'
  <2> SUFFICES ASSUME losses = 0 PROVE CookieIsNewest(t)'
    BY <1>0 DEF CookieIsNewest
  <2>1. p.heard
    BY <1>0 DEF CookieIsNewest
  <2>2. /\ p.cookie = jar /\ jar # NoCookie /\ \A q \in rotations \ {p} : ~q.heard
        /\ logout[t] # Quiet => logout[t].phase = "waiting"
    BY <2>1, HeardRotation
  <2>3. rotations = {p}
    BY <1>0, <2>2 DEF CookieIsNewest
  <2>4. /\ families[f].open /\ families[f].newest = jar.generation
    BY <1>0, <1>1, <2>2, <2>3 DEF CookieIsNewest
  <2>5. Fresh
    BY <2>2, <2>4
  <2>6. rotations' = {n} /\ n.heard /\ n.phase = "granted"
    BY <1>4, <1>5, <2>1, <2>3, <2>5
  <2>7. \A g \in Families : ~families'[g].replayed
    BY <1>0, <1>6, <2>5 DEF CookieIsNewest
  <2>8. families'[f].open /\ families'[f].newest = jar.generation + 1
    BY <1>6, <2>4, <2>5
  <2> HIDE DEF Fresh
  <2> QED
    BY <1>0, <1>1, <2>2, <2>6, <2>7, <2>8 DEF CookieIsNewest
<1>15. \A c \in Calls \cup Tabs : CallFits(c)'
  BY <1>0, <1>6, SameVersionKeepsCalls
<1> QED
  BY <1>7, <1>8, <1>9, <1>10, <1>11, <1>12, <1>13, <1>14, <1>15, OneTabIsEnough

\* What the promise of a rotation settles: nothing of the session waits any more, and
\* the token it brings is that of the account the tab shows.
LEMMA SettlingFits ==
  ASSUME ConstantsAreValid, OneTab, ClientInvariant, NEW t \in Tabs, NEW p \in rotations,
         p.heard, NEW g \in BOOLEAN, Settle(p, g), families' = families, ended' = ended,
         jar' \in Cookie, jar' = NoCookie \/ jar'.family = jar.family,
         jar' = NoCookie => ~families[jar.family].open
  PROVE  /\ tab' \in [Tabs -> [status: {"bootstrapping", "authenticated", "unauthenticated"},
                               user: Users \cup {NoUser}, token: Users \cup {NoUser},
                               version: Nat]]
         /\ cache' \in [Tabs -> SUBSET Users]
         /\ current' \in [Tabs -> Nat \cup {None}] /\ current'[t] = None
         /\ logout' \in [Tabs -> SignOut \cup {Quiet}]
         /\ login' \in [Tabs -> SignIn \cup {Quiet}]
         /\ call' \in [Calls \cup Tabs -> Request \cup {Quiet}]
         /\ TabFits(t)' /\ SignOutFits(t)' /\ SignInFits(t)' /\ EndedFits(t)'
         /\ \A c \in Calls \cup Tabs : CallFits(c)'
<1>0. /\ TypeOK /\ CookiesAreOwned /\ TabFits(t) /\ SignOutFits(t) /\ SignInFits(t)
      /\ EndedFits(t) /\ None = -1 /\ Quiet.phase = "none"
      /\ tab[t].version \in Nat
  BY Parts, Shapes
<1>1. PICK f \in Families, v \in Nat, w \in Users :
          f = p.cookie.family /\ v = p.version /\ w = Owner(f)
  BY HeardRotation
<1>2. /\ p.tab = t /\ current[t] = v /\ jar # NoCookie /\ jar.family = f
      /\ logout[t] # Quiet => logout[t].phase = "waiting" /\ logout[t].awaits = v
      /\ login[t] # Quiet => login[t].phase = "settling"
      /\ ended[t] = {}
      /\ tab[t].status # "unauthenticated" <=> tab[t].version = v
  BY <1>1, HeardRotation
<1> DEFINE accepted == g /\ tab[t].version = v
           Waits(c) == call[c].phase = "waiting" /\ call[c].tab = t /\ call[c].version = v
<1>3. /\ IF accepted THEN tab' = [tab EXCEPT ![t].token = w] /\ cache' = cache
         ELSE IF tab[t].version = v THEN Clear(t) ELSE UNCHANGED <<tab, cache>>
      /\ call' = [c \in DOMAIN call |->
              IF ~Waits(c) THEN call[c]
              ELSE IF ~accepted THEN Quiet
              ELSE [call[c] EXCEPT !.phase = "flying", !.bearer = w,
                                   !.user = IF c = t /\ @ = NoUser THEN w ELSE @]]
      /\ current' = [current EXCEPT ![t] = None]
      /\ logout' = [logout EXCEPT ![t] =
              IF @.phase = "waiting" /\ @.awaits = v THEN Revoke(@, jar') ELSE @]
      /\ login' = [login EXCEPT ![t] =
              IF @.phase = "settling" /\ @.awaits = v THEN Post(@, tab'[t].version) ELSE @]
  BY <1>1, <1>2 DEF Settle, Owner
<1>4. /\ tab' \in [Tabs -> [status: {"bootstrapping", "authenticated", "unauthenticated"},
                            user: Users \cup {NoUser}, token: Users \cup {NoUser},
                            version: Nat]]
      /\ cache' \in [Tabs -> SUBSET Users]
      /\ accepted => /\ tab'[t].status = tab[t].status /\ tab'[t].user = tab[t].user
                     /\ tab'[t].version = tab[t].version /\ tab'[t].token = w
                     /\ cache'[t] = cache[t]
      /\ ~accepted /\ tab[t].version = v =>
             /\ tab'[t].status = "unauthenticated" /\ cache'[t] = {}
             /\ tab'[t].version = tab[t].version + 1
      /\ tab[t].version # v => tab'[t] = tab[t] /\ cache'[t] = cache[t]
  <2>1. CASE accepted
    <3>1. tab' = [tab EXCEPT ![t].token = w] /\ cache' = cache
      BY <1>3, <2>1
    <3>2. /\ tab' \in [Tabs -> [status: {"bootstrapping", "authenticated", "unauthenticated"},
                               user: Users \cup {NoUser}, token: Users \cup {NoUser},
                               version: Nat]]
          /\ tab'[t].status = tab[t].status /\ tab'[t].user = tab[t].user
          /\ tab'[t].version = tab[t].version /\ tab'[t].token = w
      <4> DEFINE S == [status: {"bootstrapping", "authenticated", "unauthenticated"},
                       user: Users \cup {NoUser}, token: Users \cup {NoUser}, version: Nat]
      <4>1. PICK old \in S : old = tab[t]
        BY <1>0 DEF TypeOK
      <4>2. PICK n : n = [old EXCEPT !.token = w]
        OBVIOUS
      <4>3. /\ n \in S /\ n.status = old.status /\ n.user = old.user
            /\ n.version = old.version /\ n.token = w
        BY <1>1, <4>1, <4>2
      <4>4. tab' = [tab EXCEPT ![t] = n] /\ tab \in [Tabs -> S]
        BY <1>0, <3>1, <4>1, <4>2 DEF TypeOK
      <4> HIDE DEF S
      <4>5. tab' \in [Tabs -> S] /\ tab'[t] = n
        BY <4>3, <4>4
      <4> QED
        BY <4>1, <4>3, <4>5 DEF S
    <3> QED
      BY <1>0, <2>1, <3>1, <3>2 DEF TypeOK
  <2>2. CASE ~accepted /\ tab[t].version = v
    BY <1>0, <1>3, <2>2, ClearingStartsAfresh
  <2>3. CASE tab[t].version # v
    BY <1>0, <1>3, <2>3 DEF TypeOK
  <2> QED
    BY <2>1, <2>2, <2>3
<1>5. current' \in [Tabs -> Nat \cup {None}] /\ current'[t] = None
  BY <1>0, <1>3 DEF TypeOK
<1>6. /\ logout' \in [Tabs -> SignOut \cup {Quiet}]
      /\ logout[t] = Quiet => logout'[t] = Quiet
      /\ logout[t] # Quiet =>
           /\ logout'[t] \in SignOut /\ logout'[t].phase = "sent" /\ logout'[t].cookie = jar'
           /\ logout'[t].covers = logout[t].covers
           /\ logout'[t].everywhere = logout[t].everywhere
  <2>1. CASE logout[t] = Quiet
    BY <1>0, <1>3, <2>1 DEF TypeOK
  <2>2. CASE logout[t] # Quiet
    <3>1. PICK old \in SignOut : old = logout[t]
      BY <1>0, <2>2, Shapes
    <3>2. PICK n : n = [old EXCEPT !.phase = "sent", !.cookie = jar']
      OBVIOUS
    <3>3. /\ n \in SignOut /\ n.phase = "sent" /\ n.cookie = jar'
          /\ n.covers = old.covers /\ n.everywhere = old.everywhere
      BY <3>2 DEF SignOut
    <3>4. logout' = [logout EXCEPT ![t] = n]
      BY <1>0, <1>2, <1>3, <2>2, <3>1, <3>2 DEF TypeOK, Revoke
    <3> QED
      BY <1>0, <2>2, <3>1, <3>3, <3>4 DEF TypeOK
  <2> QED
    BY <2>1, <2>2
<1>7. /\ login' \in [Tabs -> SignIn \cup {Quiet}]
      /\ login[t] = Quiet => login'[t] = Quiet
      /\ login[t] # Quiet =>
           \/ login'[t] = login[t] /\ login[t].phase = "settling"
           \/ login[t].awaits = v /\ login'[t] \in SignIn /\ login'[t].phase = "sent"
  <2>1. CASE login[t] = Quiet \/ login[t].awaits # v
    BY <1>0, <1>2, <1>3, <2>1 DEF TypeOK
  <2>2. CASE login[t] # Quiet /\ login[t].awaits = v
    <3>1. PICK old \in SignIn, x \in Nat : old = login[t] /\ x = tab'[t].version
      BY <1>0, <1>4, <2>2, Shapes
    <3>2. PICK n : n = [old EXCEPT !.phase = "sent", !.version = x]
      OBVIOUS
    <3>3. n \in SignIn /\ n.phase = "sent"
      BY <3>2 DEF SignIn
    <3>4. login' = [login EXCEPT ![t] = n]
      BY <1>0, <1>2, <1>3, <2>2, <3>1, <3>2 DEF TypeOK, Post
    <3> QED
      BY <1>0, <2>2, <3>1, <3>3, <3>4 DEF TypeOK
  <2> QED
    BY <2>1, <2>2
<1>8. TabFits(t)'
  <2>1. CASE accepted
    <3>1. /\ tab[t].status # "unauthenticated" /\ logout[t] = Quiet /\ login[t] = Quiet
          /\ tab[t].status = "authenticated" => tab[t].user = w
      BY <1>0, <1>1, <1>2, <2>1 DEF TabFits, JarIsFor
    <3>2. JarIsFor(w)'
      BY <1>1, <1>2 DEF JarIsFor, Owner
    <3> QED
      BY <1>0, <1>1, <1>4, <1>5, <1>6, <1>7, <2>1, <3>1, <3>2 DEF TabFits
  <2>2. CASE ~accepted /\ tab[t].version = v
    BY <1>0, <1>4, <1>5, <2>2 DEF TabFits
  <2>3. CASE tab[t].version # v
    BY <1>0, <1>2, <1>4, <1>5, <2>3 DEF TabFits
  <2> QED
    BY <2>1, <2>2, <2>3
<1>9. logout[t] # Quiet \/ login[t] # Quiet => tab'[t].status = "unauthenticated"
  BY <1>0, <1>2, <1>4 DEF SignOutFits, SignInFits
<1>10. SignOutFits(t)'
  <2> SUFFICES ASSUME logout[t] # Quiet, NEW h \in logout[t].covers,
                      families[h].open, logout[t].everywhere = NoUser
               PROVE  jar'.family = h
    BY <1>0, <1>5, <1>6, <1>9 DEF SignOutFits, Owner
  <2>1. h = jar.family
    BY <1>0, <1>2 DEF SignOutFits
  <2> QED
    BY <2>1
<1>11. SignInFits(t)'
  <2>1. CASE login[t] = Quiet
    BY <1>7, <2>1 DEF SignInFits
  <2>2. CASE login[t] # Quiet
    BY <1>0, <1>1, <1>5, <1>6, <1>7, <1>9, <2>2 DEF SignInFits
  <2> QED
    BY <2>1, <2>2
<1>12. EndedFits(t)'
  BY <1>2 DEF EndedFits
<1>13. ASSUME NEW c \in Calls \cup Tabs
       PROVE  call'[c] \in Request \cup {Quiet} /\ CallFits(c)'
  <2>1. call[c] \in Request \cup {Quiet}
    BY <1>0 DEF TypeOK
  <2>2. CASE ~Waits(c)
    <3>1. call'[c] = call[c]
      BY <1>0, <1>3, <2>2 DEF TypeOK
    <3>2. CASE accepted \/ tab[t].version # v
      <4>1. /\ tab'[t].version = tab[t].version /\ tab'[t].status = tab[t].status
            /\ tab'[t].user = tab[t].user
        BY <1>4, <3>2
      <4>2. \A h \in Families : Owner(h)' = Owner(h)
        BY DEF Owner
      <4>3. jar' \in {jar, NoCookie} \/ (jar # NoCookie /\ jar'.family = jar.family)
        BY <1>2
      <4> QED
        BY <1>5, <2>1, <3>1, <4>1, <4>2, <4>3, SameVersionKeepsCalls
    <3>3. CASE ~accepted /\ tab[t].version = v
      <4>1. tab'[t].version \in Nat /\ tab'[t].version > tab[t].version
        BY <1>0, <1>4, <3>3
      <4> QED
        BY <2>1, <3>1, <4>1, StaleCallsStay
    <3> QED
      BY <2>1, <3>1, <3>2, <3>3
  <2>3. CASE Waits(c) /\ ~accepted
    <3>1. call'[c] = Quiet
      BY <1>0, <1>3, <2>3 DEF TypeOK
    <3> QED
      BY <3>1 DEF CallFits
  <2>4. CASE Waits(c) /\ accepted
    <3>1. PICK old \in Request : old = call[c]
      BY <1>0, <2>1, <2>4
    <3>2. /\ CallFits(c) /\ call[c] # Quiet /\ (c \in Tabs => c = t) /\ old.tab = t
          /\ old.version = tab[t].version /\ Current(c)
      BY <1>0, <2>4, <3>1, CallFacts
    <3>3. old.user \in {w, NoUser} /\ (old.user = NoUser => c = t)
      <4>1. CASE c \in Tabs
        BY <1>2, <1>1, <3>1, <3>2, <4>1 DEF CallFits, JarIsFor
      <4>2. CASE c \notin Tabs
        <5>1. tab[t].status = "authenticated" /\ old.user = tab[t].user
          BY <3>1, <3>2, <4>2 DEF CallFits
        <5> QED
          BY <1>0, <1>1, <1>2, <5>1 DEF TabFits, JarIsFor, ConstantsAreValid
      <4> QED
        BY <4>1, <4>2
    <3>4. PICK n : n = [old EXCEPT !.phase = "flying", !.bearer = w,
                                   !.user = IF c = t /\ @ = NoUser THEN w ELSE @]
      OBVIOUS
    <3>5. /\ n \in Request /\ n.phase = "flying" /\ n.bearer = w /\ n.user = w
          /\ n.tab = t /\ n.version = old.version
      BY <1>1, <3>2, <3>3, <3>4 DEF Request
    <3>6. call'[c] = n
      BY <1>0, <1>3, <2>4, <3>1, <3>4 DEF TypeOK
    <3>7. CallFits(c)'
      <4>1. JarIsFor(w)'
        BY <1>1, <1>2 DEF JarIsFor, Owner
      <4>2. c \in Tabs => c = t /\ tab[t].status = "bootstrapping"
        BY <3>2 DEF CallFits
      <4>3. c \notin Tabs => tab[t].status = "authenticated" /\ tab[t].user = w
        BY <1>1, <3>1, <3>2, <3>3 DEF CallFits
      <4> QED
        BY <1>0, <1>1, <1>4, <1>5, <2>4, <3>2, <3>5, <3>6, <4>1, <4>2, <4>3 DEF CallFits
    <3> QED
      BY <3>5, <3>6, <3>7
  <2> QED
    BY <2>2, <2>3, <2>4
<1>14. call' \in [Calls \cup Tabs -> Request \cup {Quiet}]
  <2>1. DOMAIN call = Calls \cup Tabs
    BY <1>0 DEF TypeOK
  <2> HIDE DEF accepted, Waits
  <2> QED
    BY <1>3, <1>13, <2>1
<1> HIDE DEF accepted, Waits
<1> QED
  BY <1>4, <1>5, <1>6, <1>7, <1>8, <1>10, <1>11, <1>12, <1>13, <1>14

\* The browser has the new cookies before the tab hears of them.
LEMMA DeliverRotationKeepsInvariant ==
  ASSUME ConstantsAreValid, OneTab, ClientInvariant, NEW t \in Tabs, NEW p \in rotations,
         DeliverRotation(p)
  PROVE  ClientInvariant'
<1>0. /\ TypeOK /\ CookiesAreOwned /\ RotationsFit /\ CookieIsNewest(t) /\ p.phase # "sent"
      /\ rotations' = rotations \ {p}
      /\ UNCHANGED <<families, refusals, losses, ended>>
      /\ Settle(p, p.phase = "granted") /\ p.heard
  BY Parts DEF DeliverRotation, RotationsFit
<1>1. PICK g \in BOOLEAN, k \in [family: Families, generation: Nat], n \in Cookie :
          /\ g = (p.phase = "granted") /\ k = p.cookie
          /\ n = [k EXCEPT !.generation = @ + 1]
  <2>1. PICK k \in [family: Families, generation: Nat] : k = p.cookie
    BY <1>0, HeardRotation DEF Rotation
  <2>2. [k EXCEPT !.generation = @ + 1] \in Cookie
    BY DEF Cookie
  <2> QED
    BY <2>1, <2>2
<1>2. /\ p.cookie = jar /\ jar # NoCookie /\ k.family = jar.family /\ Owner(k.family) \in Users
      /\ \A q \in rotations \ {p} : ~q.heard /\ q.phase = "sent"
      /\ p.phase \in {"granted", "refused"}
  BY <1>0, <1>1, HeardRotation DEF Rotation
<1>3. n \in Cookie /\ n.family = k.family /\ n.generation = k.generation + 1
  BY <1>1 DEF Cookie
<1>4. jar' = IF g THEN n ELSE NoCookie
  BY <1>1 DEF DeliverRotation
<1>5. /\ jar' \in Cookie /\ (jar' = NoCookie \/ jar'.family = jar.family)
      /\ jar' = NoCookie => ~families[jar.family].open
  BY <1>0, <1>1, <1>2, <1>3, <1>4, Shapes DEF RotationsFit
<1>6. /\ tab' \in [Tabs -> [status: {"bootstrapping", "authenticated", "unauthenticated"},
                            user: Users \cup {NoUser}, token: Users \cup {NoUser},
                            version: Nat]]
      /\ cache' \in [Tabs -> SUBSET Users]
      /\ current' \in [Tabs -> Nat \cup {None}] /\ current'[t] = None
      /\ logout' \in [Tabs -> SignOut \cup {Quiet}]
      /\ login' \in [Tabs -> SignIn \cup {Quiet}]
      /\ call' \in [Calls \cup Tabs -> Request \cup {Quiet}]
      /\ TabFits(t)' /\ SignOutFits(t)' /\ SignInFits(t)' /\ EndedFits(t)'
      /\ \A c \in Calls \cup Tabs : CallFits(c)'
  BY <1>0, <1>1, <1>5, SettlingFits
<1>7. TypeOK'
  BY <1>0, <1>5, <1>6 DEF TypeOK
<1>8. CookiesAreOwned'
  BY <1>0, <1>1, <1>2, <1>3, <1>4 DEF CookiesAreOwned, Owner
<1>9. RotationsFit'
  BY <1>0, <1>2 DEF RotationsFit
<1>10. CookieIsNewest(t)'
  <2> SUFFICES ASSUME losses = 0 PROVE CookieIsNewest(t)'
    BY <1>0 DEF CookieIsNewest
  <2>1. rotations = {p} /\ g
    BY <1>0, <1>1, <1>2 DEF CookieIsNewest
  <2>2. rotations' = {} /\ jar' = n
    BY <1>0, <1>4, <2>1
  <2>3. /\ families[n.family].open /\ families[n.family].newest = n.generation
        /\ \A f \in Families : ~families[f].replayed
    <3>1. ~(logout[t] # Quiet /\ logout[t].phase = "granted")
      BY <1>0, HeardRotation
    <3> QED
      BY <1>0, <1>1, <1>2, <1>3, <2>1, <3>1 DEF CookieIsNewest
  <2> QED
    BY <1>0, <2>2, <2>3 DEF CookieIsNewest
<1> QED
  BY <1>6, <1>7, <1>8, <1>9, <1>10, OneTabIsEnough

\* A lost rotation leaves the tab without a session and the jar as it was.
LEMMA LoseRotationKeepsInvariant ==
  ASSUME ConstantsAreValid, OneTab, ClientInvariant, NEW t \in Tabs, NEW p \in rotations,
         LoseRotation(p)
  PROVE  ClientInvariant'
<1>0. /\ TypeOK /\ CookiesAreOwned /\ RotationsFit /\ p.heard
      /\ UNCHANGED <<families, jar, refusals, ended>> /\ Settle(p, FALSE)
  BY Parts DEF LoseRotation
<1>1. losses' \in 0..MaxLosses /\ losses' # 0
  <2>1. losses \in 0..MaxLosses
    BY <1>0 DEF TypeOK
  <2> QED
    BY <2>1 DEF LoseRotation, ConstantsAreValid
<1>2. PICK n : n = [p EXCEPT !.heard = FALSE]
  OBVIOUS
<1>3. /\ p \in Rotation /\ jar \in Cookie /\ jar # NoCookie
      /\ n \in Rotation /\ ~n.heard /\ n.phase = p.phase /\ n.cookie = p.cookie
      /\ \A q \in rotations \ {p} : ~q.heard /\ q.phase = "sent"
  <2>1. /\ p \in Rotation /\ jar \in Cookie /\ jar # NoCookie
        /\ \A q \in rotations \ {p} : ~q.heard /\ q.phase = "sent"
    BY <1>0, HeardRotation DEF TypeOK
  <2> QED
    BY <1>2, <2>1 DEF Rotation
<1>4. rotations' = (rotations \ {p}) \cup (IF p.phase = "sent" THEN {n} ELSE {})
  BY <1>2 DEF LoseRotation
<1>5. /\ tab' \in [Tabs -> [status: {"bootstrapping", "authenticated", "unauthenticated"},
                            user: Users \cup {NoUser}, token: Users \cup {NoUser},
                            version: Nat]]
      /\ cache' \in [Tabs -> SUBSET Users]
      /\ current' \in [Tabs -> Nat \cup {None}] /\ current'[t] = None
      /\ logout' \in [Tabs -> SignOut \cup {Quiet}]
      /\ login' \in [Tabs -> SignIn \cup {Quiet}]
      /\ call' \in [Calls \cup Tabs -> Request \cup {Quiet}]
      /\ TabFits(t)' /\ SignOutFits(t)' /\ SignInFits(t)' /\ EndedFits(t)'
      /\ \A c \in Calls \cup Tabs : CallFits(c)'
  BY <1>0, <1>3, SettlingFits
<1>6. TypeOK'
  BY <1>0, <1>1, <1>3, <1>4, <1>5 DEF TypeOK
<1>7. CookiesAreOwned'
  BY <1>0, <1>3, <1>4 DEF CookiesAreOwned, Owner
<1>8. RotationsFit'
  BY <1>0, <1>3, <1>4 DEF RotationsFit
<1>9. CookieIsNewest(t)'
  BY <1>1 DEF CookieIsNewest
<1> QED
  BY <1>5, <1>6, <1>7, <1>8, <1>9, OneTabIsEnough

-----------------------------------------------------------------------------
(* Signing out. *)

\* A sign-out covers the families that are open, and waits for a rotation on the way.
LEMMA BeginLogoutKeepsInvariant ==
  ASSUME ConstantsAreValid, OneTab, ClientInvariant, NEW t \in Tabs,
         NEW u \in Users \cup {NoUser}, BeginLogout(t, u)
  PROVE  ClientInvariant'
<1>0. /\ TypeOK /\ CookiesAreOwned /\ RotationsFit /\ TabFits(t)
      /\ SignInFits(t) /\ EndedFits(t) /\ CookieIsNewest(t)
      /\ tab[t].version \in Nat /\ None = -1
      /\ tab[t].status = "authenticated" /\ logout[t] = Quiet /\ Clear(t)
      /\ UNCHANGED <<families, jar, rotations, current, login, call, refusals, losses, ended>>
      /\ current[t] \in {None, tab[t].version} /\ login[t] = Quiet /\ jar \in Cookie
  <2>1. /\ TypeOK /\ TabFits(t) /\ tab[t].version \in Nat /\ None = -1
        /\ tab[t].status = "authenticated"
    BY Parts, Shapes DEF BeginLogout
  <2> QED
    BY <2>1, Parts DEF BeginLogout, TabFits, TypeOK
<1>1. PICK covered \in SUBSET Families, v \in Nat, k \in Nat \cup {None} :
          /\ covered = {f \in Families : families[f].open /\
                 IF u = NoUser THEN f = jar.family ELSE families[f].owner = u}
          /\ v = tab[t].version + 1 /\ k = current[t]
  <2>1. PICK covered \in SUBSET Families : covered = {f \in Families : families[f].open /\
                 IF u = NoUser THEN f = jar.family ELSE families[f].owner = u}
    OBVIOUS
  <2>2. tab[t].version + 1 \in Nat
    BY <1>0
  <2>3. current[t] \in Nat \cup {None}
    BY <1>0 DEF TypeOK
  <2> QED
    BY <2>1, <2>2, <2>3
<1>2. PICK l : l = [phase |-> "waiting", awaits |-> k, version |-> v, cookie |-> NoCookie,
                    everywhere |-> u, covers |-> covered]
  OBVIOUS
<1>3. PICK m : m = [l EXCEPT !.phase = "sent", !.cookie = jar]
  OBVIOUS
<1>4. /\ l \in SignOut /\ l # Quiet /\ l.phase = "waiting" /\ l.awaits = k
      /\ l.everywhere = u /\ l.covers = covered
      /\ m \in SignOut /\ m # Quiet /\ m.phase = "sent" /\ m.cookie = jar
      /\ m.everywhere = u /\ m.covers = covered
  <2>1. /\ l \in SignOut /\ l.phase = "waiting" /\ l.awaits = k
        /\ l.everywhere = u /\ l.covers = covered
    BY <1>0, <1>1, <1>2, Shapes DEF SignOut
  <2>2. /\ m \in SignOut /\ m.phase = "sent" /\ m.cookie = jar
        /\ m.everywhere = u /\ m.covers = covered
    BY <1>0, <1>3, <2>1 DEF SignOut
  <2> QED
    BY <1>0, <2>1, <2>2, Shapes
<1>5. logout' = [logout EXCEPT ![t] = IF k = None THEN m ELSE l]
  BY <1>1, <1>2, <1>3, <1>4 DEF BeginLogout, RotationToAwait, Revoke
<1>6. /\ tab'[t].status = "unauthenticated" /\ tab'[t].version = tab[t].version + 1
      /\ cache'[t] = {}
      /\ tab' \in [Tabs -> [status: {"bootstrapping", "authenticated", "unauthenticated"},
                            user: Users \cup {NoUser}, token: Users \cup {NoUser},
                            version: Nat]]
      /\ cache' \in [Tabs -> SUBSET Users]
  BY <1>0, ClearingStartsAfresh
<1>7. /\ logout' \in [Tabs -> SignOut \cup {Quiet}]
      /\ logout'[t] = IF k = None THEN m ELSE l
  BY <1>0, <1>4, <1>5 DEF TypeOK
<1>8. TypeOK'
  BY <1>0, <1>6, <1>7 DEF TypeOK
<1>9. CookiesAreOwned' /\ RotationsFit'
  BY <1>0 DEF CookiesAreOwned, RotationsFit, Owner
<1>10. TabFits(t)'
  BY <1>0, <1>6 DEF TabFits
<1>11. SignOutFits(t)'
  <2>1. \A f \in covered : /\ Owner(f) \in Users
                           /\ u # NoUser => Owner(f) = u
                           /\ u = NoUser => jar.family = f
    BY <1>0, <1>1 DEF CookiesAreOwned, Owner
  <2>2. CASE k = None
    BY <1>0, <1>1, <1>4, <1>6, <1>7, <2>1, <2>2 DEF SignOutFits, Owner
  <2>3. CASE k # None
    BY <1>0, <1>1, <1>4, <1>6, <1>7, <2>1, <2>3 DEF SignOutFits, Owner
  <2> QED
    BY <2>2, <2>3
<1>12. SignInFits(t)'
  BY <1>0 DEF SignInFits
<1>13. EndedFits(t)'
  BY <1>0 DEF EndedFits
<1>14. CookieIsNewest(t)'
  BY <1>0 DEF CookieIsNewest
<1>15. \A c \in Calls \cup Tabs : CallFits(c)'
  BY <1>0, <1>6, StaleCallsStay
<1> QED
  BY <1>8, <1>9, <1>10, <1>11, <1>12, <1>13, <1>14, <1>15, OneTabIsEnough

\* The server closes what the sign-out covers, or no longer accepts its bearer.
LEMMA ServeLogoutKeepsInvariant ==
  ASSUME ConstantsAreValid, OneTab, ClientInvariant, NEW t \in Tabs, ServeLogout(t)
  PROVE  ClientInvariant'
<1>0. /\ TypeOK /\ CookiesAreOwned /\ RotationsFit /\ TabFits(t)
      /\ SignOutFits(t) /\ SignInFits(t) /\ EndedFits(t) /\ CookieIsNewest(t)
      /\ logout[t].phase = "sent" /\ logout[t] # Quiet /\ Quiet.phase = "none"
      /\ UNCHANGED <<jar, tab, cache, rotations, current, login, call, losses, ended>>
  BY Parts, Shapes DEF ServeLogout
<1>1. PICK l \in SignOut : l = logout[t]
  BY <1>0, Shapes
<1>2. PICK granted, refused : /\ granted = [l EXCEPT !.phase = "granted"]
                              /\ refused = [l EXCEPT !.phase = "refused"]
  OBVIOUS
<1>3. \A m \in {granted, refused} :
          /\ m \in SignOut /\ m.everywhere = l.everywhere /\ m.covers = l.covers
          /\ m.cookie = l.cookie /\ m.phase \in {"granted", "refused"}
          /\ (m.phase = "granted" <=> m = granted)
  BY <1>2 DEF SignOut
<1> DEFINE Ends(f) == IF l.everywhere = NoUser THEN f = l.cookie.family
                      ELSE families[f].owner = l.everywhere
<1>4. PICK m \in {granted, refused} :
          /\ logout' = [logout EXCEPT ![t] = m]
          /\ refusals' \in 0..MaxRefusals
          /\ IF m = granted
             THEN families' = [f \in Families |->
                      IF Ends(f) THEN [families[f] EXCEPT !.open = FALSE] ELSE families[f]]
             ELSE families' = families
  <2>1. granted # refused /\ refusals \in 0..MaxRefusals
    BY <1>0, <1>2, <1>3 DEF TypeOK, SignOut
  <2>2. CASE logout' = [logout EXCEPT ![t].phase = "granted"] /\ UNCHANGED refusals
             /\ families' = [f \in Families |->
                      IF Ends(f) THEN [families[f] EXCEPT !.open = FALSE] ELSE families[f]]
    <3>1. logout' = [logout EXCEPT ![t] = granted]
      BY <1>0, <1>1, <1>2, <2>2 DEF TypeOK
    <3> HIDE DEF Ends
    <3> QED
      BY <2>1, <2>2, <3>1
  <2>3. CASE /\ logout' = [logout EXCEPT ![t].phase = "refused"] /\ families' = families
             /\ refusals < MaxRefusals /\ refusals' = refusals + 1
    <3>1. logout' = [logout EXCEPT ![t] = refused]
      BY <1>0, <1>1, <1>2, <2>3 DEF TypeOK
    <3>2. refusals' \in 0..MaxRefusals
      BY <2>1, <2>3 DEF ConstantsAreValid
    <3> HIDE DEF Ends
    <3> QED
      BY <2>1, <2>3, <3>1, <3>2
  <2> QED
    BY <1>1, <2>2, <2>3 DEF ServeLogout
<1>5. /\ families' \in [Families -> [owner: Users \cup {NoUser}, newest: Nat,
                                     open: BOOLEAN, replayed: BOOLEAN]]
      /\ \A f \in Families : /\ Owner(f)' = Owner(f)
                             /\ families'[f].replayed = families[f].replayed
                             /\ families'[f].open => families[f].open
      /\ m = granted => \A f \in Families : Ends(f) => ~families'[f].open
      /\ m # granted => families' = families
  <2>1. CASE m = granted
    <3>1. ASSUME NEW f \in Families
          PROVE  /\ families'[f] \in [owner: Users \cup {NoUser}, newest: Nat,
                                      open: BOOLEAN, replayed: BOOLEAN]
                 /\ families'[f].owner = families[f].owner
                 /\ families'[f].replayed = families[f].replayed
                 /\ families'[f].open => families[f].open
                 /\ Ends(f) => ~families'[f].open
      <4>1. families'[f] = IF Ends(f) THEN [families[f] EXCEPT !.open = FALSE]
                           ELSE families[f]
        BY <1>4, <2>1
      <4>2. families[f] \in [owner: Users \cup {NoUser}, newest: Nat,
                             open: BOOLEAN, replayed: BOOLEAN]
        BY <1>0 DEF TypeOK
      <4> HIDE DEF Ends
      <4> QED
        BY <4>1, <4>2
    <3>2. families' \in [Families -> [owner: Users \cup {NoUser}, newest: Nat,
                                     open: BOOLEAN, replayed: BOOLEAN]]
      <4> HIDE DEF Ends
      <4> QED
        BY <1>4, <2>1, <3>1
    <3> HIDE DEF Ends
    <3> QED
      BY <2>1, <3>1, <3>2 DEF Owner
  <2>2. CASE m # granted
    BY <1>0, <1>4, <2>2 DEF TypeOK, Owner
  <2> QED
    BY <2>1, <2>2
<1>6. logout'[t] = m /\ logout' \in [Tabs -> SignOut \cup {Quiet}]
  BY <1>0, <1>3, <1>4 DEF TypeOK
<1>7. TypeOK'
  BY <1>0, <1>4, <1>5, <1>6 DEF TypeOK
<1>8. CookiesAreOwned'
  BY <1>0, <1>5 DEF CookiesAreOwned, TypeOK, Rotation
<1>9. RotationsFit'
  <2>1. \A p \in rotations : p.cookie.family \in Families
    BY <1>0 DEF TypeOK, Rotation
  <2> QED
    BY <1>0, <1>5, <2>1 DEF RotationsFit
<1>10. tab[t].status = "unauthenticated"
  BY <1>0 DEF SignOutFits
<1>11. TabFits(t)'
  BY <1>0, <1>10 DEF TabFits
<1>12. SignOutFits(t)'
  <2>1. current[t] = None
    BY <1>0 DEF SignOutFits
  <2>2. l.covers \subseteq Families
    BY DEF SignOut
  <2>3. \A f \in l.covers : /\ Owner(f) \in Users
                            /\ l.everywhere # NoUser => Owner(f) = l.everywhere
                            /\ families[f].open /\ l.everywhere = NoUser => l.cookie.family = f
    BY <1>0, <1>1 DEF SignOutFits
  <2>4. \A f \in l.covers : m = granted => ~families'[f].open
    BY <1>5, <2>2, <2>3 DEF Owner
  <2> HIDE DEF Ends
  <2>5. \A f \in l.covers : /\ families'[f].open => families[f].open
                            /\ Owner(f)' = Owner(f)
    BY <1>5, <2>2
  <2> QED
    BY <1>0, <1>3, <1>6, <1>10, <2>1, <2>3, <2>4, <2>5 DEF SignOutFits
<1>13. SignInFits(t)'
  BY <1>0, <1>10 DEF SignInFits
<1>14. EndedFits(t)'
  <2>1. ended[t] \subseteq Families
    BY <1>0 DEF TypeOK
  <2> QED
    BY <1>0, <1>5, <2>1 DEF EndedFits
<1>15. CookieIsNewest(t)'
  <2>1. m = granted => logout'[t] # Quiet /\ logout'[t].phase = "granted"
    BY <1>0, <1>3, <1>6
  <2>2. m # granted => families' = families
    BY <1>5
  <2> HIDE DEF Ends
  <2> QED
    BY <1>0, <1>5, <2>1, <2>2 DEF CookieIsNewest
<1>16. \A c \in Calls \cup Tabs : CallFits(c)'
  BY <1>0, <1>5, SameVersionKeepsCalls
<1> QED
  BY <1>7, <1>8, <1>9, <1>11, <1>12, <1>13, <1>14, <1>15, <1>16, OneTabIsEnough

\* The end of a sign-out lets the sign-in that waited go out alone.
LEMMA ConcludingFits ==
  ASSUME OneTab, ClientInvariant, NEW t \in Tabs, Conclude(t),
         logout[t] # Quiet, logout[t].phase # "waiting",
         UNCHANGED <<families, rotations, current, call>>, jar' \in {jar, NoCookie}
  PROVE  /\ tab' \in [Tabs -> [status: {"bootstrapping", "authenticated", "unauthenticated"},
                               user: Users \cup {NoUser}, token: Users \cup {NoUser},
                               version: Nat]]
         /\ cache' \in [Tabs -> SUBSET Users]
         /\ logout' \in [Tabs -> SignOut \cup {Quiet}] /\ logout'[t] = Quiet
         /\ login' \in [Tabs -> SignIn \cup {Quiet}]
         /\ tab'[t].status = "unauthenticated"
         /\ \A p \in rotations : ~p.heard /\ p.phase = "sent"
         /\ CookiesAreOwned' /\ RotationsFit'
         /\ TabFits(t)' /\ SignOutFits(t)' /\ SignInFits(t)'
         /\ \A c \in Calls \cup Tabs : CallFits(c)'
<1>0. /\ TypeOK /\ CookiesAreOwned /\ RotationsFit /\ TabFits(t)
      /\ SignOutFits(t) /\ SignInFits(t) /\ Quiet.phase = "none" /\ None = -1
      /\ tab[t].version \in Nat
  BY Parts, Shapes
<1>1. tab[t].status = "unauthenticated" /\ current[t] = None
  BY <1>0 DEF SignOutFits
<1>2. /\ tab' \in [Tabs -> [status: {"bootstrapping", "authenticated", "unauthenticated"},
                            user: Users \cup {NoUser}, token: Users \cup {NoUser},
                            version: Nat]]
      /\ cache' \in [Tabs -> SUBSET Users]
      /\ tab'[t].status = "unauthenticated" /\ cache'[t] = {}
      /\ tab'[t].version \in {tab[t].version, tab[t].version + 1}
  <2>1. CASE Clear(t)
    BY <1>0, <2>1, ClearingStartsAfresh
  <2>2. CASE UNCHANGED <<tab, cache>>
    BY <1>0, <1>1, <2>2 DEF TypeOK, TabFits
  <2> QED
    BY <2>1, <2>2 DEF Conclude
<1>3. logout' \in [Tabs -> SignOut \cup {Quiet}] /\ logout'[t] = Quiet
  BY <1>0 DEF Conclude, TypeOK
<1>4. \A p \in rotations : ~p.heard /\ p.phase = "sent"
  <2>1. \A p \in rotations : p.tab = t /\ p.version # None
    BY <1>0, Shapes DEF TypeOK, Rotation, OneTab
  <2> QED
    BY <1>0, <1>1, <2>1 DEF RotationsFit
<1>5. /\ login' \in [Tabs -> SignIn \cup {Quiet}]
      /\ login[t] = Quiet => login'[t] = Quiet
      /\ login[t] # Quiet => login'[t] \in SignIn /\ login'[t].phase = "sent"
  <2>1. CASE login[t] = Quiet
    BY <1>0, <2>1 DEF Conclude, TypeOK
  <2>2. CASE login[t] # Quiet
    <3>1. PICK old \in SignIn, x \in Nat : old = login[t] /\ x = tab'[t].version
      BY <1>0, <1>2, <2>2, Shapes
    <3>2. old.phase = "settling" /\ old.awaits = None
      BY <1>0, <2>2, <3>1 DEF SignInFits, SignIn
    <3>3. PICK n : n = [old EXCEPT !.phase = "sent", !.version = x]
      OBVIOUS
    <3>4. n \in SignIn /\ n.phase = "sent"
      BY <3>3 DEF SignIn
    <3>5. login' = [login EXCEPT ![t] = n]
      BY <1>0, <1>1, <3>1, <3>2, <3>3 DEF TypeOK, Post, Conclude
    <3> QED
      BY <1>0, <2>2, <3>1, <3>4, <3>5 DEF TypeOK
  <2> QED
    BY <2>1, <2>2
<1>6. CookiesAreOwned' /\ RotationsFit'
  BY <1>0, <1>4 DEF CookiesAreOwned, RotationsFit, Owner
<1>7. TabFits(t)'
  BY <1>0, <1>1, <1>2 DEF TabFits
<1>8. SignOutFits(t)'
  BY <1>3 DEF SignOutFits
<1>9. SignInFits(t)'
  BY <1>0, <1>1, <1>2, <1>3, <1>5 DEF SignInFits
<1>10. \A c \in Calls \cup Tabs : CallFits(c)'
  BY <1>0, <1>1, <1>2, StaleCallsStay
<1> QED
  BY <1>2, <1>3, <1>4, <1>5, <1>6, <1>7, <1>8, <1>9, <1>10

\* A confirmed sign-out takes the cookies; one refused leaves them.
LEMMA DeliverLogoutKeepsInvariant ==
  ASSUME OneTab, ClientInvariant, NEW t \in Tabs, DeliverLogout(t)
  PROVE  ClientInvariant'
<1>0. /\ TypeOK /\ SignOutFits(t) /\ EndedFits(t) /\ CookieIsNewest(t)
      /\ logout[t].phase \in {"granted", "refused"} /\ Conclude(t)
      /\ logout[t] # Quiet /\ logout[t] \in SignOut
      /\ UNCHANGED <<families, rotations, current, call, refusals, losses>>
      /\ jar' = IF logout[t].phase = "granted" THEN NoCookie ELSE jar
      /\ ended' = IF logout[t].phase = "granted"
                  THEN [ended EXCEPT ![t] = logout[t].covers] ELSE ended
  BY Parts, Shapes DEF DeliverLogout
<1>1. jar' \in {jar, NoCookie} /\ logout[t].phase # "waiting"
  BY <1>0
<1>2. /\ tab' \in [Tabs -> [status: {"bootstrapping", "authenticated", "unauthenticated"},
                            user: Users \cup {NoUser}, token: Users \cup {NoUser},
                            version: Nat]]
      /\ cache' \in [Tabs -> SUBSET Users]
      /\ logout' \in [Tabs -> SignOut \cup {Quiet}] /\ logout'[t] = Quiet
      /\ login' \in [Tabs -> SignIn \cup {Quiet}]
      /\ tab'[t].status = "unauthenticated"
      /\ CookiesAreOwned' /\ RotationsFit'
      /\ TabFits(t)' /\ SignOutFits(t)' /\ SignInFits(t)'
      /\ \A c \in Calls \cup Tabs : CallFits(c)'
  BY <1>0, <1>1, ConcludingFits
<1>3. logout[t].covers \subseteq Families
  BY <1>0 DEF SignOut
<1>4. ended' \in [Tabs -> SUBSET Families]
  BY <1>0, <1>3 DEF TypeOK
<1>5. TypeOK'
  BY <1>0, <1>1, <1>2, <1>4, Shapes DEF TypeOK
<1>6. EndedFits(t)'
  <2>1. CASE logout[t].phase = "granted"
    <3>1. ended'[t] = logout[t].covers
      BY <1>0, <2>1 DEF TypeOK
    <3> QED
      BY <1>0, <1>2, <2>1, <3>1 DEF EndedFits, SignOutFits, Owner
  <2>2. CASE logout[t].phase = "refused"
    BY <1>0, <1>2, <2>2 DEF EndedFits, Owner
  <2> QED
    BY <1>0, <2>1, <2>2
<1>7. CookieIsNewest(t)'
  <2>1. CASE logout[t].phase = "granted"
    BY <1>0, <2>1 DEF CookieIsNewest
  <2>2. CASE logout[t].phase = "refused"
    BY <1>0, <2>2 DEF CookieIsNewest
  <2> QED
    BY <1>0, <2>1, <2>2
<1> QED
  BY <1>2, <1>5, <1>6, <1>7, OneTabIsEnough

\* Without its answer a sign-out ends in the tab only.
LEMMA LoseLogoutKeepsInvariant ==
  ASSUME ConstantsAreValid, OneTab, ClientInvariant, NEW t \in Tabs, LoseLogout(t)
  PROVE  ClientInvariant'
<1>0. /\ TypeOK /\ EndedFits(t)
      /\ logout[t].phase \in {"sent", "granted", "refused"} /\ Conclude(t)
      /\ logout[t] # Quiet
      /\ UNCHANGED <<families, jar, rotations, current, call, refusals, ended>>
  BY Parts, Shapes DEF LoseLogout
<1>1. losses' \in 0..MaxLosses /\ losses' # 0
  <2>1. losses \in 0..MaxLosses
    BY <1>0 DEF TypeOK
  <2> QED
    BY <2>1 DEF LoseLogout, ConstantsAreValid
<1>2. /\ tab' \in [Tabs -> [status: {"bootstrapping", "authenticated", "unauthenticated"},
                            user: Users \cup {NoUser}, token: Users \cup {NoUser},
                            version: Nat]]
      /\ cache' \in [Tabs -> SUBSET Users]
      /\ logout' \in [Tabs -> SignOut \cup {Quiet}]
      /\ login' \in [Tabs -> SignIn \cup {Quiet}]
      /\ tab'[t].status = "unauthenticated"
      /\ CookiesAreOwned' /\ RotationsFit'
      /\ TabFits(t)' /\ SignOutFits(t)' /\ SignInFits(t)'
      /\ \A c \in Calls \cup Tabs : CallFits(c)'
  BY <1>0, ConcludingFits
<1>3. TypeOK'
  BY <1>0, <1>1, <1>2 DEF TypeOK
<1>4. EndedFits(t)'
  BY <1>0, <1>2 DEF EndedFits, Owner
<1>5. CookieIsNewest(t)'
  BY <1>1 DEF CookieIsNewest
<1> QED
  BY <1>2, <1>3, <1>4, <1>5, OneTabIsEnough

-----------------------------------------------------------------------------
(* Signing in, and the reload of a tab. *)

\* A sign-in waits for a sign-out or a rotation, or goes out at once.
LEMMA BeginLoginKeepsInvariant ==
  ASSUME OneTab, ClientInvariant, NEW t \in Tabs, NEW u \in Users, BeginLogin(t, u)
  PROVE  ClientInvariant'
<1>0. /\ TypeOK /\ CookiesAreOwned /\ RotationsFit /\ TabFits(t)
      /\ SignOutFits(t) /\ EndedFits(t) /\ CookieIsNewest(t)
      /\ tab[t].status = "unauthenticated"
      /\ UNCHANGED <<families, jar, tab, cache, rotations, current, logout, call,
                     refusals, losses, ended>>
  BY Parts DEF BeginLogin
<1>1. PICK v \in Nat, k \in Nat \cup {None} : v = tab[t].version /\ k = current[t]
  BY <1>0 DEF TypeOK
<1>2. PICK l : l = [phase |-> "settling", user |-> u, version |-> v, awaits |-> k, family |-> 0]
  OBVIOUS
<1>3. PICK m, n : /\ m = [l EXCEPT !.awaits = None]
                  /\ n = [l EXCEPT !.phase = "sent", !.version = v]
  OBVIOUS
<1>4. /\ l \in SignIn /\ l.phase = "settling"
      /\ m \in SignIn /\ m.phase = "settling" /\ m.awaits = None
      /\ n \in SignIn /\ n.phase = "sent"
  BY <1>2, <1>3 DEF SignIn
<1>5. login' = [login EXCEPT ![t] = IF logout[t] # Quiet THEN m ELSE IF k # None THEN l ELSE n]
  BY <1>1, <1>2, <1>3 DEF BeginLogin, Post
<1>6. /\ login' \in [Tabs -> SignIn \cup {Quiet}]
      /\ login'[t] = IF logout[t] # Quiet THEN m ELSE IF k # None THEN l ELSE n
  BY <1>0, <1>4, <1>5 DEF TypeOK
<1>7. TypeOK'
  BY <1>0, <1>6 DEF TypeOK
<1>8. CookiesAreOwned' /\ RotationsFit' /\ CookieIsNewest(t)'
  BY <1>0 DEF CookiesAreOwned, RotationsFit, CookieIsNewest, Owner
<1>9. TabFits(t)'
  BY <1>0 DEF TabFits
<1>10. SignOutFits(t)'
  BY <1>0 DEF SignOutFits, Owner
<1>11. SignInFits(t)'
  BY <1>0, <1>1, <1>4, <1>6 DEF SignInFits
<1>12. EndedFits(t)'
  BY <1>0 DEF EndedFits, Owner
<1>13. \A c \in Calls \cup Tabs : CallFits(c)'
  BY <1>0, SameVersionKeepsCalls DEF Owner
<1> QED
  BY <1>7, <1>8, <1>9, <1>10, <1>11, <1>12, <1>13, OneTabIsEnough

\* The family that opens is new to every cookie, rotation and sign-out.
LEMMA ServeLoginKeepsInvariant ==
  ASSUME ConstantsAreValid, OneTab, ClientInvariant, NEW t \in Tabs, ServeLogin(t)
  PROVE  ClientInvariant'
<1>0. /\ TypeOK /\ CookiesAreOwned /\ RotationsFit /\ TabFits(t)
      /\ SignOutFits(t) /\ SignInFits(t) /\ EndedFits(t) /\ CookieIsNewest(t)
      /\ login[t].phase = "sent" /\ login[t] # Quiet
      /\ UNCHANGED <<jar, tab, cache, rotations, current, logout, call, refusals, losses, ended>>
  BY Parts, Shapes DEF ServeLogin
<1>1. PICK old \in SignIn : old = login[t]
  BY <1>0, Shapes
<1>2. tab[t].status = "unauthenticated" /\ current[t] = None /\ logout[t] = Quiet
  BY <1>0 DEF SignInFits
<1>3. TabFits(t)' /\ SignOutFits(t)'
  BY <1>0, <1>2 DEF TabFits, SignOutFits
<1>4. CASE families' = families /\ login' = [login EXCEPT ![t].phase = "refused"]
  <2>1. PICK n : n = [old EXCEPT !.phase = "refused"]
    OBVIOUS
  <2>2. n \in SignIn /\ n.phase = "refused"
    BY <2>1 DEF SignIn
  <2>3. login' \in [Tabs -> SignIn \cup {Quiet}] /\ login'[t] = n
    BY <1>0, <1>1, <1>4, <2>1, <2>2 DEF TypeOK
  <2>4. TypeOK'
    BY <1>0, <1>4, <2>3 DEF TypeOK
  <2>5. CookiesAreOwned' /\ RotationsFit' /\ CookieIsNewest(t)'
    BY <1>0, <1>4 DEF CookiesAreOwned, RotationsFit, CookieIsNewest, Owner
  <2>6. SignInFits(t)'
    BY <1>0, <1>2, <2>2, <2>3 DEF SignInFits
  <2>7. EndedFits(t)'
    BY <1>0, <1>4 DEF EndedFits, Owner
  <2>8. \A c \in Calls \cup Tabs : CallFits(c)'
    BY <1>0, <1>4, SameVersionKeepsCalls DEF Owner
  <2> QED
    BY <1>3, <2>4, <2>5, <2>6, <2>7, <2>8, OneTabIsEnough
<1>5. ASSUME NEW f \in Unopened,
             families' = [families EXCEPT ![f] =
                 [owner |-> login[t].user, newest |-> 1, open |-> TRUE, replayed |-> FALSE]],
             login' = [login EXCEPT ![t].phase = "granted", ![t].family = f]
      PROVE  ClientInvariant'
  <2>1. f \in Families /\ Owner(f) \notin Users
    BY DEF Unopened, Owner, ConstantsAreValid
  <2>2. PICK x : x = [owner |-> old.user, newest |-> 1, open |-> TRUE, replayed |-> FALSE]
    OBVIOUS
  <2>3. /\ x \in [owner: Users \cup {NoUser}, newest: Nat, open: BOOLEAN, replayed: BOOLEAN]
        /\ x.owner = old.user /\ x.newest = 1 /\ x.open /\ ~x.replayed /\ old.user \in Users
    BY <2>2 DEF SignIn
  <2>4. /\ families' \in [Families -> [owner: Users \cup {NoUser}, newest: Nat,
                                       open: BOOLEAN, replayed: BOOLEAN]]
        /\ families'[f] = x
        /\ \A h \in Families \ {f} : families'[h] = families[h]
    BY <1>0, <1>1, <1>5, <2>1, <2>2, <2>3 DEF TypeOK
  <2>5. PICK n : n = [old EXCEPT !.phase = "granted", !.family = f]
    OBVIOUS
  <2>6. n \in SignIn /\ n.phase = "granted" /\ n.family = f /\ n.user = old.user
    BY <2>1, <2>5 DEF SignIn
  <2>7. login' = [login EXCEPT ![t] = n]
    BY <1>0, <1>1, <1>5, <2>5 DEF TypeOK
  <2>8. login' \in [Tabs -> SignIn \cup {Quiet}] /\ login'[t] = n
    BY <1>0, <2>6, <2>7 DEF TypeOK
  <2>9. TypeOK'
    BY <1>0, <2>4, <2>8 DEF TypeOK
  <2>10. \A h \in Families : Owner(h) \in Users => h # f /\ families'[h] = families[h]
    BY <2>1, <2>4
  <2>11. \A p \in rotations : p.cookie.family \in Families /\ Owner(p.cookie.family) \in Users
    BY <1>0 DEF CookiesAreOwned, TypeOK, Rotation
  <2>12. CookiesAreOwned'
    BY <1>0, <2>3, <2>4, <2>10, <2>11 DEF CookiesAreOwned, Owner
  <2>13. RotationsFit'
    BY <1>0, <2>10, <2>11 DEF RotationsFit
  <2>14. SignInFits(t)'
    BY <1>2, <1>0, <2>1, <2>3, <2>4, <2>6, <2>8 DEF SignInFits, Owner
  <2>15. EndedFits(t)'
    <3>1. ended[t] \subseteq Families
      BY <1>0 DEF TypeOK
    <3> QED
      BY <1>0, <2>10, <3>1 DEF EndedFits, Owner
  <2>16. CookieIsNewest(t)'
    <3>1. jar # NoCookie => families'[jar.family] = families[jar.family]
      BY <1>0, <2>10 DEF CookiesAreOwned
    <3>2. losses = 0 => \A h \in Families : ~families'[h].replayed
      BY <1>0, <2>3, <2>4 DEF CookieIsNewest
    <3> QED
      BY <1>0, <3>1, <3>2 DEF CookieIsNewest
  <2>17. \A c \in Calls \cup Tabs : CallFits(c)'
    BY <1>0, <2>10, SameVersionKeepsCalls DEF Owner
  <2> QED
    BY <1>3, <2>9, <2>12, <2>13, <2>14, <2>15, <2>16, <2>17, OneTabIsEnough
<1> QED
  BY <1>4, <1>5 DEF ServeLogin

\* The cookies of a sign-in replace what the jar holds, and the tab shows its account.
LEMMA DeliverLoginKeepsInvariant ==
  ASSUME ConstantsAreValid, OneTab, ClientInvariant, NEW t \in Tabs, DeliverLogin(t)
  PROVE  ClientInvariant'
<1>0. /\ TypeOK /\ CookiesAreOwned /\ RotationsFit /\ TabFits(t)
      /\ SignOutFits(t) /\ SignInFits(t) /\ EndedFits(t) /\ CookieIsNewest(t)
      /\ tab[t].version \in Nat /\ None = -1
      /\ login[t].phase \in {"granted", "refused"} /\ login[t] # Quiet
      /\ login' = [login EXCEPT ![t] = Quiet]
      /\ UNCHANGED <<families, cache, rotations, current, logout, call, refusals, losses>>
  BY Parts, Shapes DEF DeliverLogin
<1>1. PICK l \in SignIn, u \in Users, f \in Families \cup {0} :
          l = login[t] /\ u = l.user /\ f = l.family
  BY <1>0, Shapes DEF SignIn
<1>2. /\ tab[t].status = "unauthenticated" /\ current[t] = None /\ logout[t] = Quiet
      /\ cache[t] = {}
  BY <1>0 DEF SignInFits, TabFits
<1>3. login' \in [Tabs -> SignIn \cup {Quiet}] /\ login'[t] = Quiet
  BY <1>0 DEF TypeOK
<1>4. \A p \in rotations : ~p.heard
  <2>1. \A p \in rotations : p.tab = t /\ p.version # None
    BY <1>0, Shapes DEF TypeOK, Rotation, OneTab
  <2> QED
    BY <1>0, <1>2, <2>1 DEF RotationsFit
<1>5. SignOutFits(t)' /\ SignInFits(t)'
  BY <1>2, <1>0, <1>3 DEF SignOutFits, SignInFits
<1>6. CASE l.phase = "refused"
  <2>1. UNCHANGED <<jar, ended, tab>>
    BY <1>1, <1>6 DEF DeliverLogin
  <2>2. TypeOK'
    BY <1>0, <1>3, <2>1 DEF TypeOK
  <2>3. CookiesAreOwned' /\ RotationsFit' /\ CookieIsNewest(t)'
    BY <1>0, <2>1 DEF CookiesAreOwned, RotationsFit, CookieIsNewest, Owner
  <2>4. TabFits(t)'
    BY <1>0, <1>2, <2>1 DEF TabFits
  <2>5. EndedFits(t)'
    BY <1>0, <2>1 DEF EndedFits, Owner
  <2>6. \A c \in Calls \cup Tabs : CallFits(c)'
    BY <1>0, <1>2, <2>1, StaleCallsStay
  <2> QED
    BY <1>5, <2>2, <2>3, <2>4, <2>5, <2>6, OneTabIsEnough
<1>7. CASE l.phase = "granted"
  <2>1. /\ f \in Families /\ Owner(f) = u
        /\ losses = 0 => families[f].open /\ families[f].newest = 1
    BY <1>0, <1>1, <1>7 DEF SignInFits
  <2>2. /\ jar' = [family |-> f, generation |-> 1]
        /\ ended' = [ended EXCEPT ![t] = {}]
        /\ tab' = IF l.version = tab[t].version
                  THEN [tab EXCEPT ![t] = Authenticated(@, u, u)] ELSE tab
    BY <1>1, <1>7 DEF DeliverLogin
  <2>3. jar' \in Cookie /\ jar'.family = f /\ jar'.generation = 1
    BY <2>1, <2>2 DEF Cookie
  <2>4. ended' \in [Tabs -> SUBSET Families] /\ ended'[t] = {}
    BY <1>0, <2>2 DEF TypeOK
  <2>5. /\ tab' \in [Tabs -> [status: {"bootstrapping", "authenticated", "unauthenticated"},
                              user: Users \cup {NoUser}, token: Users \cup {NoUser},
                              version: Nat]]
        /\ \/ tab'[t] = tab[t]
           \/ /\ tab'[t].status = "authenticated" /\ tab'[t].user = u /\ tab'[t].token = u
              /\ tab'[t].version = tab[t].version + 1
    <3>1. CASE l.version = tab[t].version
      BY <1>0, <2>2, <3>1 DEF TypeOK, Authenticated
    <3>2. CASE l.version # tab[t].version
      BY <1>0, <2>2, <3>2 DEF TypeOK
    <3> QED
      BY <3>1, <3>2
  <2>6. TypeOK'
    BY <1>0, <1>3, <2>3, <2>4, <2>5 DEF TypeOK
  <2>7. CookiesAreOwned'
    BY <1>0, <2>1, <2>3 DEF CookiesAreOwned, Owner
  <2>8. RotationsFit'
    BY <1>0, <1>4 DEF RotationsFit
  <2>9. TabFits(t)'
    BY <1>0, <1>2, <1>3, <2>1, <2>3, <2>5 DEF TabFits, JarIsFor, Owner
  <2>10. EndedFits(t)'
    BY <2>4 DEF EndedFits
  <2>11. CookieIsNewest(t)'
    <3>1. losses = 0 => rotations = {}
      BY <1>0, <1>4 DEF CookieIsNewest
    <3> QED
      BY <1>0, <2>1, <2>3, <3>1 DEF CookieIsNewest
  <2>12. \A c \in Calls \cup Tabs : CallFits(c)'
    BY <1>0, <1>2, <2>5, StaleCallsStay
  <2> QED
    BY <1>5, <2>6, <2>7, <2>8, <2>9, <2>10, <2>11, <2>12, OneTabIsEnough
<1> QED
  BY <1>0, <1>1, <1>6, <1>7

\* A sign-in without an answer leaves the tab signed out.
LEMMA LoseLoginKeepsInvariant ==
  ASSUME ConstantsAreValid, OneTab, ClientInvariant, NEW t \in Tabs, LoseLogin(t)
  PROVE  ClientInvariant'
<1>0. /\ TypeOK /\ CookiesAreOwned /\ RotationsFit /\ TabFits(t)
      /\ SignOutFits(t) /\ SignInFits(t) /\ EndedFits(t)
      /\ login' = [login EXCEPT ![t] = Quiet]
      /\ UNCHANGED <<families, jar, tab, cache, rotations, current, logout, call, refusals, ended>>
  BY Parts DEF LoseLogin
<1>1. losses' \in 0..MaxLosses /\ losses' # 0
  <2>1. losses \in 0..MaxLosses
    BY <1>0 DEF TypeOK
  <2> QED
    BY <2>1 DEF LoseLogin, ConstantsAreValid
<1>2. login' \in [Tabs -> SignIn \cup {Quiet}] /\ login'[t] = Quiet
  BY <1>0 DEF TypeOK
<1>3. TypeOK'
  BY <1>0, <1>1, <1>2 DEF TypeOK
<1>4. CookiesAreOwned' /\ RotationsFit'
  BY <1>0 DEF CookiesAreOwned, RotationsFit, Owner
<1>5. TabFits(t)'
  BY <1>0, <1>2 DEF TabFits, JarIsFor, Owner
<1>6. SignOutFits(t)' /\ SignInFits(t)'
  BY <1>0, <1>2 DEF SignOutFits, SignInFits, Owner
<1>7. EndedFits(t)' /\ CookieIsNewest(t)'
  BY <1>0, <1>1 DEF EndedFits, CookieIsNewest, Owner
<1>8. \A c \in Calls \cup Tabs : CallFits(c)'
  BY <1>0, SameVersionKeepsCalls DEF Owner
<1> QED
  BY <1>3, <1>4, <1>5, <1>6, <1>7, <1>8, OneTabIsEnough

\* A reload forgets all the tab knows; what it has sent is no longer heard.
LEMMA ReloadKeepsInvariant ==
  ASSUME ConstantsAreValid, OneTab, ClientInvariant, NEW t \in Tabs, Reload(t)
  PROVE  ClientInvariant'
<1>0. /\ TypeOK /\ CookiesAreOwned /\ EndedFits(t) /\ \A s \in Tabs : s = t
      /\ UNCHANGED <<families, jar, refusals, ended>>
      /\ tab' = [tab EXCEPT ![t] = Loading] /\ cache' = [cache EXCEPT ![t] = {}]
      /\ current' = [current EXCEPT ![t] = None]
      /\ logout' = [logout EXCEPT ![t] = Quiet] /\ login' = [login EXCEPT ![t] = Quiet]
      /\ rotations' = {p \in rotations : p.tab # t}
            \cup {[p EXCEPT !.heard = FALSE] : p \in {q \in rotations : q.tab = t /\ q.phase = "sent"}}
  BY Parts DEF Reload, OneTab
<1>1. losses' \in 0..MaxLosses /\ losses' # 0
  <2>1. losses \in 0..MaxLosses
    BY <1>0 DEF TypeOK
  <2> QED
    BY <2>1 DEF Reload, ConstantsAreValid
<1>2. ASSUME NEW c \in Calls \cup Tabs PROVE call'[c] = Quiet
  <2>1. call' = [d \in DOMAIN call |->
                    IF call[d] # Quiet /\ call[d].tab = t THEN Quiet ELSE call[d]]
    BY DEF Reload
  <2>2. call[c] # Quiet => call[c].tab = t
    BY CallFacts
  <2> QED
    BY <1>0, <2>1, <2>2 DEF TypeOK
<1>3. /\ call' \in [Calls \cup Tabs -> Request \cup {Quiet}]
      /\ \A c \in Calls \cup Tabs : CallFits(c)'
  <2>1. DOMAIN call = Calls \cup Tabs /\ call' = [c \in DOMAIN call |-> call'[c]]
    BY <1>0 DEF TypeOK, Reload
  <2> QED
    BY <1>2, <2>1 DEF CallFits
<1>4. ASSUME NEW q \in rotations'
      PROVE  q \in Rotation /\ ~q.heard /\ q.phase = "sent" /\ Owner(q.cookie.family) \in Users
  <2>1. \A p \in rotations : p.tab = t /\ p \in Rotation
    BY <1>0 DEF TypeOK, Rotation
  <2>2. PICK p \in rotations : p.phase = "sent" /\ q = [p EXCEPT !.heard = FALSE]
    BY <1>0, <2>1
  <2>3. q \in Rotation /\ ~q.heard /\ q.phase = "sent" /\ q.cookie = p.cookie
    BY <2>1, <2>2 DEF Rotation
  <2> QED
    BY <1>0, <2>3 DEF CookiesAreOwned
<1>5. /\ tab'[t].status = "bootstrapping" /\ cache'[t] = {} /\ current'[t] = None
      /\ logout'[t] = Quiet /\ login'[t] = Quiet
      /\ tab' \in [Tabs -> [status: {"bootstrapping", "authenticated", "unauthenticated"},
                            user: Users \cup {NoUser}, token: Users \cup {NoUser},
                            version: Nat]]
      /\ cache' \in [Tabs -> SUBSET Users] /\ current' \in [Tabs -> Nat \cup {None}]
      /\ logout' \in [Tabs -> SignOut \cup {Quiet}] /\ login' \in [Tabs -> SignIn \cup {Quiet}]
  BY <1>0 DEF TypeOK, Loading
<1>6. TypeOK'
  BY <1>0, <1>1, <1>3, <1>4, <1>5 DEF TypeOK
<1>7. CookiesAreOwned'
  BY <1>0, <1>4 DEF CookiesAreOwned, Owner
<1>8. RotationsFit'
  BY <1>4 DEF RotationsFit
<1>9. TabFits(t)' /\ SignOutFits(t)' /\ SignInFits(t)'
  BY <1>5 DEF TabFits, SignOutFits, SignInFits
<1>10. EndedFits(t)' /\ CookieIsNewest(t)'
  BY <1>0, <1>1, <1>2, <1>5 DEF EndedFits, CookieIsNewest, Owner
<1> QED
  BY <1>3, <1>6, <1>7, <1>8, <1>9, <1>10, OneTabIsEnough

-----------------------------------------------------------------------------
(* Every step, and what follows. *)

\* A tab that has just been opened shows nobody, and the server knows no family.
LEMMA InitHasInvariant ==
  ASSUME ConstantsAreValid, Init
  PROVE  ClientInvariant
<1> USE DEF Init, Quiet, Loading, NoCookie, None
<1>1. TypeOK
  BY DEF TypeOK, Cookie, ConstantsAreValid
<1>2. CookiesAreOwned /\ RotationsFit
  BY DEF CookiesAreOwned, RotationsFit
<1>3. ASSUME NEW t \in Tabs
      PROVE  /\ TabFits(t) /\ SignOutFits(t) /\ SignInFits(t)
             /\ EndedFits(t) /\ CookieIsNewest(t)
  BY DEF TabFits, SignOutFits, SignInFits, EndedFits, CookieIsNewest
<1>4. ASSUME NEW c \in Calls \cup Tabs PROVE CallFits(c)
  BY DEF CallFits
<1> QED
  BY <1>1, <1>2, <1>3, <1>4 DEF ClientInvariant

\* Whatever overtakes what, every step of the tab and the server keeps the invariant.
LEMMA NextKeepsInvariant ==
  ASSUME ConstantsAreValid, OneTab, ClientInvariant, [Next]_vars
  PROVE  ClientInvariant'
<1>0. TypeOK
  BY DEF ClientInvariant
<1>1. CASE UNCHANGED vars
  <2>1. TypeOK' /\ CookiesAreOwned' /\ RotationsFit'
    BY <1>1 DEF vars, ClientInvariant, TypeOK, CookiesAreOwned, RotationsFit, Owner
  <2>2. ASSUME NEW t \in Tabs
        PROVE  /\ TabFits(t)' /\ SignOutFits(t)' /\ SignInFits(t)' /\ EndedFits(t)'
               /\ CookieIsNewest(t)'
    <3>1. TabFits(t)' /\ EndedFits(t)'
      BY <1>1, Parts DEF vars, TabFits, EndedFits, JarIsFor, Owner
    <3>2. SignOutFits(t)'
      BY <1>1, Parts DEF vars, SignOutFits, Owner
    <3>3. SignInFits(t)' /\ CookieIsNewest(t)'
      BY <1>1, Parts DEF vars, SignInFits, CookieIsNewest, Owner
    <3> QED
      BY <3>1, <3>2, <3>3
  <2>3. ASSUME NEW c \in Calls \cup Tabs PROVE CallFits(c)'
    BY <1>1 DEF vars, ClientInvariant, CallFits, Current, JarIsFor, Owner
  <2> QED
    BY <2>1, <2>2, <2>3 DEF ClientInvariant
<1>2. ASSUME NEW t \in Tabs,
             \/ Boot(t) \/ Reload(t)
             \/ \E c \in Calls : Ask(t, c)
             \/ \E u \in Users \cup {NoUser} : BeginLogout(t, u)
             \/ ServeLogout(t) \/ DeliverLogout(t) \/ LoseLogout(t)
             \/ \E u \in Users : BeginLogin(t, u)
             \/ ServeLogin(t) \/ DeliverLogin(t) \/ LoseLogin(t)
      PROVE  ClientInvariant'
  BY <1>2, BootKeepsInvariant, ReloadKeepsInvariant, AskKeepsInvariant,
     BeginLogoutKeepsInvariant, ServeLogoutKeepsInvariant, DeliverLogoutKeepsInvariant,
     LoseLogoutKeepsInvariant, BeginLoginKeepsInvariant, ServeLoginKeepsInvariant,
     DeliverLoginKeepsInvariant, LoseLoginKeepsInvariant
<1>3. ASSUME NEW c \in DOMAIN call, Send(c) \/ Succeed(c) \/ Unauthorized(c) \/ Fail(c)
      PROVE  ClientInvariant'
  <2>1. c \in Calls \cup Tabs /\ call[c] # Quiet
    BY <1>0, <1>3, Shapes DEF TypeOK, Send, Succeed, Unauthorized, Fail
  <2>2. PICK t \in Tabs : t = call[c].tab
    BY <1>0, <2>1, Shapes DEF Request
  <2> QED
    BY <1>3, <2>1, <2>2, SendKeepsInvariant, SucceedKeepsInvariant,
       UnauthorizedKeepsInvariant, FailKeepsInvariant
<1>4. ASSUME NEW p \in rotations, ServeRotation(p) \/ DeliverRotation(p) \/ LoseRotation(p)
      PROVE  ClientInvariant'
  <2>1. PICK t \in Tabs : t = p.tab
    BY <1>0 DEF TypeOK, Rotation
  <2> QED
    BY <1>4, <2>1, ServeRotationKeepsInvariant, DeliverRotationKeepsInvariant,
       LoseRotationKeepsInvariant
<1>5. CASE Rest
  BY <1>1, <1>5 DEF Rest
<1> QED
  BY <1>1, <1>2, <1>3, <1>4, <1>5 DEF Next

\* The inductive invariant, for a browser with one tab.
THEOREM ClientInvariantHolds ==
  ASSUME ConstantsAreValid, OneTab PROVE Spec => []ClientInvariant
<1>1. Init => ClientInvariant
  BY InitHasInvariant
<1>2. ClientInvariant /\ [Next]_vars => ClientInvariant'
  BY NextKeepsInvariant
<1> QED
  BY <1>1, <1>2, PTL DEF Spec

\* A tab is one person: requests on the way, token and cached private data are those of
\* the account it shows, whatever sign-outs, sign-ins and rotations overtake one another
\* (requireCurrentSession, clearAuthenticatedSession, settleSessionRequests).
THEOREM OneTabIsOnePerson ==
  ASSUME ConstantsAreValid, OneTab PROVE Spec => []SessionIsOnePerson
<1>1. ClientInvariant => SessionIsOnePerson
  <2> SUFFICES ASSUME ClientInvariant PROVE SessionIsOnePerson
    OBVIOUS
  <2>1. NeverAsSomebodyElse
    BY DEF ClientInvariant, TypeOK, CallFits, NeverAsSomebodyElse
  <2>2. ASSUME NEW t \in Tabs
        PROVE  /\ tab[t].status = "authenticated" => tab[t].token = tab[t].user
               /\ cache[t] \subseteq {tab[t].user}
    BY DEF ClientInvariant, TabFits
  <2> QED
    BY <2>1, <2>2 DEF SessionIsOnePerson
<1> QED
  BY <1>1, ClientInvariantHolds, PTL

\* After a confirmed sign-out the families it covered are closed for good and the browser
\* holds no cookie, also not that of a rotation the sign-out overtook (coordinateLogout).
THEOREM SignOutsAreFinal ==
  ASSUME ConstantsAreValid, OneTab PROVE Spec => []LogoutIsFinal
<1>1. ClientInvariant => LogoutIsFinal
  BY DEF ClientInvariant, EndedFits, LogoutIsFinal
<1> QED
  BY <1>1, ClientInvariantHolds, PTL

\* Without a lost answer or a reload no cookie is presented twice (refreshAccessToken,
\* settleSessionRequests).
THEOREM CookiesAreUsedOnce ==
  ASSUME ConstantsAreValid, OneTab PROVE Spec => []NeverReplayed
<1>1. ASSUME ClientInvariant PROVE NeverReplayed
  <2>1. PICK t \in Tabs : TRUE
    BY DEF ConstantsAreValid
  <2>2. CookieIsNewest(t)
    BY <1>1, <2>1 DEF ClientInvariant
  <2> QED
    BY <2>2 DEF CookieIsNewest, NeverReplayed
<1> QED
  BY <1>1, ClientInvariantHolds, PTL
=============================================================================
