------------------------ MODULE ClientSessionSafety ------------------------
(***************************************************************************)
(* What a tab owes to the person who signed in, whatever overtakes what.   *)
(***************************************************************************)
EXTENDS ClientSession

Request == [phase: {"queued", "flying", "waiting"}, tab: Tabs, version: Nat,
            user: Users \cup {NoUser}, bearer: Users \cup {NoUser}, retried: BOOLEAN]

Cookie == [family: Families \cup {0}, generation: Nat]

Rotation == [tab: Tabs, by: Calls \cup Tabs, version: Nat,
             cookie: [family: Families, generation: Nat],
             phase: {"sent", "granted", "refused"}, heard: BOOLEAN]

SignOut == [phase: {"waiting", "sent", "granted", "refused"}, awaits: Nat \cup {None},
            version: Nat, cookie: Cookie, everywhere: Users \cup {NoUser},
            covers: SUBSET Families]

SignIn == [phase: {"settling", "sent", "granted", "refused"}, user: Users, version: Nat,
           awaits: Nat \cup {None}, family: Families \cup {0}]

TypeOK ==
    /\ families \in [Families -> [owner: Users \cup {NoUser}, newest: Nat,
                                  open: BOOLEAN, replayed: BOOLEAN]]
    /\ jar \in Cookie
    /\ tab \in [Tabs -> [status: {"bootstrapping", "authenticated", "unauthenticated"},
                         user: Users \cup {NoUser}, token: Users \cup {NoUser}, version: Nat]]
    /\ cache \in [Tabs -> SUBSET Users]
    /\ rotations \subseteq Rotation
    /\ current \in [Tabs -> Nat \cup {None}]
    /\ logout \in [Tabs -> SignOut \cup {Quiet}]
    /\ login \in [Tabs -> SignIn \cup {Quiet}]
    /\ call \in [Calls \cup Tabs -> Request \cup {Quiet}]
    /\ refusals \in 0..MaxRefusals /\ losses \in 0..MaxLosses
    /\ ended \in [Tabs -> SUBSET Families]

\* What a page asked for as one account reaches the server with the bearer of
\* that account, also after a rotation and a retry (Send, Settle).
NeverAsSomebodyElse ==
    \A c \in DOMAIN call : call[c] # Quiet /\ call[c].phase = "flying" =>
        call[c].user = call[c].bearer

\* A tab is one person: the requests on the way, the token and the cached
\* private data are those of the account it shows (requireCurrentSession,
\* clearAuthenticatedSession, settleSessionRequests).
SessionIsOnePerson ==
    /\ NeverAsSomebodyElse
    /\ \A t \in Tabs :
        /\ tab[t].status = "authenticated" => tab[t].token = tab[t].user
        /\ cache[t] \subseteq {tab[t].user}

\* After a confirmed sign-out its families are closed for good and the browser
\* holds no cookie, also not that of a rotation the sign-out overtook
\* (coordinateLogout).
LogoutIsFinal ==
    \A t \in Tabs : ended[t] # {} =>
        /\ jar = NoCookie
        /\ tab[t].status # "authenticated"
        /\ \A f \in ended[t] : ~families[f].open

\* While no answer is lost and no tab reloaded, no cookie is presented twice:
\* the server would take it for a replay and end the session
\* (refreshAccessToken, settleSessionRequests).
NeverReplayed ==
    losses = 0 => \A f \in Families : ~families[f].replayed

-----------------------------------------------------------------------------
\* The inductive invariant behind the three, for a browser with one tab.

OneTab == \A s, t \in Tabs : s = t

Owner(f) == families[f].owner

\* The cookie is that of u, or there is none.
JarIsFor(u) == jar = NoCookie \/ (jar.family \in Families /\ Owner(jar.family) = u)

CookiesAreOwned ==
    /\ jar = NoCookie \/ (jar.family \in Families /\ Owner(jar.family) \in Users)
    /\ \A p \in rotations : Owner(p.cookie.family) \in Users
    /\ \A f \in Families : families[f].open => Owner(f) \in Users

\* At most one rotation will still be heard, and it carries the cookie of the jar.
RotationsFit ==
    /\ \A p \in rotations :
         /\ p.heard => /\ current[p.tab] = p.version
                       /\ p.cookie = jar
                       /\ p.phase = "refused" => ~families[p.cookie.family].open
         /\ ~p.heard => p.phase = "sent"
    /\ \A p, q \in rotations : p.heard /\ q.heard => p = q

\* A version of the store is one person, and has rotations of its own.
TabFits(t) ==
    /\ tab[t].status = "authenticated" =>
         /\ tab[t].user \in Users /\ tab[t].token = tab[t].user
         /\ cache[t] \subseteq {tab[t].user}
         /\ JarIsFor(tab[t].user)
    /\ tab[t].status # "authenticated" => cache[t] = {}
    /\ IF tab[t].status = "unauthenticated" THEN current[t] < tab[t].version
       ELSE /\ current[t] \in {None, tab[t].version}
            /\ logout[t] = Quiet /\ login[t] = Quiet

CallFits(c) ==
    call[c] # Quiet =>
        /\ c \in Tabs => call[c].tab = c /\ call[c].phase # "queued"
        /\ call[c].version <= tab[call[c].tab].version
        /\ call[c].phase = "flying" => call[c].user = call[c].bearer /\ call[c].user \in Users
        /\ Current(c) =>
             IF c \in Tabs
             THEN /\ tab[c].status = "bootstrapping"
                  /\ call[c].user # NoUser => JarIsFor(call[c].user)
                  /\ call[c].phase = "flying" => current[c] = None
             ELSE /\ tab[call[c].tab].status = "authenticated"
                  /\ call[c].user = tab[call[c].tab].user

\* A sign-out waits for the rotation on the way; once it is on its own way it
\* closes what it covers.
SignOutFits(t) ==
    LET l == logout[t] IN
    l # Quiet =>
        /\ tab[t].status = "unauthenticated"
        /\ IF l.phase = "waiting" THEN l.awaits = current[t] ELSE current[t] = None
        /\ \A f \in l.covers :
             /\ Owner(f) \in Users
             /\ l.everywhere # NoUser => Owner(f) = l.everywhere
             /\ families[f].open => /\ l.phase # "granted"
                                    /\ \/ l.everywhere # NoUser
                                       \/ l.phase = "waiting" /\ jar.family = f
                                       \/ l.phase # "waiting" /\ l.cookie.family = f

\* A sign-in is on its way only after everything else has settled.
SignInFits(t) ==
    LET l == login[t] IN
    l # Quiet =>
        /\ tab[t].status = "unauthenticated"
        /\ l.phase = "settling" /\ l.awaits # None => logout[t] = Quiet
        /\ l.phase # "settling" => current[t] = None /\ logout[t] = Quiet
        /\ l.phase = "granted" =>
             /\ l.family \in Families /\ Owner(l.family) = l.user
             /\ losses = 0 => /\ families[l.family].open
                              /\ families[l.family].newest = 1

EndedFits(t) ==
    ended[t] # {} =>
        /\ jar = NoCookie
        /\ tab[t].status # "authenticated"
        /\ tab[t].status = "bootstrapping" => call[t] = Quiet
        /\ \A f \in ended[t] : ~families[f].open /\ Owner(f) \in Users

\* Without a loss the cookie of the jar is the newest of an open family, but
\* for answers that have not come.
CookieIsNewest(t) ==
    losses = 0 =>
        /\ \A p \in rotations : p.heard /\ p.phase # "refused"
        /\ \A f \in Families : ~families[f].replayed
        /\ jar # NoCookie =>
             \/ logout[t] # Quiet /\ logout[t].phase = "granted"
             \/ /\ families[jar.family].open
                /\ families[jar.family].newest =
                     IF \E p \in rotations : p.phase = "granted"
                     THEN jar.generation + 1 ELSE jar.generation

ClientInvariant ==
    /\ TypeOK
    /\ CookiesAreOwned
    /\ RotationsFit
    /\ \A t \in Tabs : /\ TabFits(t) /\ SignOutFits(t) /\ SignInFits(t)
                       /\ EndedFits(t) /\ CookieIsNewest(t)
    /\ \A c \in Calls \cup Tabs : CallFits(c)
=============================================================================
