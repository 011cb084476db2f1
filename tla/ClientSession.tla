---------------------------- MODULE ClientSession ----------------------------
(***************************************************************************)
(* The session coordinator of the browser (services/apiClient.ts, the      *)
(* stores and hooks of features/auth and the guarded hooks of the private  *)
(* pages), with the cookies its tabs share and the answers of the session  *)
(* routes.                                                                 *)
(*                                                                         *)
(* A tab runs one task at a time, to the end of the promises the task      *)
(* settles: an action is such a task, or a step of the server.  Requests   *)
(* and answers travel apart from each other, overtake and get lost.        *)
(***************************************************************************)
EXTENDS Integers, FiniteSets

CONSTANTS
    Tabs,         \* the tabs of one browser
    Users,
    Calls,        \* private requests that can be open at a time
    NoUser,
    MaxLogins,    \* bound on the families the server opens
    MaxRefusals,  \* bound on the access tokens the server finds expired
    MaxLosses     \* bound on lost answers and reloads

ConstantsAreValid ==
    /\ NoUser \notin Users /\ Tabs # {} /\ Tabs \cap Calls = {}
    /\ MaxLogins \in Nat /\ MaxRefusals \in Nat /\ MaxLosses \in Nat

VARIABLES
    families,   \* server: owner, newest generation, open, a replay was seen
    jar,        \* the session cookies: family and generation
    tab,        \* authStore: status, user, token (as its owner), sessionVersion
    cache,      \* per tab, whose private data the query cache holds
    rotations,  \* POST /auth/refresh on the way, with the version of the tab
    current,    \* the version whose rotation is refreshPromise, or None
    logout,     \* logoutPromise
    login,      \* the login the form waits for
    call,       \* requests through apiClient; a tab names its GET /auth/me
    refusals, losses,
    ended       \* the families a confirmed logout was to end, until a login

vars == <<families, jar, tab, cache, rotations, current, logout, login, call,
          refusals, losses, ended>>

Families == 1..MaxLogins
None == -1
NoCookie == [family |-> 0, generation |-> 0]

Loading == [status |-> "bootstrapping", user |-> NoUser, token |-> NoUser, version |-> 0]
Quiet == [phase |-> "none"]

Unopened == {f \in Families : families[f].owner = NoUser}

Init ==
    /\ families = [f \in Families |->
            [owner |-> NoUser, newest |-> 0, open |-> FALSE, replayed |-> FALSE]]
    /\ jar = NoCookie
    /\ tab = [t \in Tabs |-> Loading]
    /\ cache = [t \in Tabs |-> {}]
    /\ rotations = {}
    /\ current = [t \in Tabs |-> None]
    /\ logout = [t \in Tabs |-> Quiet]
    /\ login = [t \in Tabs |-> Quiet]
    /\ call = [c \in Calls \cup Tabs |-> Quiet]
    /\ refusals = 0 /\ losses = 0
    /\ ended = [t \in Tabs |-> {}]

-----------------------------------------------------------------------------
(* What the tasks of a tab are made of. *)

Cleared(s) ==
    [status |-> "unauthenticated", user |-> NoUser, token |-> NoUser,
     version |-> s.version + 1]

Authenticated(s, token, user) ==
    [status |-> "authenticated", user |-> user, token |-> token, version |-> s.version + 1]

Clear(t) ==
    /\ tab' = [tab EXCEPT ![t] = Cleared(@)]
    /\ cache' = [cache EXCEPT ![t] = {}]

\* Mutant: no requireCurrentSession.
CurrentAlways(c) == TRUE

\* requireCurrentSession, with the version the request was made in.
Current(c) == call[c].version = tab[call[c].tab].version

\* Mutant: every 401 rotates the cookie.
SharesNever(t) == FALSE

\* refreshAccessToken hands out the promise of a rotation of this version.
Shares(t) == current[t] = tab[t].version

Refresh(t, c) ==
    IF Shares(t) THEN UNCHANGED <<rotations, current>>
    ELSE /\ rotations' = rotations \cup
                {[tab |-> t, by |-> c, version |-> tab[t].version, cookie |-> jar,
                  phase |-> "sent", heard |-> TRUE]}
         /\ current' = [current EXCEPT ![t] = tab[t].version]

\* The revocation goes out with the cookie of that moment, or with the bearer.
Revoke(l, cookie) == [l EXCEPT !.phase = "sent", !.cookie = cookie]

Post(l, version) == [l EXCEPT !.phase = "sent", !.version = version]

Drop(c) == call' = [call EXCEPT ![c] = Quiet]

-----------------------------------------------------------------------------
(* The start of a tab, the requests of its pages and their answers. *)

Boot(t) ==
    /\ tab[t].status = "bootstrapping" /\ call[t] = Quiet
    /\ IF jar = NoCookie THEN Clear(t) /\ UNCHANGED <<rotations, current, call>>
       ELSE /\ Refresh(t, t)
            /\ call' = [call EXCEPT ![t] =
                    [phase |-> "waiting", tab |-> t, version |-> tab[t].version,
                     user |-> NoUser, bearer |-> NoUser, retried |-> FALSE]]
            /\ UNCHANGED <<tab, cache>>
    /\ UNCHANGED <<families, jar, logout, login, refusals, losses, ended>>

\* A page asks for or changes private data; offline, the query client holds
\* the request back, and the page has kept the version it was drawn with.
Ask(t, c) ==
    /\ tab[t].status = "authenticated" /\ call[c] = Quiet
    /\ call' = [call EXCEPT ![c] =
            [phase |-> "queued", tab |-> t, version |-> tab[t].version,
             user |-> tab[t].user, bearer |-> NoUser, retried |-> FALSE]]
    /\ UNCHANGED <<families, jar, tab, cache, rotations, current, logout, login,
                   refusals, losses, ended>>

Send(c) ==
    /\ call[c].phase = "queued"
    /\ IF Current(c)
       THEN call' = [call EXCEPT ![c].phase = "flying", ![c].bearer = tab[call[c].tab].token]
       ELSE Drop(c)
    /\ UNCHANGED <<families, jar, tab, cache, rotations, current, logout, login,
                   refusals, losses, ended>>

\* Private data goes to the cache, the account of /auth/me to the store.
Succeed(c) ==
    LET t == call[c].tab IN
    /\ call[c].phase = "flying"
    /\ IF Current(c) /\ c \in Tabs
       THEN /\ tab' = [tab EXCEPT ![t] = Authenticated(@, call[c].user, call[c].bearer)]
            /\ UNCHANGED cache
       ELSE /\ cache' = IF Current(c) THEN [cache EXCEPT ![t] = @ \cup {call[c].bearer}] ELSE cache
            /\ UNCHANGED tab
    /\ Drop(c)
    /\ UNCHANGED <<families, jar, rotations, current, logout, login, refusals, losses, ended>>

\* A 401 that names Bearer: wait once for a new token, then give the session
\* up.  While a sign-out is pending no request is current.
GivesUp(c) ==
    call[c].retried \/ (~Shares(call[c].tab) /\ jar = NoCookie)

Unauthorized(c) ==
    LET t == call[c].tab IN
    /\ call[c].phase = "flying" /\ refusals < MaxRefusals
    /\ refusals' = refusals + 1
    /\ \/ ~Current(c) /\ Drop(c) /\ UNCHANGED <<tab, cache, rotations, current>>
       \/ /\ Current(c) /\ GivesUp(c)
          /\ Clear(t) /\ Drop(c) /\ UNCHANGED <<rotations, current>>
       \/ /\ Current(c) /\ ~GivesUp(c) /\ logout[t] = Quiet
          /\ Refresh(t, c)
          /\ call' = [call EXCEPT ![c].phase = "waiting", ![c].retried = TRUE]
          /\ UNCHANGED <<tab, cache>>
    /\ UNCHANGED <<families, jar, logout, login, losses, ended>>

\* Without an answer, or with another error, only the start of a tab gives up.
Fail(c) ==
    /\ call[c].phase = "flying" /\ losses < MaxLosses
    /\ losses' = losses + 1
    /\ IF c \in Tabs /\ Current(c) THEN Clear(c) ELSE UNCHANGED <<tab, cache>>
    /\ Drop(c)
    /\ UNCHANGED <<families, jar, rotations, current, logout, login, refusals, ended>>

-----------------------------------------------------------------------------
(* The rotation of the cookies. *)

\* rotate_session: a token that is not the newest of an open family is a
\* replay and ends the family.
ServeRotation(p) ==
    LET f == p.cookie.family
        Fresh == families[f].open /\ families[f].newest = p.cookie.generation IN
    /\ p \in rotations /\ p.phase = "sent"
    /\ families' = IF Fresh THEN [families EXCEPT ![f].newest = @ + 1]
                   ELSE [families EXCEPT ![f].open = FALSE, ![f].replayed = TRUE]
    /\ rotations' = (rotations \ {p}) \cup
            IF ~p.heard THEN {}
            ELSE {[p EXCEPT !.phase = IF Fresh THEN "granted" ELSE "refused"]}
    /\ UNCHANGED <<jar, tab, cache, current, logout, login, call, refusals, losses, ended>>

\* The promise of p settles, and with it everything that waits for it.
Settle(p, granted) ==
    LET t == p.tab
        owner == families[p.cookie.family].owner
        accepted == granted /\ tab[t].version = p.version
        Waits(c) == call[c].phase = "waiting" /\ call[c].tab = t /\ call[c].version = p.version IN
    /\ IF accepted THEN /\ tab' = [tab EXCEPT ![t].token = owner]
                        /\ UNCHANGED cache
       ELSE IF tab[t].version = p.version THEN Clear(t) ELSE UNCHANGED <<tab, cache>>
    /\ call' = [c \in DOMAIN call |->
            IF ~Waits(c) THEN call[c]
            ELSE IF ~accepted THEN Quiet
            ELSE [call[c] EXCEPT !.phase = "flying", !.bearer = owner,
                                 !.user = IF c = t /\ @ = NoUser THEN owner ELSE @]]
    /\ current' = [current EXCEPT ![t] = IF @ = p.version THEN None ELSE @]
    /\ logout' = [logout EXCEPT ![t] =
            IF @.phase = "waiting" /\ @.awaits = p.version THEN Revoke(@, jar') ELSE @]
    /\ login' = [login EXCEPT ![t] =
            IF @.phase = "settling" /\ @.awaits = p.version THEN Post(@, tab'[t].version) ELSE @]

\* The browser takes the cookies of an answer before the tab looks at it.
DeliverRotation(p) ==
    /\ p \in rotations /\ p.phase # "sent"
    /\ rotations' = rotations \ {p}
    /\ jar' = IF p.phase = "granted"
              THEN [p.cookie EXCEPT !.generation = @ + 1] ELSE NoCookie
    /\ Settle(p, p.phase = "granted")
    /\ UNCHANGED <<families, refusals, losses, ended>>

\* Lost, or given up after the timeout: the server may still come to it.
LoseRotation(p) ==
    /\ p \in rotations /\ p.heard /\ losses < MaxLosses
    /\ losses' = losses + 1
    /\ rotations' = (rotations \ {p}) \cup
            IF p.phase = "sent" THEN {[p EXCEPT !.heard = FALSE]} ELSE {}
    /\ jar' = jar
    /\ Settle(p, FALSE)
    /\ UNCHANGED <<families, refusals, ended>>

-----------------------------------------------------------------------------
(* Signing out. *)

\* Mutant: the revocation does not wait for the rotation on the way.
NothingToAwait(t) == None

\* coordinateLogout lets a dispatched rotation set its cookie first.
RotationToAwait(t) == current[t]

\* everywhere is NoUser for the current session, or whose sessions all end.
BeginLogout(t, everywhere) ==
    LET covered == {f \in Families : families[f].open /\
            IF everywhere = NoUser THEN f = jar.family ELSE families[f].owner = everywhere}
        l == [phase |-> "waiting", awaits |-> RotationToAwait(t),
              version |-> tab[t].version + 1, cookie |-> NoCookie,
              everywhere |-> everywhere, covers |-> covered] IN
    /\ tab[t].status = "authenticated" /\ logout[t] = Quiet
    /\ everywhere \in {NoUser, tab[t].token}
    /\ Clear(t)
    /\ logout' = [logout EXCEPT ![t] = IF l.awaits = None THEN Revoke(l, jar) ELSE l]
    /\ UNCHANGED <<families, jar, rotations, current, login, call, refusals, losses, ended>>

\* logout_current ends the family even of an older cookie; logout_all needs a
\* bearer that is still accepted.
ServeLogout(t) ==
    LET l == logout[t]
        Ends(f) == IF l.everywhere = NoUser THEN f = l.cookie.family
                   ELSE families[f].owner = l.everywhere IN
    /\ l.phase = "sent"
    /\ \/ /\ families' = [f \in Families |->
                IF Ends(f) THEN [families[f] EXCEPT !.open = FALSE] ELSE families[f]]
          /\ logout' = [logout EXCEPT ![t].phase = "granted"]
          /\ UNCHANGED refusals
       \/ /\ l.everywhere # NoUser /\ refusals < MaxRefusals
          /\ refusals' = refusals + 1
          /\ logout' = [logout EXCEPT ![t].phase = "refused"]
          /\ UNCHANGED families
    /\ UNCHANGED <<jar, tab, cache, rotations, current, login, call, losses, ended>>

\* The end of coordinateLogout; a login that waited looks for a rotation next.
Conclude(t) ==
    /\ IF tab[t].version = logout[t].version THEN Clear(t) ELSE UNCHANGED <<tab, cache>>
    /\ logout' = [logout EXCEPT ![t] = Quiet]
    /\ login' = [login EXCEPT ![t] =
            IF @.phase # "settling" \/ @.awaits # None THEN @
            ELSE IF current[t] = None THEN Post(@, tab'[t].version)
            ELSE [@ EXCEPT !.awaits = current[t]]]

DeliverLogout(t) ==
    LET confirmed == logout[t].phase = "granted" IN
    /\ logout[t].phase \in {"granted", "refused"}
    /\ jar' = IF confirmed THEN NoCookie ELSE jar
    /\ ended' = IF confirmed THEN [ended EXCEPT ![t] = logout[t].covers] ELSE ended
    /\ Conclude(t)
    /\ UNCHANGED <<families, rotations, current, call, refusals, losses>>

LoseLogout(t) ==
    /\ logout[t].phase \in {"sent", "granted", "refused"} /\ losses < MaxLosses
    /\ losses' = losses + 1
    /\ Conclude(t)
    /\ UNCHANGED <<families, jar, rotations, current, call, refusals, ended>>

-----------------------------------------------------------------------------
(* Signing in, and the reload of a tab. *)

\* settleSessionRequests: after a sign-out (None) or a rotation on the way.
BeginLogin(t, u) ==
    LET l == [phase |-> "settling", user |-> u, version |-> tab[t].version,
              awaits |-> current[t], family |-> 0] IN
    /\ tab[t].status = "unauthenticated" /\ login[t] = Quiet /\ Unopened # {}
    /\ login' = [login EXCEPT ![t] =
            IF logout[t] # Quiet THEN [l EXCEPT !.awaits = None]
            ELSE IF current[t] # None THEN l ELSE Post(l, tab[t].version)]
    /\ UNCHANGED <<families, jar, tab, cache, rotations, current, logout, call,
                   refusals, losses, ended>>

\* A family opens, or the credentials are wrong.
ServeLogin(t) ==
    /\ login[t].phase = "sent"
    /\ \/ \E f \in Unopened :
            /\ families' = [families EXCEPT ![f] =
                    [owner |-> login[t].user, newest |-> 1, open |-> TRUE, replayed |-> FALSE]]
            /\ login' = [login EXCEPT ![t].phase = "granted", ![t].family = f]
       \/ /\ login' = [login EXCEPT ![t].phase = "refused"]
          /\ UNCHANGED families
    /\ UNCHANGED <<jar, tab, cache, rotations, current, logout, call, refusals, losses, ended>>

DeliverLogin(t) ==
    LET l == login[t] IN
    /\ l.phase \in {"granted", "refused"}
    /\ IF l.phase = "refused" THEN UNCHANGED <<jar, ended>>
       ELSE /\ jar' = [family |-> l.family, generation |-> 1]
            /\ ended' = [ended EXCEPT ![t] = {}]
    /\ tab' = IF l.phase = "granted" /\ l.version = tab[t].version
              THEN [tab EXCEPT ![t] = Authenticated(@, l.user, l.user)] ELSE tab
    /\ login' = [login EXCEPT ![t] = Quiet]
    /\ UNCHANGED <<families, cache, rotations, current, logout, call, refusals, losses>>

LoseLogin(t) ==
    /\ login[t].phase \in {"sent", "granted"} /\ losses < MaxLosses
    /\ losses' = losses + 1
    /\ login' = [login EXCEPT ![t] = Quiet]
    /\ UNCHANGED <<families, jar, tab, cache, rotations, current, logout, call, refusals, ended>>

\* All a tab knows is in memory; its rotation may still reach the server.
Reload(t) ==
    /\ losses < MaxLosses
    /\ losses' = losses + 1
    /\ tab' = [tab EXCEPT ![t] = Loading]
    /\ cache' = [cache EXCEPT ![t] = {}]
    /\ rotations' = {p \in rotations : p.tab # t}
            \cup {[p EXCEPT !.heard = FALSE] : p \in {q \in rotations : q.tab = t /\ q.phase = "sent"}}
    /\ current' = [current EXCEPT ![t] = None]
    /\ logout' = [logout EXCEPT ![t] = Quiet]
    /\ login' = [login EXCEPT ![t] = Quiet]
    /\ call' = [c \in DOMAIN call |->
            IF call[c] # Quiet /\ call[c].tab = t THEN Quiet ELSE call[c]]
    /\ UNCHANGED <<families, jar, refusals, ended>>

\* Nothing is on the way.  A state that is neither at rest nor has a step is
\* one in which promises wait for each other.
Rest ==
    /\ rotations = {}
    /\ \A t \in Tabs : logout[t] = Quiet /\ login[t] = Quiet
    /\ \A c \in DOMAIN call : call[c] = Quiet
    /\ UNCHANGED vars

Next ==
    \/ \E t \in Tabs :
        \/ Boot(t) \/ Reload(t)
        \/ \E c \in Calls : Ask(t, c)
        \/ \E u \in Users \cup {NoUser} : BeginLogout(t, u)
        \/ ServeLogout(t) \/ DeliverLogout(t) \/ LoseLogout(t)
        \/ \E u \in Users : BeginLogin(t, u)
        \/ ServeLogin(t) \/ DeliverLogin(t) \/ LoseLogin(t)
    \/ \E c \in DOMAIN call : Send(c) \/ Succeed(c) \/ Unauthorized(c) \/ Fail(c)
    \/ \E p \in rotations : ServeRotation(p) \/ DeliverRotation(p) \/ LoseRotation(p)
    \/ Rest

Spec == Init /\ [][Next]_vars
=============================================================================
