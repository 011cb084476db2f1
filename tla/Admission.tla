------------------------------ MODULE Admission ------------------------------
(***************************************************************************)
(* What a request passes before its operation runs: the boundaries around  *)
(* the application (core/*_security.py), the dependencies of the routes    *)
(* (api/v1/*/dependencies.py, api/rate_limits.py) and the slots of the     *)
(* uploads.                                                                *)
(*                                                                         *)
(* A route is the sequence of its gates.  The requests of a server stand   *)
(* at different gates at a time; the modelled span is one window of the    *)
(* limiters (module RateLimiter has their clocks and keys).                *)
(***************************************************************************)
EXTENDS Integers, Sequences, FiniteSets

CONSTANTS
    Requests,      \* requests under way at a time
    Peers,         \* addresses of clients
    Accounts,      \* users, and the identifiers and cookies that name them
    PeerLimit,     \* max_requests of the limiters keyed by peer
    AccountLimit,  \* max_requests of the others
    EvidenceSlots, \* MAX_CONCURRENT_EVIDENCE_UPLOADS
    ImageSlots,    \* of image_file
    DecoderSlots,  \* of sanitize_product_image
    MaxArrivals    \* bound on the requests

VARIABLES
    offered,  \* the routes in use: two that share a limiter or a pool
    request,  \* where each request stands
    receipts, \* what the limiters have accepted
    free,     \* free slots of each pool
    arrivals

vars == <<offered, request, receipts, free, arrivals>>

Size == [evidence |-> EvidenceSlots, images |-> ImageSlots, decoder |-> DecoderSlots]

Pools == DOMAIN Size

ConstantsAreValid ==
    /\ {PeerLimit, AccountLimit, EvidenceSlots, ImageSlots, DecoderSlots} \subseteq Nat \ {0}
    /\ ImageSlots <= DecoderSlots
    /\ MaxArrivals \in Nat

-----------------------------------------------------------------------------
(* Gates. *)

\* A limiter, keyed by the peer, by the signed-in user, or by an account that
\* the request names.
Peer(limiter) == [by |-> "peer", of |-> limiter]
User(limiter) == [by |-> "user", of |-> limiter]
Named(limiter) == [by |-> "name", of |-> limiter]

\* What a request fulfils or not.
Check(what) == [by |-> "check", of |-> what]

Take(pool) == [by |-> "take", of |-> pool]
Return(pool) == [by |-> "return", of |-> pool]

\* A body of the right form and size that arrives in time.
Body == Check("body")
Upload == Check("upload")
Origin == Check("origin")
Bearer == Check("bearer")

\* enforce_authenticated_limit, of a user get_current_user has found.
SignedIn(peers, users) == <<Bearer, Peer(peers), User(users)>>

-----------------------------------------------------------------------------
(* The routes of accounts.  The framework reads a body before it comes to     *)
(* their limiters.                                                            *)

Register == <<Body, Peer("registration")>>
VerifyPhone == <<Body, Peer("phone")>>
Login == <<Body, Peer("login"), Named("login"), Origin>>
ForgotPassword == <<Body, Origin, Peer("forgot"), Named("forgot")>>

\* Mutant: the limiter of the account comes before that of the peer.
ResetPasswordAccountFirst == <<Body, Origin, Named("reset"), Peer("reset")>>

ResetPassword == <<Body, Origin, Peer("reset"), Named("reset")>>
ChangePassword == <<Body, Origin>> \o SignedIn("change", "change")
Refresh == <<Origin, Peer("refresh"), Named("refresh")>>
Logout == <<Origin, Peer("logout")>>
LogoutAll == <<Origin, Bearer, User("logout-all")>>
ResendEmail == <<Body, Origin>> \o SignedIn("resend-email", "resend-email")
VerifyEmail == <<Body, Origin>> \o SignedIn("verify-email", "verify-email")

UpdateProfile == <<Body>> \o SignedIn("profile", "profile")
Onboard == <<Body>> \o SignedIn("onboarding", "onboarding")
PublicProfile == <<Peer("public-profile")>>

-----------------------------------------------------------------------------
(* The routes with a boundary, where a peer pays before its body is read.     *)

CatalogBoundary(admin) ==
    IF admin THEN <<Peer("admin-catalog"), Body>> ELSE <<Peer("catalog")>>

CatalogAdmin == SignedIn("catalog-admins", "catalog-admin")

ListingBoundary(kind) ==
    CASE kind = "read" -> <<Peer("listings")>>
      [] kind = "browse" -> <<Peer("listings"), Peer("browse")>>
      [] kind = "write" -> <<Peer("listing-writes"), Body>>

ListingUser(kind) == SignedIn("products", IF kind = "read" THEN "product-read" ELSE "product-write")

PersonalBoundary(kind) == <<Peer(IF kind = "read" THEN "lists" ELSE "list-writes"), Body>>

PersonalUser(kind) ==
    SignedIn("personal", IF kind = "read" THEN "personal-read" ELSE "personal-write")
        \o <<Check("parameters")>>

SellerUser(limiter) == SignedIn(limiter, limiter)

\* The slot is held to the end of the request.
SellerBoundary(kind) ==
    CASE kind = "upload" -> <<Peer("evidence"), Check("headers"), Take("evidence"), Body>>
      [] kind = "submission" -> <<Peer("submission"), Body>>
      [] kind = "admin" -> <<Peer("seller-admins"), Body>>
      [] kind = "read" -> <<Peer("seller-reads"), Body>>

ImageBoundary(kind) ==
    CASE kind = "upload" -> <<Peer("image-uploads"), Check("headers")>>
      [] kind = "write" -> <<Peer("image-writes"), Body>>
      [] kind = "read" -> <<Peer("image-reads")>>

\* A second time the limiter of the peer.
ImageUploadUser == <<Peer("products"), User("image-upload")>>

\* The slot is held to the end of the operation.
ImageFile == <<Check("preflight"), Take("images"), Upload, Check("form")>>

\* sanitize_product_image: the slot is held while the image is decoded.
Sanitize == <<Take("decoder"), Check("image"), Return("decoder")>>

Gates == [
    register |-> Register, verify_phone |-> VerifyPhone, login |-> Login,
    forgot |-> ForgotPassword, reset |-> ResetPassword, change |-> ChangePassword,
    refresh |-> Refresh, logout |-> Logout, logout_all |-> LogoutAll,
    resend_email |-> ResendEmail, verify_email |-> VerifyEmail,
    update_profile |-> UpdateProfile, onboard |-> Onboard, public_profile |-> PublicProfile,
    catalog |-> CatalogBoundary(FALSE),
    admin_catalog |-> CatalogBoundary(TRUE) \o CatalogAdmin,
    public_listing |-> ListingBoundary("read"),
    browse |-> ListingBoundary("browse"),
    own_listing |-> ListingBoundary("read") \o ListingUser("read"),
    write_listing |-> ListingBoundary("write") \o ListingUser("write"),
    read_list |-> PersonalBoundary("read") \o PersonalUser("read"),
    write_list |-> PersonalBoundary("write") \o PersonalUser("write"),
    seller_read |-> SellerBoundary("read") \o SellerUser("seller-read"),
    submission |-> SellerBoundary("submission") \o SellerUser("seller-submission"),
    review |-> SellerBoundary("admin") \o SellerUser("seller-admin") \o <<Check("role")>>,
    upload_evidence |-> SellerBoundary("upload") \o SellerUser("seller-upload"),
    public_image |-> ImageBoundary("read"),
    own_image |-> ImageBoundary("read") \o ListingUser("read"),
    write_image |-> ImageBoundary("write") \o ListingUser("write"),
    upload_image |-> ImageBoundary("upload") \o ListingUser("write") \o ImageUploadUser
                        \o ImageFile \o Sanitize]

Routes == DOMAIN Gates

Limiters(route) ==
    {Gates[route][i] : i \in {j \in DOMAIN Gates[route] : Gates[route][j].by # "check"}}

-----------------------------------------------------------------------------
(* Requests. *)

Away == [left |-> <<>>, n |-> 0]

Init ==
    /\ \E a, b \in Routes : offered = {a, b} /\ Limiters(a) \cap Limiters(b) # {}
    /\ request = [r \in Requests |-> Away]
    /\ receipts = {}
    /\ free = Size
    /\ arrivals = 0

Arrive(r) ==
    /\ request[r] = Away /\ arrivals < MaxArrivals
    /\ arrivals' = arrivals + 1
    /\ \E route \in offered, p \in Peers, a \in Accounts :
        request' = [request EXCEPT ![r] =
            [left |-> Gates[route], n |-> arrivals', peer |-> p, account |-> a,
             signedIn |-> FALSE, holds |-> {}]]
    /\ UNCHANGED <<offered, receipts, free>>

Present(r) == request[r] # Away
Passed(r) == request[r].left = <<>>
Gate(r) == Head(request[r].left)
At(r, kinds) == Present(r) /\ ~Passed(r) /\ Gate(r).by \in kinds

\* Mutant: a slot goes back only after an answer.
LeaveHolding(r) ==
    /\ request' = [request EXCEPT ![r] = Away]
    /\ free' = [p \in Pools |->
                  IF p \in request[r].holds /\ request[r].left = <<>> THEN free[p] + 1 ELSE free[p]]
    /\ UNCHANGED receipts

\* The end of a request, answered or refused: the slots it holds are free.
Leave(r) ==
    /\ request' = [request EXCEPT ![r] = Away]
    /\ free' = [p \in Pools |-> IF p \in request[r].holds THEN free[p] + 1 ELSE free[p]]
    /\ UNCHANGED receipts

Limit(gate) == IF gate.by = "peer" THEN PeerLimit ELSE AccountLimit

Key(r) == IF Gate(r).by = "peer" THEN request[r].peer ELSE request[r].account

Spent(gate, key) == {e \in receipts : e.gate = gate /\ e.key = key}

Charge(r) ==
    /\ At(r, {"peer", "user", "name"})
    /\ IF Cardinality(Spent(Gate(r), Key(r))) >= Limit(Gate(r)) THEN Leave(r)
       ELSE /\ receipts' = receipts \cup
                {[gate |-> Gate(r), key |-> Key(r), from |-> request[r].peer,
                  signedIn |-> request[r].signedIn, n |-> request[r].n, left |-> Len(request[r].left)]}
            /\ request' = [request EXCEPT ![r].left = Tail(@)]
            /\ UNCHANGED free
    /\ UNCHANGED <<offered, arrivals>>

Pass(r) ==
    /\ At(r, {"check"})
    /\ request' = [request EXCEPT ![r].left = Tail(@),
                                  ![r].signedIn = @ \/ Gate(r) = Bearer]
    /\ UNCHANGED <<offered, receipts, free, arrivals>>

Refuse(r) ==
    /\ At(r, {"check"})
    /\ Leave(r)
    /\ UNCHANGED <<offered, arrivals>>

\* No request waits for a slot.
Acquire(r) ==
    LET pool == Gate(r).of IN
    /\ At(r, {"take"})
    /\ IF free[pool] = 0 THEN Leave(r)
       ELSE /\ request' = [request EXCEPT ![r].left = Tail(@), ![r].holds = @ \cup {pool}]
            /\ free' = [free EXCEPT ![pool] = @ - 1]
            /\ UNCHANGED receipts
    /\ UNCHANGED <<offered, arrivals>>

Release(r) ==
    LET pool == Gate(r).of IN
    /\ At(r, {"return"})
    /\ request' = [request EXCEPT ![r].left = Tail(@), ![r].holds = @ \ {pool}]
    /\ free' = [free EXCEPT ![pool] = @ + 1]
    /\ UNCHANGED <<offered, receipts, arrivals>>

Finish(r) ==
    /\ Present(r) /\ Passed(r)
    /\ Leave(r)
    /\ UNCHANGED <<offered, arrivals>>

\* The next window, in which the limiters have forgotten this one.
NewWindow ==
    /\ \A r \in Requests : ~Present(r)
    /\ arrivals > 0
    /\ receipts' = {} /\ arrivals' = 0
    /\ UNCHANGED <<offered, request, free>>

Next ==
    \/ NewWindow
    \/ \E r \in Requests :
        \/ Arrive(r) \/ Charge(r) \/ Pass(r) \/ Refuse(r)
        \/ Acquire(r) \/ Release(r) \/ Finish(r)

Spec == Init /\ [][Next]_vars

-----------------------------------------------------------------------------

\* The routes on which a peer spends what belongs to accounts.
Taken(p, gate) == {e \in receipts : e.gate = gate /\ e.from = p}

\* Whoever it names, a peer takes from the budgets of accounts no more requests
\* than its own budget has, and only who is signed in takes from that of a user
\* (enforce_*_rate_limit, enforce_authenticated_limit); logout-all has no limiter
\* of peers.
AccountsAreProtected ==
    \A e \in receipts :
        /\ e.gate.by = "user" => e.signedIn
        /\ e.gate.by # "peer" /\ e.gate # User("logout-all") =>
            Cardinality(Taken(e.from, e.gate)) <= PeerLimit

\* On every way out a slot comes back once, and an upload that was let in finds
\* a decoder (EvidenceUploadBoundary, image_file, sanitize_product_image).
SlotsComeBack ==
    /\ \A p \in Pools :
        free[p] + Cardinality({r \in Requests : Present(r) /\ p \in request[r].holds}) = Size[p]
    /\ \A r \in Requests : At(r, {"take"}) /\ Gate(r).of = "decoder" => free["decoder"] > 0
=============================================================================
