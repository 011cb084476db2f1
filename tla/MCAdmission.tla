----------------------------- MODULE MCAdmission -----------------------------
(***************************************************************************)
(* Small instances for TLC of what guards the operations: the limiter, the *)
(* gates of the routes, which use limiters and slots, and the inboxes of a *)
(* development service.  The gates count what a limiter accepts in one     *)
(* window and the inboxes know no limiter, so the three are explored side  *)
(* by side: a behaviour belongs to one, and side says which.               *)
(***************************************************************************)
EXTENDS RateLimiterSafety, TLC

CONSTANTS
    Peers, Accounts, PeerLimit, AccountLimit, EvidenceSlots, ImageSlots, DecoderSlots,
    MaxArrivals,
    Delay, Ttl, Lifetime, Capacity, MaxCodes

VARIABLES
    side,
    offered, request, receipts, free, arrivals,
    channel, settings, service, messages, asked, codes

\* Requests are served by threads.
Gate == INSTANCE Admission WITH Requests <- Threads

Inbox == INSTANCE CodeInbox WITH call <- asked, Recipients <- Accounts, MaxWait <- MaxDelay

ASSUME OtherConstantsAreValid == Gate!ConstantsAreValid /\ Inbox!ConstantsAreValid

gateVars == <<offered, request, receipts, free, arrivals>>
inboxVars == <<channel, settings, service, messages, asked, codes>>

NoGate ==
    /\ offered = {} /\ receipts = {} /\ free = Gate!Size /\ arrivals = 0
    /\ request = [r \in Threads |-> Gate!Away]

NoInbox ==
    /\ channel = "none" /\ settings = {} /\ service = "none" /\ messages = <<>> /\ codes = 0
    /\ asked = [t \in Threads |-> Inbox!Quiet]

AdmissionInit ==
    /\ Init
    /\ \/ side = "limiter" /\ NoGate /\ NoInbox
       \/ side = "gates" /\ Gate!Init /\ NoInbox
       \/ side = "inbox" /\ NoGate /\ Inbox!Init

\* The inbox has the clock of the limiter.
AdmissionNext ==
    /\ UNCHANGED side
    /\ \/ side = "limiter" /\ Next /\ UNCHANGED <<gateVars, inboxVars>>
       \/ side = "gates" /\ Gate!Next /\ UNCHANGED <<vars, inboxVars>>
       \/ /\ side = "inbox" /\ Inbox!Next
          /\ UNCHANGED <<requests, call, served, accepted, promised, gateVars>>

AdmissionSpec == AdmissionInit /\ [][AdmissionNext]_<<side, vars, gateVars, inboxVars>>

\* A peer takes from the budgets of accounts no more than its own has, and from
\* that of a user only when signed in (enforce_*_rate_limit).
AccountsAreProtected == side = "gates" => Gate!AccountsAreProtected

\* Every slot comes back, and who was let in finds a decoder (the boundaries of
\* the uploads, sanitize_product_image).
SlotsComeBack == side = "gates" => Gate!SlotsComeBack

\* Codes are shown where and while they may be, and only the last for a recipient
\* (add, latest_available, validate_runtime_security).
InboxShowsTheLatest == side = "inbox" => Inbox!InboxShowsTheLatest

\* Keys, threads and accounts are interchangeable.
Interchangeable == Permutations(Keys) \cup Permutations(Threads) \cup Permutations(Accounts)
=============================================================================
