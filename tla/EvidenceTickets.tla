-------------------------- MODULE EvidenceTickets --------------------------
(***************************************************************************)
(* Reading a picture of the evidence: a one-use ticket held in memory, and *)
(* its redemption, which checks everything again                           *)
(* (issue_evidence_ticket and read_evidence of                             *)
(* seller_verification_service.py, LocalPrivateStorage of                  *)
(* storage_service.py).                                                    *)
(*                                                                         *)
(* One slot of one request for verification.  Its owner replaces the       *)
(* picture and reviewers come and go while tickets are out.                *)
(***************************************************************************)
EXTENDS Integers, FiniteSets

CONSTANTS
    Users,      \* the owner and those that may be administrators
    Owner,      \* the account the evidence belongs to
    Keys,       \* the objects the slot ever has (a bound)
    Nonces,     \* the nonces of all tickets ever issued (a bound)
    Requests,   \* the requests that can be open at a time
    None,
    Life,       \* 60 seconds
    Capacity,   \* 1000 tickets
    MaxTime     \* bound on the clock

ConstantsAreValid ==
    /\ Owner \in Users /\ None \notin (Users \cup Keys \cup Nonces)
    /\ Life \in Nat \ {0} /\ Capacity \in Nat \ {0} /\ MaxTime \in Nat

VARIABLES
    now,      \* the monotonic clock
    admins,   \* the accounts with the role
    away,     \* the suspended accounts
    key,      \* storage_key of the slot, None when there is no row
    used,     \* the objects the slot has had
    tickets,  \* the tickets dictionary: what a nonce stands for
    drawn,    \* the nonces that were ever drawn
    served,   \* for every nonce, to whom its bytes were sent: [user, key]
    pc,       \* what r does next
    ctx       \* the local variables of r

vars == <<now, admins, away, key, used, tickets, drawn, served, pc, ctx>>

Ticket == [expires: 0..(MaxTime + Life), user: Users, key: Keys]
Nothing == [expires |-> 0, user |-> Owner, key |-> None]

Context == [user: Users, key: Keys \cup {None}, nonce: Nonces \cup {None}]
NoContext == [user |-> Owner, key |-> None, nonce |-> None]

TypeOK ==
    /\ now \in 0..MaxTime
    /\ admins \subseteq Users /\ away \subseteq Users
    /\ key \in Keys \cup {None} /\ used \subseteq Keys
    /\ tickets \in [Nonces -> Ticket \cup {Nothing}]
    /\ drawn \subseteq Nonces
    /\ served \in [Nonces -> SUBSET [user: Users, key: Keys]]
    /\ pc \in [Requests -> {"idle", "issue", "redeemed"}]
    /\ ctx \in [Requests -> Context]

Init ==
    /\ now = 0
    /\ admins = {} /\ away = {}
    /\ key = None /\ used = {}
    /\ tickets = [n \in Nonces |-> Nothing]
    /\ drawn = {}
    /\ served = [n \in Nonces |-> {}]
    /\ pc = [r \in Requests |-> "idle"]
    /\ ctx = [r \in Requests |-> NoContext]

database == <<admins, away, key, used>>
memory == <<tickets, drawn>>

Goto(r, stage) == pc' = [pc EXCEPT ![r] = stage]
Finish(r) == Goto(r, "idle") /\ ctx' = [ctx EXCEPT ![r] = NoContext]

Held == {n \in Nonces : tickets[n] # Nothing}
Alive(n) == tickets[n].expires > now

-----------------------------------------------------------------------------
\* _locked_evidence: the account is active, and owns the request or reviews.
MaySee(u) == u \notin away /\ (u = Owner \/ u \in admins) /\ key # None

\* The authorising transaction, which ends before the ticket is made.
Authorize(r, u) ==
    /\ pc[r] = "idle" /\ MaySee(u)
    /\ Goto(r, "issue")
    /\ ctx' = [ctx EXCEPT ![r] = [user |-> u, key |-> key, nonce |-> None]]
    /\ UNCHANGED <<now, database, memory, served>>

\* The tickets that survive the sweep of issue_download_ticket.
Swept == {n \in Held : Alive(n)}

HasRoom(kept) == Cardinality(kept) < Capacity

Deadline == now + Life

Issue(r) ==
    /\ pc[r] = "issue"
    /\ LET kept == Swept
           rest == [n \in Nonces |-> IF n \in kept THEN tickets[n] ELSE Nothing]
       IN  \/ /\ ~HasRoom(kept)
              /\ tickets' = rest /\ UNCHANGED drawn
           \/ /\ HasRoom(kept)
              /\ \E n \in Nonces \ drawn :
                   /\ tickets' = [rest EXCEPT ![n] = [expires |-> Deadline,
                                      user |-> ctx[r].user, key |-> ctx[r].key]]
                   /\ drawn' = drawn \cup {n}
    /\ Finish(r)
    /\ UNCHANGED <<now, database, served>>

Redeemable(u, n) == n \in Held /\ Alive(n) /\ tickets[n].user = u

\* Mutant: the ticket stays until it expires.
Unpopped(n) == tickets

Popped(n) == [tickets EXCEPT ![n] = Nothing]

\* redeem: one use, consumed before the locks of the transaction are asked for.
Redeem(r, u, n) ==
    /\ pc[r] = "idle" /\ Redeemable(u, n)
    /\ tickets' = Popped(n)
    /\ Goto(r, "redeemed")
    /\ ctx' = [ctx EXCEPT ![r] = [user |-> u, key |-> tickets[n].key, nonce |-> n]]
    /\ UNCHANGED <<now, database, drawn, served>>

\* Mutant: the grant of the ticket is believed.
StillGrantedOnIssue(r) == key # None

StillGranted(r) == MaySee(ctx[r].user) /\ key = ctx[r].key

\* The rest of read_evidence holds its locks until it has committed.
Serve(r) ==
    /\ pc[r] = "redeemed" /\ StillGranted(r)
    /\ served' = [served EXCEPT ![ctx[r].nonce] =
                      @ \cup {[user |-> ctx[r].user, key |-> ctx[r].key]}]
    /\ Finish(r)
    /\ UNCHANGED <<now, database, memory>>

\* A refusal, an unreadable file, a wrong hash, a failed commit.
Fail(r) ==
    /\ pc[r] # "idle"
    /\ Finish(r)
    /\ UNCHANGED <<now, database, memory, served>>

-----------------------------------------------------------------------------
\* What the rest of the system does meanwhile: upload and renew_challenge, which
\* never use a key twice, roles and suspensions.
Replace ==
    /\ \/ key' = None /\ UNCHANGED used
       \/ \E k \in Keys \ used : key' = k /\ used' = used \cup {k}
    /\ UNCHANGED <<now, admins, away, memory, served, pc, ctx>>

ChangeStanding(u) ==
    /\ \/ admins' = (admins \ {u}) \cup ({u} \ admins) /\ UNCHANGED away
       \/ away' = (away \ {u}) \cup ({u} \ away) /\ UNCHANGED admins
    /\ UNCHANGED <<now, key, used, memory, served, pc, ctx>>

\* The tickets and the secret that signs them do not survive the process.
Restart ==
    /\ tickets' = [n \in Nonces |-> Nothing]
    /\ pc' = [r \in Requests |-> "idle"]
    /\ ctx' = [r \in Requests |-> NoContext]
    /\ UNCHANGED <<now, database, drawn, served>>

Tick ==
    /\ now < MaxTime
    /\ now' = now + 1
    /\ UNCHANGED <<database, memory, served, pc, ctx>>

Next ==
    \/ \E r \in Requests :
         \/ \E u \in Users : Authorize(r, u) \/ \E n \in Nonces : Redeem(r, u, n)
         \/ Issue(r) \/ Serve(r) \/ Fail(r)
    \/ Replace
    \/ \E u \in Users : ChangeStanding(u)
    \/ Restart
    \/ Tick

Spec == Init /\ [][Next]_vars
=============================================================================
