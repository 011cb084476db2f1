----------------------- MODULE EvidenceTicketsSafety -----------------------
(***************************************************************************)
(* What must be true of the tickets of module EvidenceTickets.             *)
(***************************************************************************)
EXTENDS EvidenceTickets

\* A picture is sent to an account that may see it at that moment, and it is the
\* picture then in place: neither a role that was taken away, nor a suspension,
\* nor a replacement after the ticket was issued lets old bytes out (read_evidence).
OnlyPresentGrantsAreServed ==
    [][\A n \in Nonces : \A s \in served'[n] \ served[n] :
          MaySee(s.user) /\ s.key = key]_vars

\* One ticket, one reading, however two redemptions of it overlap or fail (redeem).
OneReadingPerTicket ==
    \A n \in Nonces :
        LET readers == {r \in Requests : ctx[r].nonce = n}
        IN  /\ Cardinality(served[n]) + Cardinality(readers) <= 1
            /\ served[n] # {} \/ readers # {} => n \notin Held

-----------------------------------------------------------------------------
\* The inductive invariant behind OneReadingPerTicket.

\* What r carries from one transaction to the next.
ContextIsSound(r) ==
    /\ pc[r] \in {"issue", "redeemed"} => ctx[r].key \in Keys
    /\ pc[r] = "redeemed" <=> ctx[r].nonce # None

\* A nonce is drawn once, and then is in one place: a ticket that waits, a request
\* that redeemed it, or a reading.
NoncesAreInOnePlace ==
    \A n \in Nonces :
        /\ n \in Held \/ served[n] # {} \/ (\E r \in Requests : ctx[r].nonce = n) => n \in drawn
        /\ n \in Held => served[n] = {} /\ \A r \in Requests : ctx[r].nonce # n
        /\ served[n] # {} => \A r \in Requests : ctx[r].nonce # n
        /\ \A r, q \in Requests : ctx[r].nonce = n /\ ctx[q].nonce = n => r = q
        /\ \A s, t \in served[n] : s = t

TicketInvariant == TypeOK /\ (\A r \in Requests : ContextIsSound(r)) /\ NoncesAreInOnePlace
=============================================================================
