----------------------------- MODULE EventLedger -----------------------------
(***************************************************************************)
(* What StripeWebhookService promises of the events Stripe sends: an event *)
(* is claimed once, by whichever delivery comes first, its handler runs at *)
(* most once and only after the claim, and a claim is never given up.      *)
(* Deliveries, requests, crashes and the tenant's row are not seen here.   *)
(***************************************************************************)
EXTENDS Integers

CONSTANT MaxEvents   \* bound: the events Stripe sends

VARIABLES
    sent,     \* how many events Stripe has sent; an event's id is its place
    claimed,  \* the events with a row
    handled   \* how often each event was handled

ledger == <<sent, claimed, handled>>

Init ==
    /\ sent = 0
    /\ claimed = {}
    /\ handled = [e \in 1 .. MaxEvents |-> 0]

\* One change at Stripe may send several events.
Send ==
    /\ sent' \in sent + 1 .. MaxEvents
    /\ UNCHANGED <<claimed, handled>>

Claim(e) ==
    /\ e \notin claimed
    /\ claimed' = claimed \cup {e}
    /\ UNCHANGED <<sent, handled>>

Handle(e) ==
    /\ e \in claimed /\ handled[e] = 0
    /\ handled' = [handled EXCEPT ![e] = 1]
    /\ UNCHANGED <<sent, claimed>>

Next == Send \/ \E e \in 1 .. sent : Claim(e) \/ Handle(e)

Spec == Init /\ [][Next]_ledger
=============================================================================
