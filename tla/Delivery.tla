------------------------------ MODULE Delivery ------------------------------
(***************************************************************************)
(* What two endpoints promise about a message, whatever becomes of the     *)
(* calls, processes and papers between them: it is released, accepted at   *)
(* most once, and confirmed only with the receipt of that acceptance.      *)
(***************************************************************************)
CONSTANTS
    Msg,          \* messages
    Receipt,      \* what identifies an acceptance
    None          \* no receipt

VARIABLES
    released,     \* messages the sender's guards let pass
    accepted,     \* accepted[m]: the receipt of m's acceptance
    confirmed     \* confirmed[m]: the receipt the sender has verified

vars == <<released, accepted, confirmed>>

Init ==
    /\ released = {}
    /\ accepted = [m \in Msg |-> None]
    /\ confirmed = [m \in Msg |-> None]

Release(m) ==
    /\ m \notin released
    /\ released' = released \cup {m}
    /\ UNCHANGED <<accepted, confirmed>>

\* The receipt of an acceptance is that of no other.
Accept(m) ==
    /\ m \in released
    /\ accepted[m] = None
    /\ accepted' = [accepted EXCEPT ![m] = accepted'[m]]
    /\ accepted'[m] \in Receipt
    /\ \A n \in Msg : n # m => accepted[n] # accepted'[m]
    /\ UNCHANGED <<released, confirmed>>

Confirm(m) ==
    /\ confirmed[m] = None
    /\ accepted[m] # None
    /\ confirmed' = [confirmed EXCEPT ![m] = accepted[m]]
    /\ UNCHANGED <<released, accepted>>

Next == \E m \in Msg : Release(m) \/ Accept(m) \/ Confirm(m)

Spec == Init /\ [][Next]_vars
=============================================================================
