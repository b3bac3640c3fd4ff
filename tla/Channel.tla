------------------------------ MODULE Channel -------------------------------
(***************************************************************************)
(* Two endpoints and the agents between them: messages of one endpoint,    *)
(* src, to the other, dst.  The agents carry envelopes there and receipts  *)
(* back; what they carry can be lost, delivered again or arrive late and   *)
(* in any order.                                                           *)
(*                                                                         *)
(* An endpoint is the log its mailbox service replays (see Mailbox, whose  *)
(* LiveIsReplay lets one variable stand for the entry and the index), its  *)
(* signing key, and the peer key its server loaded when it started.  A     *)
(* call that fails between two appends, a server that dies and a denial    *)
(* that may be tried again all leave the endpoint where the last append    *)
(* left it.                                                                *)
(*                                                                         *)
(* Abstracted: a signature is the number of the key that made it, a hash   *)
(* the value hashed, an audit sequence number the rank among acceptances;  *)
(* the clocks are one clock and a constant difference between the two.     *)
(***************************************************************************)
EXTENDS Integers, FiniteSets

CONSTANTS
    Msg,          \* messages src proposes
    None,         \* absent value
    MaxMessageAge,\* limits.max_message_age, at both endpoints
    Tolerance,    \* how far in the future a time stamp may lie
    Skews,        \* what src's clock may be ahead of dst's
    MaxTime,      \* bound: readings of dst's clock
    MaxFaults,    \* bound: losses, failed calls and deaths
    MaxRotations  \* bound: key rotations of the two endpoints together

\* An acceptance: when, and as what entry.
Stamp == [at : Int, seq : Nat]

ASSUME ChannelAssumption ==
    /\ {MaxMessageAge, Tolerance, MaxTime, MaxFaults, MaxRotations} \subseteq Nat
    /\ Skews \subseteq Int
    /\ None \notin Int /\ None \notin Stamp
    /\ IsFiniteSet(Msg)

VARIABLES
    now,          \* dst's clock
    skew,         \* src's clock less dst's
    created,      \* src's log: created[m], when m was proposed
    signed,       \* src's log: signed[m], the key that signed the released envelope
    confirmed,    \* src's log: confirmed[m], the acceptance a receipt proved
    accepted,     \* dst's log: accepted[m], when and as what entry
    issued,       \* dst's log: issued[m], the key that signed the last receipt
    call,         \* call[m]: where dst's receive of m is
    up,           \* up[e]: e's server runs
    key,          \* key[e]: e's signing key, counted from 0
    pin,          \* pin[e]: the peer's key in e's configuration
    loaded,       \* loaded[e]: the pin e's server started with
    papers,       \* envelopes and receipts the agents hold
    faults        \* losses, failed calls and deaths so far

vars == <<now, skew, created, signed, confirmed, accepted, issued, call, up, key,
          pin, loaded, papers, faults>>

clock == <<now, skew>>
srcLog == <<created, signed, confirmed>>
dstLog == <<accepted, issued>>
keys == <<key, pin, loaded>>

Endpoint == {"src", "dst"}
Peer(e) == IF e = "src" THEN "dst" ELSE "src"

SrcNow == now + skew
DstNow == now

SignedEnvelope(m) == [kind |-> "envelope", id |-> m, key |-> signed[m], at |-> created[m], seq |-> 0]
SignedReceipt(m) ==
    [kind |-> "receipt", id |-> m, key |-> key["dst"],
     at |-> accepted[m].at, seq |-> accepted[m].seq]

Init ==
    /\ now = 0
    /\ skew \in Skews
    /\ created = [m \in Msg |-> None]
    /\ signed = [m \in Msg |-> None]
    /\ confirmed = [m \in Msg |-> None]
    /\ accepted = [m \in Msg |-> None]
    /\ issued = [m \in Msg |-> None]
    /\ call = [m \in Msg |-> "none"]
    /\ up = [e \in Endpoint |-> TRUE]
    /\ key = [e \in Endpoint |-> 0]
    /\ pin = [e \in Endpoint |-> 0]
    /\ loaded = [e \in Endpoint |-> 0]
    /\ papers = {}
    /\ faults = 0

Tick ==
    /\ now < MaxTime
    /\ now' = now + 1
    /\ UNCHANGED <<skew, srcLog, dstLog, call, up, keys, papers, faults>>

-----------------------------------------------------------------------------
(* src: Send, and Confirm.                                                 *)

\* message_submitted fixes the time stamp every retry keeps.
Propose(m) ==
    /\ up["src"]
    /\ created[m] = None
    /\ created' = [created EXCEPT ![m] = SrcNow]
    /\ UNCHANGED <<clock, signed, confirmed, dstLog, call, up, keys, papers, faults>>

\* outbound_released, perhaps after a review, a failed call or a restart: the
\* envelope is signed with the key of the present process.
Release(m) ==
    /\ up["src"]
    /\ created[m] # None /\ signed[m] = None
    /\ signed' = [signed EXCEPT ![m] = key["src"]]
    /\ UNCHANGED <<clock, created, confirmed, dstLog, call, up, keys, papers, faults>>

\* Send returns the stored envelope, the first time and to every retry.
Offer(m) ==
    /\ up["src"]
    /\ signed[m] # None
    /\ papers' = papers \cup {SignedEnvelope(m)}
    /\ UNCHANGED <<clock, srcLog, dstLog, call, up, keys, faults>>

\* Mutant of Confirmable: a receipt of exactly the maximum age is refused.
ConfirmableBelow(r) ==
    /\ r.at <= SrcNow + Tolerance
    /\ SrcNow - r.at < MaxMessageAge

\* Confirm's check of received_at.
Confirmable(r) ==
    /\ r.at <= SrcNow + Tolerance
    /\ SrcNow - r.at <= MaxMessageAge

\* Confirm: a receipt of a message sent from here, signed by the peer's key
\* this server knows, and young enough.  A second one is answered from memory.
Confirm(r) ==
    /\ up["src"]
    /\ r \in papers /\ r.kind = "receipt"
    /\ Confirmable(r)
    /\ r.key = loaded["src"]
    /\ signed[r.id] # None
    /\ confirmed[r.id] = None
    /\ confirmed' = [confirmed EXCEPT ![r.id] = [at |-> r.at, seq |-> r.seq]]
    /\ UNCHANGED <<clock, created, signed, dstLog, call, up, keys, papers, faults>>

-----------------------------------------------------------------------------
(* dst: Receive.                                                           *)

\* validateEnvelope's check of created_at.
Receivable(e) ==
    /\ e.at <= DstNow + Tolerance
    /\ DstNow - e.at <= MaxMessageAge

\* Mutant of Receive: a message that was accepted before is evaluated anew
\* unless its receipt is at hand.
ReceiveAgain(e) ==
    /\ up["dst"]
    /\ e \in papers /\ e.kind = "envelope"
    /\ Receivable(e)
    /\ e.key = loaded["dst"]
    /\ call[e.id] = "none"
    /\ IF accepted[e.id] # None /\ issued[e.id] = key["dst"]
       THEN papers' = papers \cup {SignedReceipt(e.id)} /\ UNCHANGED call
       ELSE call' = [call EXCEPT ![e.id] = "guard"] /\ UNCHANGED papers
    /\ UNCHANGED <<clock, srcLog, dstLog, up, keys, faults>>

\* Mutant of Receive: the receipt at hand is returned, whoever signed it.
ReceiveStale(e) ==
    /\ up["dst"]
    /\ e \in papers /\ e.kind = "envelope"
    /\ Receivable(e)
    /\ e.key = loaded["dst"]
    /\ call[e.id] = "none"
    /\ IF accepted[e.id] # None /\ issued[e.id] # None
       THEN papers' = papers \cup {[SignedReceipt(e.id) EXCEPT !.key = issued[e.id]]}
            /\ UNCHANGED call
       ELSE /\ call' = [call EXCEPT ![e.id] = IF accepted[e.id] = None THEN "guard" ELSE "ack"]
            /\ UNCHANGED papers
    /\ UNCHANGED <<clock, srcLog, dstLog, up, keys, faults>>

\* Receive validates age and signature before it looks the message up.  One
\* that was accepted gets its receipt back, or a new one if there is none the
\* present key has signed; any other goes to the guards.
Receive(e) ==
    /\ up["dst"]
    /\ e \in papers /\ e.kind = "envelope"
    /\ Receivable(e)
    /\ e.key = loaded["dst"]
    /\ call[e.id] = "none"
    /\ IF accepted[e.id] # None /\ issued[e.id] = key["dst"]
       THEN papers' = papers \cup {SignedReceipt(e.id)} /\ UNCHANGED call
       ELSE /\ call' = [call EXCEPT ![e.id] = IF accepted[e.id] = None THEN "guard" ELSE "ack"]
            /\ UNCHANGED papers
    /\ UNCHANGED <<clock, srcLog, dstLog, up, keys, faults>>

\* inbound_accepted, at whatever time the guards are done.
Accept(m) ==
    /\ call[m] = "guard"
    /\ accepted' = [accepted EXCEPT ![m] =
           [at |-> DstNow,
            seq |-> Cardinality({n \in Msg : accepted[n] # None}) + 1]]
    /\ call' = [call EXCEPT ![m] = "ack"]
    /\ UNCHANGED <<clock, srcLog, issued, up, keys, papers, faults>>

\* issueAcknowledgement signs the original acceptance with the present key.
IssueAck(m) ==
    /\ call[m] = "ack"
    /\ issued' = [issued EXCEPT ![m] = key["dst"]]
    /\ papers' = papers \cup {SignedReceipt(m)}
    /\ call' = [call EXCEPT ![m] = "none"]
    /\ UNCHANGED <<clock, srcLog, accepted, up, keys, faults>>

-----------------------------------------------------------------------------
(* Operators.                                                              *)

\* A server starts with the pins its configuration holds.
Start(e) ==
    /\ ~ up[e]
    /\ up' = [up EXCEPT ![e] = TRUE]
    /\ loaded' = [loaded EXCEPT ![e] = pin[e]]
    /\ UNCHANGED <<clock, srcLog, dstLog, call, key, pin, papers, faults>>

\* It stops, and its calls in flight with it; only an operator who changed the
\* pin does this without it being a fault.
Stops(e) ==
    /\ up[e]
    /\ up' = [up EXCEPT ![e] = FALSE]
    /\ call' = IF e = "dst" THEN [m \in Msg |-> "none"] ELSE call
    /\ UNCHANGED <<clock, srcLog, dstLog, keys, papers>>

StopToReload(e) ==
    /\ loaded[e] # pin[e]
    /\ Stops(e)
    /\ UNCHANGED faults

Outstanding == {m \in Msg : signed[m] # None /\ confirmed[m] = None}

\* turnwire identity rotate, which needs the lock a running server holds.  The
\* sender's operator completes its outbound transfers first, as
\* docs/deployment.md asks.
RotateIdentity(e) ==
    /\ ~ up[e]
    /\ key["src"] + key["dst"] < MaxRotations
    /\ e = "src" => Outstanding = {}
    /\ key' = [key EXCEPT ![e] = key[e] + 1]
    /\ UNCHANGED <<clock, srcLog, dstLog, call, up, pin, loaded, papers, faults>>

\* turnwire peer rotate at the other endpoint, certificate by certificate.
RotatePin(e) ==
    /\ pin[e] < key[Peer(e)]
    /\ pin' = [pin EXCEPT ![e] = pin[e] + 1]
    /\ UNCHANGED <<clock, srcLog, dstLog, call, up, key, loaded, papers, faults>>

-----------------------------------------------------------------------------
(* Faults, MaxFaults of them.                                              *)

Fault ==
    /\ faults < MaxFaults
    /\ faults' = faults + 1

\* An agent forgets what it holds, or a call's answer does not reach it.
Lose(p) ==
    /\ Fault
    /\ papers' = papers \ {p}
    /\ UNCHANGED <<clock, srcLog, dstLog, call, up, keys>>

\* A receive fails between two appends, or the guards refuse the message this
\* time.
CallFails(m) ==
    /\ Fault
    /\ call[m] # "none"
    /\ call' = [call EXCEPT ![m] = "none"]
    /\ UNCHANGED <<clock, srcLog, dstLog, up, keys, papers>>

Dies(e) == Fault /\ Stops(e)

-----------------------------------------------------------------------------

Next ==
    \/ Tick
    \/ \E m \in Msg : Propose(m) \/ Release(m) \/ Offer(m)
    \/ \E p \in papers : Receive(p) \/ Confirm(p) \/ Lose(p)
    \/ \E m \in Msg : Accept(m) \/ IssueAck(m) \/ CallFails(m)
    \/ \E e \in Endpoint : Start(e) \/ StopToReload(e) \/ RotateIdentity(e)
                             \/ RotatePin(e) \/ Dies(e)

Spec == Init /\ [][Next]_vars

\* Agents retry what is not confirmed and carry what they hold; calls end;
\* operators start their servers and install the certificates they get.
Fairness ==
    /\ \A m \in Msg :
           /\ WF_vars(Offer(m))
           /\ WF_vars(\E p \in papers : p.id = m /\ Receive(p))
           /\ WF_vars(Accept(m))
           /\ WF_vars(IssueAck(m))
           /\ WF_vars(\E p \in papers : p.id = m /\ Confirm(p))
    /\ \A e \in Endpoint :
           /\ WF_vars(Start(e))
           /\ WF_vars(StopToReload(e))
           /\ WF_vars(RotatePin(e))

FairSpec == Spec /\ Fairness

-----------------------------------------------------------------------------
(* Properties.                                                             *)

\* The agents hold a receipt of m signed with dst's present key.
ReceiptHeld(m) ==
    \E p \in papers : p.kind = "receipt" /\ p.id = m /\ p.key = key["dst"]

\* Too late to be confirmed: dst refuses the envelope and with it the receipt
\* that was not handed out in time, or src the receipt.
Late(m) ==
    \/ created[m] # None /\ DstNow - created[m] > MaxMessageAge /\ ~ ReceiptHeld(m)
    \/ accepted[m] # None /\ SrcNow - accepted[m].at > MaxMessageAge

D == INSTANCE Delivery WITH
         Receipt <- Stamp,
         released <- {m \in Msg : signed[m] # None}

\* Receive and Confirm: whatever is lost, repeated, late, restarted or signed
\* again under a new key, a message is accepted at most once, after its release,
\* and confirmed with the receipt of exactly that acceptance.
ImplementsDelivery == D!Spec

\* Receive, issueAcknowledgement and the replay under a new key: while agents
\* retry and neither clock is more than the tolerance ahead of the other, a
\* released message is confirmed unless it grows too old first, and stays so;
\* also across lost receipts, deaths between the acceptance and the receipt, and
\* rotations of either endpoint that follow docs/deployment.md.
Delivered ==
    skew \in -Tolerance..Tolerance =>
        \A m \in Msg : (signed[m] # None) ~> (confirmed[m] # None \/ []Late(m))

\* validateEnvelope and Confirm measure one age on two clocks from two stamps, so
\* the difference of the clocks counts twice: a message that a retry can still
\* reach has a receipt that is too old by no more than that.  If src's clock is
\* not ahead, and behind by no more than the tolerance, the receipt can still be
\* confirmed.  No bound on the difference is assumed; beyond the tolerance src
\* takes every fresh receipt for one from the future.
ReceiptOutlivesEnvelope ==
    \A m \in Msg :
        accepted[m] # None /\ DstNow - created[m] <= MaxMessageAge =>
            /\ SrcNow - accepted[m].at <= MaxMessageAge + 2 * skew
            /\ skew \in -Tolerance..0 => Confirmable(accepted[m])
=============================================================================
