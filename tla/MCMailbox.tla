----------------------------- MODULE MCMailbox ------------------------------
(* Small instances of Mailbox: what the deterministic scan says of each text, *)
(* and the envelopes a peer can offer.                                        *)
EXTENDS Mailbox

CONSTANTS plain, card, secret, work, home, in1, in2, out1

\* A text the scan allows, one it wants reviewed, one it denies.
MCScan == [t \in Text |-> CASE t = plain -> "allow"
                            [] t = card  -> "review"
                            [] OTHER     -> "deny"]

Env(id, src, body, conv) == [id |-> id, src |-> src, body |-> body, conv |-> conv]

\* The same ID in two envelopes that differ outside what approvals bind.
MCTwins == {Env(in1, work, card, "a"), Env(in1, work, card, "b")}
MCTrio == MCTwins \cup {Env(in1, work, plain, "c")}
\* Two messages.
MCTwo == {Env(in1, work, plain, "a"), Env(in2, home, plain, "a")}
\* An inbound envelope that reuses the ID of a message sent from here.
MCEcho == {Env(out1, work, card, "a")}
\* No message.
MCNone == {}

Workers == Permutations(Worker)

\* An endpoint that only sends or only receives; the run over MCEcho does both.
\* Ten entries take a send through a review, a restart and its release, twelve a
\* receive to its receipt.
OneDirection ==
    LET directions == ({log[i].dir : i \in DOMAIN log} \cup {call[w].dir : w \in Worker}) \ {None}
    IN  directions \in {{}, {"inbound"}} \/ (directions = {"outbound"} /\ Len(log) <= 10)

\* No message waits for a review, in the runs about the order of the inbox.
Unreviewed == \A id \in MsgId : pending[id] = None
=============================================================================
