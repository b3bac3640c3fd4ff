------------------------------ MODULE Mailbox -------------------------------
(***************************************************************************)
(* internal/mailbox: one endpoint's Service, with the approval store and   *)
(* the operator's approve command it depends on.                           *)
(*                                                                         *)
(* Concurrent tool calls run Send, Receive, Confirm and Inbox.  Each call  *)
(* takes one step per audit append, per access to the approval store and   *)
(* per update of the index under s.mu, so a crash, a failed append or any  *)
(* step of another call can come in between.  The log is the only durable  *)
(* protocol state: the index is rebuilt from it at every start.            *)
(*                                                                         *)
(* Abstracted: the log is the sequence of entries AuditLog and DurableLog  *)
(* promise; an append succeeds, is refused, or fails and poisons the       *)
(* handle with its entry stored or not.  A hash is the value it hashes, a  *)
(* verified signature is who may offer the value, a timestamp is the       *)
(* position of the entry that fixed it.  Text stands for a proposal's      *)
(* destination, conversation and exact text.  Calls refused before they    *)
(* hold a claim (invalid, rate limited, busy, conflicting) change nothing  *)
(* and are not steps.                                                      *)
(***************************************************************************)
EXTENDS Integers, Sequences, FiniteSets, SequencesExt

CONSTANTS
    Worker,         \* goroutines running tool calls
    Request,        \* request IDs the local agent uses
    Text,           \* proposals: destination, conversation and text
    OutId, InId,    \* message IDs: minted here, found in inbound envelopes
    Inbound,        \* verified peer envelopes: [id, src, body, conv]
    Scan,           \* guard.Scan: the deterministic decision on a text
    MaxConcurrent,  \* limits.max_concurrent
    Quota,          \* what the audit quota admits
    MaxStarts,      \* bound: how often the process is started
    MaxReads,       \* bound: how often the inbox is read
    PageLimit,      \* messages one inbox read returns at most
    None,           \* absent value
    Damaged         \* a store file an interrupted Create left unreadable

ASSUME MailboxAssumption ==
    /\ \A e \in Inbound : e.id \in InId /\ e.body \in Text
    /\ Scan \in [Text -> {"allow", "review", "deny"}]
    /\ IsFiniteSet(Worker)
    /\ {MaxConcurrent, Quota, MaxStarts, MaxReads, PageLimit} \subseteq Nat
    /\ MaxConcurrent > 0
    /\ None # Damaged

VARIABLES
    log,            \* the audit log: a sequence of entries
    logState,       \* the Log handle: "open", "failed" or "closed"
    up,             \* the process runs and New has returned
    closing,        \* s.closing
    active,         \* s.active: claimed keys, one semaphore slot each
    index,          \* s.requests, sent, received, seenInbound, confirmed, inbox
    pending,        \* approvals/<id>.pending.json
    approved,       \* approvals/<id>.approved.json
    call,           \* call[w]: the tool call worker w runs
    answers,        \* history: final results handed to callers
    cursor,         \* the agent's after_sequence
    fetched         \* history: sequences the agent was given

vars == <<log, logState, up, closing, active, index, pending, approved, call,
          answers, cursor, fetched>>

service == <<up, closing>>
approvals == <<pending, approved>>
reader == <<cursor, fetched>>

MsgId == OutId \cup InId

-----------------------------------------------------------------------------
(* Calls, claims and entries.                                              *)

Idle == [pc |-> "idle", key |-> None, dir |-> None, id |-> None, what |-> None,
         dec |-> None, why |-> None, ref |-> 0, rec |-> None, page |-> << >>]

Serving == up /\ ~ closing

\* The body a call puts before the guards, and what an approval of it binds:
\* message ID, direction, peer and body.
Body(c) == IF c.dir = "outbound" THEN c.what ELSE c.what.body
Binding(c) ==
    [id |-> c.id, dir |-> c.dir,
     what |-> IF c.dir = "outbound" THEN c.what ELSE <<c.what.src, c.what.body>>]

\* claim: a free key and a free semaphore slot.
Claimable(key) == key \notin active /\ Cardinality(active) < MaxConcurrent
Claim(key) == Claimable(key) /\ active' = active \cup {key}

\* The call returns, with its claim released by the deferred release().
Finish(w) ==
    /\ call' = [call EXCEPT ![w] = Idle]
    /\ active' = active \ {call[w].key}

Answer(key, out) == answers' = answers \cup {[key |-> key, out |-> out]}

\* An entry of the given type about the message of call c.
EntryOf(c, type) ==
    [type |-> type, dir |-> c.dir, id |-> c.id, req |-> None, what |-> None,
     dec |-> None, why |-> None, ack |-> None]

\* The request an entry names, as far as a replay reads it: an outbound one's.
OutboundReq(c) == IF c.dir = "outbound" THEN c.key[2] ELSE None

\* newID is random: an ID no entry and no running call has.
FreshIds ==
    OutId \ ({log[i].id : i \in DOMAIN log} \cup {call[w].id : w \in Worker})

Submitted(c, id) ==
    [EntryOf(c, "message_submitted") EXCEPT !.id = id, !.req = c.key[2], !.what = c.what]
InboundVerified(c) ==
    [EntryOf(c, "inbound_verified") EXCEPT !.what = c.what]
DeterministicVerdict(c) ==
    [EntryOf(c, "deterministic_guard") EXCEPT !.dec = Scan[Body(c)], !.why = "scan"]
ModelVerdict(c, m) ==
    [EntryOf(c, "model_guard") EXCEPT !.dec = m, !.why = "model"]
GuardFailure(c) == EntryOf(c, "guard_failed")
Blocked(c) ==
    [EntryOf(c, "message_blocked") EXCEPT !.req = OutboundReq(c), !.why = c.why]
ApprovalPending(c) ==
    [EntryOf(c, "approval_required") EXCEPT !.req = OutboundReq(c), !.why = c.why]
ApprovalUsed(c) ==
    [EntryOf(c, "approval_consumed") EXCEPT !.req = OutboundReq(c), !.why = c.why]

\* The envelope Send signs: fixed by the proposal's entry, and naming the
\* entry of the decision that let it pass.
SignedEnvelope(c) ==
    [id |-> c.id, req |-> c.key[2], body |-> c.what, created |-> c.rec.created,
     dec |-> c.dec, src |-> c.ref]
\* Mutant of Released: the reason code stays in memory only.
ReleasedWithoutReason(c) ==
    [EntryOf(c, "outbound_released") EXCEPT
        !.req = c.key[2], !.what = SignedEnvelope(c), !.dec = c.dec]

Released(c) ==
    [EntryOf(c, "outbound_released") EXCEPT
        !.req = c.key[2], !.what = SignedEnvelope(c), !.dec = c.dec, !.why = c.why]
Accepted(c) ==
    [EntryOf(c, "inbound_accepted") EXCEPT
        !.what = c.what, !.dec = c.dec, !.why = c.why]
AckIssued(c) ==
    [EntryOf(c, "acknowledgement_issued") EXCEPT
        !.what = c.what, !.ack = [env |-> c.rec.env, seq |-> c.rec.seq]]
DeliveryConfirmed(c) == EntryOf(c, "delivery_confirmed")
InboxRead(c) == EntryOf(c, "inbox_read")
Started == EntryOf(Idle, "service_started")

\* The entries a call may be appending in its present step.
Appending(c) ==
    CASE c.pc = "submit"   -> {Submitted(c, id) : id \in FreshIds}
      [] c.pc = "verify"   -> {InboundVerified(c)}
      [] c.pc = "scan"     -> {DeterministicVerdict(c)}
      [] c.pc = "model"    -> {ModelVerdict(c, m) : m \in {"allow", "review", "deny"}}
                                  \cup {GuardFailure(c)}
      [] c.pc = "deny"     -> {Blocked(c)}
      [] c.pc = "required" -> {ApprovalPending(c)}
      [] c.pc = "consume"  -> {ApprovalUsed(c)}
      [] c.pc = "release"  -> {Released(c)}
      [] c.pc = "accept"   -> {Accepted(c)}
      [] c.pc = "ack"      -> {AckIssued(c)}
      [] c.pc = "confirm"  -> {DeliveryConfirmed(c)}
      [] c.pc = "read"     -> {InboxRead(c)}
      [] OTHER             -> {}

-----------------------------------------------------------------------------
(* Rebuilding the index from the log, as New does.                         *)

LastPos(l, Test(_)) == SelectLastInSeq(l, Test)

\* Results, as a caller gets them.
SendOut(id, status, dec, why, env, seq) ==
    [id |-> id, status |-> status, dec |-> dec, why |-> why, env |-> env, seq |-> seq]
ReceiveOut(id, dec, why, ack, seq) ==
    [id |-> id, status |-> "accepted", dec |-> dec, why |-> why, ack |-> ack, seq |-> seq]

RebuiltRequest(l, r) ==
    LET s == LastPos(l, LAMBDA e : e.type = "message_submitted" /\ e.req = r)
        f == LastPos(l, LAMBDA e : /\ e.type \in {"message_blocked", "outbound_released"}
                                /\ e.dir = "outbound" /\ e.req = r)
        out == IF l[f].type = "message_blocked"
               THEN SendOut(l[f].id, "denied", "deny", l[f].why, None, f)
               ELSE SendOut(l[f].what.id, "released", l[f].what.dec, l[f].why, l[f].what, f)
    IN  IF s = 0 THEN None
        ELSE [bind |-> l[s].what, id |-> l[s].id, created |-> s,
              final |-> f > s, out |-> IF f > s THEN out ELSE None]

RebuiltSent(l, id) ==
    LET f == LastPos(l, LAMBDA e : e.type = "outbound_released" /\ e.id = id)
    IN  IF f = 0 THEN None ELSE l[f].what

RebuiltReceived(l, id) ==
    LET a == LastPos(l, LAMBDA e : e.type = "inbound_accepted" /\ e.id = id)
        k == LastPos(l, LAMBDA e : e.type = "acknowledgement_issued" /\ e.id = id)
    IN  IF a = 0 THEN None
        ELSE [env |-> l[a].what, seq |-> a,
              out |-> ReceiveOut(id, l[a].dec, l[a].why,
                                 IF k > a THEN l[k].ack ELSE None,
                                 IF k > a THEN k ELSE a)]

\* Mutant of RebuiltSeen: only acceptance binds a message ID.
SeenIfAccepted(l, id) ==
    LET v == LastPos(l, LAMBDA e : e.type = "inbound_accepted" /\ e.id = id)
    IN  IF v = 0 THEN None ELSE l[v].what

RebuiltSeen(l, id) ==
    LET v == LastPos(l, LAMBDA e : e.type = "inbound_verified" /\ e.id = id)
    IN  IF v = 0 THEN None ELSE l[v].what

\* The members of a set of positions, in order.
InOrder(S) ==
    [k \in 1..Cardinality(S) |-> CHOOSE i \in S : Cardinality({j \in S : j <= i}) = k]

RebuiltInbox(l) ==
    LET order == InOrder({i \in 1..Len(l) : l[i].type = "inbound_accepted"})
    IN  [k \in 1..Len(order) |->
            [id |-> l[order[k]].id, env |-> l[order[k]].what, seq |-> order[k]]]

Rebuild(l) ==
    [requests  |-> [r \in Request |-> RebuiltRequest(l, r)],
     sent      |-> [id \in OutId |-> RebuiltSent(l, id)],
     received  |-> [id \in InId |-> RebuiltReceived(l, id)],
     seen      |-> [id \in InId |-> RebuiltSeen(l, id)],
     confirmed |-> [id \in OutId |->
                       LastPos(l, LAMBDA e : e.type = "delivery_confirmed" /\ e.id = id)],
     inbox     |-> RebuiltInbox(l)]

\* rebuildIndex returns an error unless every stored acknowledgement follows
\* the acceptance it was signed for.
ReplayOK(l) ==
    \A k \in DOMAIN l : l[k].type = "acknowledgement_issued" =>
        LET a == LastPos(SubSeq(l, 1, k), LAMBDA e : e.type = "inbound_accepted"
                                                  /\ e.id = l[k].id)
        IN  a > 0 /\ l[k].ack = [env |-> l[a].what, seq |-> a]

-----------------------------------------------------------------------------
(* The append every durable step goes through.                             *)

\* What an entry takes of the audit quota: one with a text or an envelope in it
\* is longer than one without.
Texts == {"message_submitted", "outbound_released", "inbound_verified", "inbound_accepted"}
Size(e) == IF e.type \in Texts THEN 2 ELSE 1
Used == Len(log) + Cardinality({i \in DOMAIN log : log[i].type \in Texts})

\* The quota refuses an entry for its own size; a shorter one may still fit.
Fits(e) == Used + Size(e) <= Quota

Usable == logState = "open"

\* The append succeeds and the call goes on as c, in whose ref field its
\* caller may keep the new entry's sequence number.
Commit(w, e, c) ==
    /\ Usable /\ Fits(e)
    /\ log' = Append(log, e)
    /\ call' = [call EXCEPT ![w] = c]

NextSeq == Len(log) + 1

Moves(w, pc) == call' = [call EXCEPT ![w].pc = pc]

\* Where a call is about to append.
Writing == {"submit", "verify", "scan", "model", "deny", "required", "consume",
            "release", "accept", "ack", "confirm", "read"}

\* The handle failed before or was closed, or no ID is left (newID), or the
\* entry does not fit.
Refused(w) == ~ (Usable /\ \E e \in Appending(call[w]) : Fits(e))

\* Mutant of AppendFails: the error return skips the deferred release.
AppendFailsLeaking(w) ==
    /\ call[w].pc \in Writing
    /\ Refused(w)
    /\ call' = [call EXCEPT ![w] = Idle]
    /\ UNCHANGED <<log, logState, service, active, index, approvals, answers, reader>>

\* Mutant of AppendFails: a log that is not open is waited for.
AppendFailsWaiting(w) ==
    /\ call[w].pc \in Writing
    /\ Usable /\ Refused(w)
    /\ Finish(w)
    /\ UNCHANGED <<log, logState, service, index, approvals, answers, reader>>

\* The append is refused and the handle stays as it is, or it fails, which
\* poisons the handle and leaves the entry stored or not.  Either way the call
\* returns the error.
AppendFails(w) ==
    /\ call[w].pc \in Writing
    /\ \/ Refused(w) /\ UNCHANGED <<log, logState>>
       \/ /\ Usable
          /\ logState' = "failed"
          /\ \E e \in Appending(call[w]) : Fits(e) /\ log' \in {log, Append(log, e)}
    /\ Finish(w)
    /\ UNCHANGED <<service, index, approvals, answers, reader>>

-----------------------------------------------------------------------------
(* Send.                                                                   *)

\* A request with a final result is answered from the index.
SendCached(r, t) ==
    LET rec == index.requests[r] IN
    /\ Serving
    /\ rec # None /\ rec.bind = t /\ rec.final
    /\ Answer(<<"send", r>>, rec.out)
    /\ UNCHANGED <<log, logState, service, active, index, approvals, call, reader>>

\* Mutant of SendClaim: a claim held by another call is not looked at.
SendClaimShared(w, r, t) ==
    LET rec == index.requests[r] IN
    /\ Serving
    /\ call[w] = Idle
    /\ rec # None => rec.bind = t /\ ~ rec.final
    /\ active' = active \cup {<<"send", r>>}
    /\ call' = [call EXCEPT ![w] =
           [Idle EXCEPT !.pc = IF rec = None THEN "submit" ELSE "scan",
                        !.key = <<"send", r>>, !.dir = "outbound", !.what = t,
                        !.id = IF rec = None THEN None ELSE rec.id,
                        !.rec = rec]]
    /\ UNCHANGED <<log, logState, service, index, approvals, answers, reader>>

\* claim.  A request that is known but not final continues with its message
\* ID; a different text under the same request ID is a conflict.
SendClaim(w, r, t) ==
    LET rec == index.requests[r] IN
    /\ Serving
    /\ call[w] = Idle
    /\ rec # None => rec.bind = t /\ ~ rec.final
    /\ Claim(<<"send", r>>)
    /\ call' = [call EXCEPT ![w] =
           [Idle EXCEPT !.pc = IF rec = None THEN "submit" ELSE "scan",
                        !.key = <<"send", r>>, !.dir = "outbound", !.what = t,
                        !.id = IF rec = None THEN None ELSE rec.id,
                        !.rec = rec]]
    /\ UNCHANGED <<log, logState, service, index, approvals, answers, reader>>

Submit(w) ==
    /\ call[w].pc = "submit"
    /\ \E id \in FreshIds :
           Commit(w, Submitted(call[w], id),
                  [call[w] EXCEPT !.pc = "submitted", !.id = id, !.ref = NextSeq])
    /\ UNCHANGED <<logState, service, active, index, approvals, answers, reader>>

\* setRequest: the request is bound to its message ID.
RecordRequest(w) ==
    LET c == call[w]
        rec == [bind |-> c.what, id |-> c.id, created |-> c.ref,
                final |-> FALSE, out |-> None] IN
    /\ c.pc = "submitted"
    /\ index' = [index EXCEPT !.requests[c.key[2]] = rec]
    /\ call' = [call EXCEPT ![w].pc = "scan", ![w].rec = rec]
    /\ UNCHANGED <<log, logState, service, active, approvals, answers, reader>>

-----------------------------------------------------------------------------
(* evaluate, for both directions.                                          *)

\* effectiveDecision: the model cannot lower a deterministic review.
EffectiveDecision(det, m) ==
    IF det = "review" /\ m = "allow"
    THEN [dec |-> "review", why |-> "scan"]
    ELSE [dec |-> m, why |-> "model"]

\* Where a decided call goes on.
After(c, v) ==
    [c EXCEPT !.dec = v.dec, !.why = v.why, !.ref = NextSeq,
              !.pc = CASE v.dec = "deny"   -> "deny"
                       [] v.dec = "review" -> "review"
                       [] OTHER -> IF c.dir = "outbound" THEN "release" ELSE "accept"]

\* guard.Scan runs first; a deterministic denial never reaches the model.
DeterministicGuard(w) ==
    LET c == call[w] IN
    /\ c.pc = "scan"
    /\ Commit(w, DeterministicVerdict(c),
              IF Scan[Body(c)] = "deny"
              THEN After(c, [dec |-> "deny", why |-> "scan"])
              ELSE [c EXCEPT !.pc = "model", !.dec = Scan[Body(c)]])
    /\ UNCHANGED <<logState, service, active, index, approvals, answers, reader>>

\* The model answers in time.  A shutdown cancels the call, but its answer may
\* still come first.
ModelGuard(w, m) ==
    LET c == call[w] IN
    /\ c.pc = "model"
    /\ Commit(w, ModelVerdict(c, m), After(c, EffectiveDecision(c.dec, m)))
    /\ UNCHANGED <<logState, service, active, index, approvals, answers, reader>>

\* The guard budget is spent, or the call fails, times out or is canceled.
GuardFailed(w) ==
    /\ call[w].pc = "model"
    /\ Usable /\ Fits(GuardFailure(call[w]))
    /\ log' = Append(log, GuardFailure(call[w]))
    /\ Finish(w)
    /\ UNCHANGED <<logState, service, index, approvals, answers, reader>>

\* A denial is the outcome of a request, but not of an inbound message: that
\* one is answered and may be offered again.
Block(w) ==
    LET c == call[w] IN
    /\ c.pc = "deny"
    /\ Usable /\ Fits(Blocked(c))
    /\ log' = Append(log, Blocked(c))
    /\ IF c.dir = "outbound"
       THEN /\ call' = [call EXCEPT ![w].pc = "denied", ![w].ref = NextSeq]
            /\ UNCHANGED active
       ELSE Finish(w)
    /\ UNCHANGED <<logState, service, index, approvals, answers, reader>>

\* Mutant of CheckApproval: any approval under the message ID counts.
CheckApprovalById(w) ==
    LET c == call[w] IN
    /\ c.pc = "review"
    /\ Moves(w, IF approved[c.id] \notin {None, Damaged} THEN "consume" ELSE "hold")
    /\ UNCHANGED <<log, logState, service, active, index, approvals, answers, reader>>

\* IsApproved: only an approval of exactly this binding counts.  A file that
\* cannot be read, for what it holds or for an I/O error, ends the call.
CheckApproval(w) ==
    LET c == call[w] IN
    /\ c.pc = "review"
    /\ \/ /\ approved[c.id] # Damaged
          /\ Moves(w, IF approved[c.id] = Binding(c) THEN "consume" ELSE "hold")
          /\ UNCHANGED active
       \/ Finish(w)
    /\ UNCHANGED <<log, logState, service, index, approvals, answers, reader>>

\* SavePending creates the review request, or finds the one it is a replay of.
SavePending(w) ==
    LET c == call[w] IN
    /\ c.pc = "hold"
    /\ pending[c.id] \in {None, Binding(c)}
    /\ pending' = [pending EXCEPT ![c.id] = Binding(c)]
    /\ Moves(w, "required")
    /\ UNCHANGED <<log, logState, service, active, index, approved, answers, reader>>

\* It finds a request it conflicts with or cannot read, or Create fails, and
\* may then leave a file that cannot be read, or the whole request.
SavePendingFails(w) ==
    LET c == call[w] IN
    /\ c.pc = "hold"
    /\ \/ UNCHANGED pending
       \/ /\ pending[c.id] = None
          /\ \E left \in {Damaged, Binding(c)} : pending' = [pending EXCEPT ![c.id] = left]
    /\ Finish(w)
    /\ UNCHANGED <<log, logState, service, index, approved, answers, reader>>

\* The caller is told that review is required.
ApprovalRequired(w) ==
    /\ call[w].pc = "required"
    /\ Usable /\ Fits(ApprovalPending(call[w]))
    /\ log' = Append(log, ApprovalPending(call[w]))
    /\ Finish(w)
    /\ UNCHANGED <<logState, service, index, approvals, answers, reader>>

ConsumeApproval(w) ==
    LET c == call[w] IN
    /\ c.pc = "consume"
    /\ Commit(w, ApprovalUsed(c),
              [c EXCEPT !.pc = IF c.dir = "outbound" THEN "release" ELSE "accept",
                        !.dec = "review_approved", !.ref = NextSeq])
    /\ UNCHANGED <<logState, service, active, index, approvals, answers, reader>>

\* Send signs the envelope and commits it.
Release(w) ==
    LET c == call[w] IN
    /\ c.pc = "release"
    /\ Commit(w, Released(c),
              [c EXCEPT !.pc = "released", !.ref = NextSeq, !.what = SignedEnvelope(c)])
    /\ UNCHANGED <<logState, service, active, index, approvals, answers, reader>>

\* Mutant of RecordFinal: the envelope is not remembered for Confirm.
RecordFinalOnly(w) ==
    LET c == call[w]
        out == IF c.pc = "released"
               THEN SendOut(c.id, "released", c.dec, c.why, c.what, c.ref)
               ELSE SendOut(c.id, "denied", c.dec, c.why, None, c.ref) IN
    /\ c.pc \in {"released", "denied"}
    /\ index' = [index EXCEPT
           !.requests[c.key[2]] = [c.rec EXCEPT !.final = TRUE, !.out = out]]
    /\ Answer(c.key, out)
    /\ Finish(w)
    /\ UNCHANGED <<log, logState, service, approvals, reader>>

\* The final result enters the index, the claim is released, and the caller
\* gets the result.
RecordFinal(w) ==
    LET c == call[w]
        out == IF c.pc = "released"
               THEN SendOut(c.id, "released", c.dec, c.why, c.what, c.ref)
               ELSE SendOut(c.id, "denied", c.dec, c.why, None, c.ref) IN
    /\ c.pc \in {"released", "denied"}
    /\ index' = [index EXCEPT
           !.requests[c.key[2]] = [c.rec EXCEPT !.final = TRUE, !.out = out],
           !.sent[c.id] = IF c.pc = "released" THEN c.what ELSE @]
    /\ Answer(c.key, out)
    /\ Finish(w)
    /\ UNCHANGED <<log, logState, service, approvals, reader>>

-----------------------------------------------------------------------------
(* Receive.                                                                *)

\* A message accepted and acknowledged before is answered with the same
\* result; the call holds a slot only while it looks it up.
ReceiveCached(e) ==
    LET rec == index.received[e.id] IN
    /\ Serving
    /\ Claimable(<<"receive", e.id>>)
    /\ rec # None /\ rec.env = e /\ rec.out.ack # None
    /\ Answer(<<"receive", e.id>>, rec.out)
    /\ UNCHANGED <<log, logState, service, active, index, approvals, call, reader>>

\* claim and the look-up behind it, which the claim keeps other calls for this
\* message away from.  Another envelope under a known message ID is a conflict.
ReceiveClaim(w, e) ==
    LET rec == index.received[e.id] IN
    /\ Serving
    /\ call[w] = Idle
    /\ IF rec # None THEN rec.env = e /\ rec.out.ack = None
                     ELSE index.seen[e.id] \in {None, e}
    /\ Claim(<<"receive", e.id>>)
    /\ call' = [call EXCEPT ![w] =
           [Idle EXCEPT !.pc = IF rec = None THEN "verify" ELSE "ack",
                        !.key = <<"receive", e.id>>, !.dir = "inbound",
                        !.what = e, !.id = e.id, !.rec = rec]]
    /\ UNCHANGED <<log, logState, service, index, approvals, answers, reader>>

Verify(w) ==
    /\ call[w].pc = "verify"
    /\ Commit(w, InboundVerified(call[w]), [call[w] EXCEPT !.pc = "verified"])
    /\ UNCHANGED <<logState, service, active, index, approvals, answers, reader>>

RecordSeen(w) ==
    LET c == call[w] IN
    /\ c.pc = "verified"
    /\ index' = [index EXCEPT !.seen[c.id] = c.what]
    /\ Moves(w, "scan")
    /\ UNCHANGED <<log, logState, service, active, approvals, answers, reader>>

Accept(w) ==
    LET c == call[w] IN
    /\ c.pc = "accept"
    /\ Commit(w, Accepted(c), [c EXCEPT !.pc = "accepted", !.ref = NextSeq])
    /\ UNCHANGED <<logState, service, active, index, approvals, answers, reader>>

\* The accepted message enters the received map and the inbox.
Publish(w) ==
    LET c == call[w]
        rec == [env |-> c.what, seq |-> c.ref,
                out |-> ReceiveOut(c.id, c.dec, c.why, None, c.ref)] IN
    /\ c.pc = "accepted"
    /\ index' = [index EXCEPT
           !.received[c.id] = rec,
           !.inbox = Append(@, [id |-> c.id, env |-> c.what, seq |-> c.ref])]
    /\ call' = [call EXCEPT ![w].pc = "ack", ![w].rec = rec]
    /\ UNCHANGED <<log, logState, service, active, approvals, answers, reader>>

\* issueAcknowledgement signs over the acceptance recorded for the message.
IssueAck(w) ==
    LET c == call[w] IN
    /\ c.pc = "ack"
    /\ Commit(w, AckIssued(c), [c EXCEPT !.pc = "acked", !.ref = NextSeq])
    /\ UNCHANGED <<logState, service, active, index, approvals, answers, reader>>

RecordAck(w) ==
    LET c == call[w]
        out == [c.rec.out EXCEPT !.ack = [env |-> c.rec.env, seq |-> c.rec.seq],
                                 !.seq = c.ref] IN
    /\ c.pc = "acked"
    /\ index' = [index EXCEPT !.received[c.id] = [c.rec EXCEPT !.out = out]]
    /\ Answer(c.key, out)
    /\ Finish(w)
    /\ UNCHANGED <<log, logState, service, approvals, reader>>

-----------------------------------------------------------------------------
(* Confirm and Inbox.                                                      *)

\* The peer's acknowledgement matches a released envelope that the index does
\* not show as confirmed.  The look-up and the claim are two critical sections.
ConfirmLookup(w, id) ==
    /\ Serving
    /\ call[w] = Idle
    /\ index.sent[id] # None
    /\ index.confirmed[id] = 0
    /\ call' = [call EXCEPT ![w] =
           [Idle EXCEPT !.pc = "confirm_claim", !.dir = "outbound", !.id = id]]
    /\ UNCHANGED <<log, logState, service, active, index, approvals, answers, reader>>

\* Mutant of ConfirmClaim: claims while the service is closing.
ConfirmClaimClosing(w) ==
    LET key == <<"confirm", call[w].id>> IN
    /\ call[w].pc = "confirm_claim"
    /\ \/ /\ Claim(key)
          /\ call' = [call EXCEPT ![w].pc = "confirm", ![w].key = key]
       \/ ~ Claimable(key) /\ Finish(w)
    /\ UNCHANGED <<log, logState, service, index, approvals, answers, reader>>

ConfirmClaim(w) ==
    LET key == <<"confirm", call[w].id>> IN
    /\ call[w].pc = "confirm_claim"
    /\ \/ /\ ~ closing
          /\ Claim(key)
          /\ call' = [call EXCEPT ![w].pc = "confirm", ![w].key = key]
       \/ (closing \/ ~ Claimable(key)) /\ Finish(w)
    /\ UNCHANGED <<log, logState, service, index, approvals, answers, reader>>

AppendConfirm(w) ==
    LET c == call[w] IN
    /\ c.pc = "confirm"
    /\ Commit(w, DeliveryConfirmed(c), [c EXCEPT !.pc = "confirmed", !.ref = NextSeq])
    /\ UNCHANGED <<logState, service, active, index, approvals, answers, reader>>

RecordConfirm(w) ==
    LET c == call[w] IN
    /\ c.pc = "confirmed"
    /\ index' = [index EXCEPT !.confirmed[c.id] = c.ref]
    /\ Finish(w)
    /\ UNCHANGED <<log, logState, service, approvals, answers, reader>>

\* Where the messages after the cursor are in the inbox, and how many of them
\* one page takes.
Unread == InOrder({i \in 1..Len(index.inbox) : index.inbox[i].seq > cursor})
PageLength == IF Len(Unread) < PageLimit THEN Len(Unread) ELSE PageLimit

\* Mutant of Page: the newest messages first.
NewestPage ==
    [k \in 1..PageLength |-> index.inbox[Unread[Len(Unread) - PageLength + k]]]

\* The messages after the cursor, in inbox order, as many as one page holds.
Page == [k \in 1..PageLength |-> index.inbox[Unread[k]]]

Reads == Cardinality({i \in DOMAIN log : log[i].type = "inbox_read"})

\* Inbox selects a page under s.mu.  It takes no claim, only a place in the
\* workers group.  One agent reads, a page at a time.
InboxSelect(w) ==
    /\ Serving
    /\ call[w] = Idle
    /\ Reads < MaxReads
    /\ \A v \in Worker : call[v].pc # "read"
    /\ call' = [call EXCEPT ![w] = [Idle EXCEPT !.pc = "read", !.page = Page]]
    /\ UNCHANGED <<log, logState, service, active, index, approvals, answers, reader>>

\* The read is audited, and the agent moves its cursor to the highest sequence
\* it was given.
InboxReturn(w) ==
    LET page == call[w].page
        seqs == {page[i].seq : i \in DOMAIN page} IN
    /\ call[w].pc = "read"
    /\ Usable /\ Fits(InboxRead(call[w]))
    /\ log' = Append(log, InboxRead(call[w]))
    /\ fetched' = fetched \cup seqs
    /\ cursor' = Max(seqs \cup {cursor})
    /\ Finish(w)
    /\ UNCHANGED <<logState, service, index, approvals, answers>>

-----------------------------------------------------------------------------
(* The operator and the life of the process.                               *)

\* turnwire approve, in a process of its own: it approves the pending record it
\* shows.  An interrupted Create leaves a file nobody can read.
Approve(id) ==
    /\ pending[id] \notin {None, Damaged}
    /\ approved[id] = None
    /\ \E a \in {pending[id], Damaged} : approved' = [approved EXCEPT ![id] = a]
    /\ UNCHANGED <<log, logState, service, active, index, pending, call, answers, reader>>

\* Shutdown: no new claims, and the workers are waited for.
Shutdown ==
    /\ Serving
    /\ closing' = TRUE
    /\ UNCHANGED <<log, logState, up, active, index, approvals, call, answers, reader>>

\* runServe returns once the workers are gone or the wait for them timed out,
\* and its deferred Close shuts the log under whoever is still running.
CloseLog ==
    /\ up /\ closing
    /\ logState # "closed"
    /\ logState' = "closed"
    /\ UNCHANGED <<log, service, active, index, approvals, call, answers, reader>>

\* The process ends, at any point.
Crash ==
    /\ up
    /\ up' = FALSE
    /\ closing' = FALSE
    /\ logState' = "closed"
    /\ active' = {}
    /\ index' = Rebuild(<< >>)
    /\ call' = [w \in Worker |-> Idle]
    /\ UNCHANGED <<log, approvals, answers, reader>>

Starts == Cardinality({i \in DOMAIN log : log[i].type = "service_started"})

\* runServe attests the deployment in the log and New replays it.
Start ==
    /\ ~ up
    /\ Starts < MaxStarts
    /\ Fits(Started)
    /\ log' = Append(log, Started)
    /\ ReplayOK(log')
    /\ index' = Rebuild(log')
    /\ up' = TRUE
    /\ logState' = "open"
    /\ UNCHANGED <<closing, active, approvals, call, answers, reader>>

\* The attestation is stored but the start fails: its fsync or the replay
\* returns an error.
StartFails ==
    /\ ~ up
    /\ Starts < MaxStarts
    /\ Fits(Started)
    /\ log' = Append(log, Started)
    /\ UNCHANGED <<logState, service, active, index, approvals, call, answers, reader>>

Init ==
    /\ log = << >>
    /\ logState = "closed"
    /\ up = FALSE
    /\ closing = FALSE
    /\ active = {}
    /\ index = Rebuild(<< >>)
    /\ pending = [id \in MsgId |-> None]
    /\ approved = [id \in MsgId |-> None]
    /\ call = [w \in Worker |-> Idle]
    /\ answers = {}
    /\ cursor = 0
    /\ fetched = {}

\* A step of a call that has started.
Step(w) ==
    \/ Submit(w)
    \/ RecordRequest(w)
    \/ DeterministicGuard(w)
    \/ \E m \in {"allow", "review", "deny"} : ModelGuard(w, m)
    \/ GuardFailed(w)
    \/ Block(w)
    \/ CheckApproval(w)
    \/ SavePending(w)
    \/ SavePendingFails(w)
    \/ ApprovalRequired(w)
    \/ ConsumeApproval(w)
    \/ Release(w)
    \/ RecordFinal(w)
    \/ Verify(w)
    \/ RecordSeen(w)
    \/ Accept(w)
    \/ Publish(w)
    \/ IssueAck(w)
    \/ RecordAck(w)
    \/ ConfirmClaim(w)
    \/ AppendConfirm(w)
    \/ RecordConfirm(w)
    \/ InboxReturn(w)
    \/ AppendFails(w)

Next ==
    \/ \E w \in Worker :
           \/ \E r \in Request, t \in Text : SendClaim(w, r, t)
           \/ \E e \in Inbound : ReceiveClaim(w, e)
           \/ \E id \in OutId : ConfirmLookup(w, id)
           \/ InboxSelect(w)
           \/ Step(w)
    \/ \E r \in Request, t \in Text : SendCached(r, t)
    \/ \E e \in Inbound : ReceiveCached(e)
    \/ \E id \in MsgId : Approve(id)
    \/ Shutdown
    \/ CloseLog
    \/ Crash
    \/ Start
    \/ StartFails

Spec == Init /\ [][Next]_vars

\* Every call keeps running: Go schedules its goroutine, each lock is released
\* by a holder that does not block, and a guard call ends by its timeout.
FairSpec == Spec /\ \A w \in Worker : WF_vars(Step(w))

-----------------------------------------------------------------------------
(* Properties.                                                             *)

Verdict == {"allow", "review", "deny", "review_approved", None}
Why == {"scan", "model", None}
Direction == {"outbound", "inbound"}
Key == ({"send"} \X Request) \cup ({"receive"} \X InId) \cup ({"confirm"} \X OutId)
Proposal == [id : OutId, dir : {"outbound"}, what : Text]
               \cup [id : InId, dir : {"inbound"}, what : {<<e.src, e.body>> : e \in Inbound}]

\* What Send signs and returns, and what it remembers of a request.
Envelope == [id : OutId, req : Request, body : Text, created : Nat, dec : Verdict, src : Nat]
SendResult == [id : OutId, status : {"released", "denied"}, dec : Verdict, why : Why,
               env : Envelope \cup {None}, seq : Nat]
RequestRecord == [bind : Text, id : OutId, created : Nat, final : BOOLEAN,
                  out : SendResult \cup {None}]

\* What Receive returns and remembers, and what Inbox shows of it.
Receipt == [env : Inbound, seq : Nat]
ReceiveResult == [id : InId, status : {"accepted"}, dec : Verdict, why : Why,
                  ack : Receipt \cup {None}, seq : Nat]
ReceivedRecord == [env : Inbound, seq : Nat, out : ReceiveResult]
Message == [id : InId, env : Inbound, seq : Nat]

Index == [requests  : [Request -> RequestRecord \cup {None}],
          sent      : [OutId -> Envelope \cup {None}],
          received  : [InId -> ReceivedRecord \cup {None}],
          seen      : [InId -> Inbound \cup {None}],
          confirmed : [OutId -> Nat],
          inbox     : Seq(Message)]

EntryType == {"message_submitted", "inbound_verified", "deterministic_guard",
              "model_guard", "guard_failed", "message_blocked", "approval_required",
              "approval_consumed", "outbound_released", "inbound_accepted",
              "acknowledgement_issued", "delivery_confirmed", "inbox_read",
              "service_started"}
Content == Text \cup Inbound \cup Envelope \cup {None}
Entry == [type : EntryType, dir : Direction \cup {None}, id : MsgId \cup {None},
          req : Request \cup {None}, what : Content, dec : Verdict, why : Why,
          ack : Receipt \cup {None}]

Pc == Writing \cup {"idle", "submitted", "verified", "review", "hold", "released",
                    "denied", "accepted", "acked", "confirm_claim", "confirmed"}
Call == [pc : Pc, key : Key \cup {None}, dir : Direction \cup {None},
         id : MsgId \cup {None}, what : Content, dec : Verdict, why : Why, ref : Nat,
         rec : RequestRecord \cup ReceivedRecord \cup {None}, page : Seq(Message)]

\* Nothing the service handles is the absent value or an unreadable file.
ASSUME AbsentAssumption ==
    /\ None \notin Request /\ None \notin MsgId /\ None \notin Text
    /\ None \notin Inbound /\ None \notin Key /\ None \notin Direction
    /\ None \notin Envelope /\ None \notin RequestRecord
    /\ None \notin Receipt /\ None \notin ReceivedRecord
    /\ None \notin Proposal /\ Damaged \notin Proposal

TypeOK ==
    /\ log \in Seq(Entry)
    /\ logState \in {"open", "failed", "closed"}
    /\ up \in BOOLEAN /\ closing \in BOOLEAN
    /\ active \subseteq Key
    /\ index \in Index
    /\ pending \in [MsgId -> Proposal \cup {None, Damaged}]
    /\ approved \in [MsgId -> Proposal \cup {None, Damaged}]
    /\ call \in [Worker -> Call]
    /\ answers \subseteq [key : Key, out : SendResult \cup ReceiveResult]
    /\ cursor \in 0..Len(log)
    /\ fetched \subseteq DOMAIN log

Types(S) == {i \in DOMAIN log : log[i].type \in S}
SameMessage(i, j) == log[i].dir = log[j].dir /\ log[i].id = log[j].id

\* Send: a request is proposed once, under one message ID that no other request
\* has, whatever is retried, interleaved or restarted; it has one final outcome
\* at most; and the envelope released for it carries the proposed text and the
\* proposal's own time stamp.
RequestBinds ==
    /\ \A i, j \in Types({"message_submitted"}) :
           log[i].req = log[j].req \/ log[i].id = log[j].id => i = j
    /\ \A i, j \in Types({"message_blocked", "outbound_released"}) :
           log[i].req # None /\ log[i].req = log[j].req => i = j
    /\ \A i \in Types({"outbound_released"}) :
           \E s \in Types({"message_submitted"}) :
               /\ s < log[i].what.src
               /\ log[s].req = log[i].req
               /\ log[s].id = log[i].id
               /\ log[s].what = log[i].what.body
               /\ s = log[i].what.created

\* Receive: a message ID is bound for ever to the first envelope verified under
\* it, no entry of another envelope with the same ID is ever written, and the
\* message is accepted once, also if its sender delivers it again after a crash
\* between the acceptance and its acknowledgement.
InboundBinds ==
    \A i, j \in Types({"inbound_verified", "inbound_accepted",
                       "acknowledgement_issued"}) :
        log[i].id = log[j].id =>
            /\ log[i].what = log[j].what
            /\ {log[i].type, log[j].type} = {"inbound_accepted"} => i = j

\* evaluate: nothing is released or accepted but by the evaluation just before
\* it, of the same text: an effective "allow", or an effective "review" and
\* after it the consumption of an approval that binds this message ID, this
\* direction and this text.  An approval never overrides a denial.
GuardedAt(i) ==
    LET before == SubSeq(log, 1, i - 1)
        d == LastPos(before, LAMBDA e : /\ e.type = "deterministic_guard"
                                        /\ e.dir = log[i].dir /\ e.id = log[i].id)
        m == LastPos(before, LAMBDA e : /\ e.type = "model_guard"
                                        /\ e.dir = log[i].dir /\ e.id = log[i].id)
        a == LastPos(before, LAMBDA e : /\ e.type = "approval_consumed"
                                        /\ e.dir = log[i].dir /\ e.id = log[i].id)
        v == EffectiveDecision(log[d].dec, log[m].dec)
    IN  /\ 0 < d /\ d < m
        /\ log[d].dec = Scan[log[i].what.body]
        /\ log[i].why = v.why
        /\ \/ v.dec = "allow" /\ log[i].dec = "allow"
           \/ /\ v.dec = "review" /\ log[i].dec = "review_approved"
              /\ a > m
              /\ approved[log[i].id] =
                     [id |-> log[i].id, dir |-> log[i].dir,
                      what |-> IF log[i].dir = "outbound" THEN log[i].what.body
                               ELSE <<log[i].what.src, log[i].what.body>>]

Guarded == \A i \in Types({"outbound_released", "inbound_accepted"}) : GuardedAt(i)

\* A final result a caller was given is what every later replay of the log
\* yields for the same request or message, reason code and receipt included, so
\* retries are answered alike before and after any number of restarts.
AnswersStand ==
    LET replayed == Rebuild(log) IN
    \A a \in answers :
        \/ /\ a.key[1] = "send"
           /\ replayed.requests[a.key[2]] # None
           /\ replayed.requests[a.key[2]].final
           /\ replayed.requests[a.key[2]].out = a.out
        \/ /\ a.key[1] = "receive"
           /\ replayed.received[a.key[2]] # None
           /\ replayed.received[a.key[2]].out = a.out

\* While the log accepts appends, the live index is the replay of the log in
\* everything no running call has claimed, so a restart changes nothing that a
\* caller can observe.  (A failed append may leave an entry only the next replay
\* shows; the inbox is compared as a set, see NothingSkipped.)  And rebuildIndex
\* refuses no log: the endpoint can always be started again.
LiveIsReplay ==
    LET replayed == Rebuild(log)
        Free(key) == key \notin active IN
    /\ ReplayOK(log)
    /\ up /\ logState = "open" =>
           /\ \A r \in Request : Free(<<"send", r>>) =>
                  index.requests[r] = replayed.requests[r]
           /\ \A id \in InId : Free(<<"receive", id>>) =>
                  /\ index.received[id] = replayed.received[id]
                  /\ index.seen[id] = replayed.seen[id]
           /\ \A id \in OutId :
                  /\ (\A w \in Worker : call[w].id # id) => index.sent[id] = replayed.sent[id]
                  /\ Free(<<"confirm", id>>) => index.confirmed[id] = replayed.confirmed[id]
           /\ (\A w \in Worker : call[w].pc # "accepted") =>
                  ToSet(index.inbox) = ToSet(replayed.inbox)

\* claim: the claimed keys are those of the running calls, no key is held twice,
\* and there are never more than max_concurrent, so no failed call leaks a slot.
ClaimsExact ==
    /\ active = {call[w].key : w \in Worker} \ {None}
    /\ \A v, w \in Worker : call[v].key = call[w].key /\ call[v].key # None => v = w
    /\ Cardinality(active) <= MaxConcurrent

\* Calls that hold a place in s.workers, which Shutdown waits for.
Counted == {w \in Worker : call[w].pc \notin {"idle", "confirm_claim"}}

\* Shutdown: once closing is set no call enters the workers group, and after it
\* has drained the service never writes to the log again, which is what lets
\* runServe close the log.
DrainedIsSilent ==
    [][up /\ up' /\ closing =>
          /\ closing'
          /\ Cardinality(Counted') <= Cardinality(Counted)
          /\ Counted = {} => log' = log]_vars

\* list_messages "read[s] guard-accepted messages": an agent that pages with
\* after_sequence, always the highest sequence it was given, has been given every
\* accepted message of the inbox up to that point.
NothingSkipped ==
    \A i \in DOMAIN index.inbox :
        index.inbox[i].seq <= cursor => index.inbox[i].seq \in fetched

\* Every call ends, and gives its claim back: also when the log has failed or was
\* closed under it, when the quota is spent, and while the service shuts down.
CallsEnd == \A w \in Worker : call[w] # Idle ~> call[w] = Idle
=============================================================================
