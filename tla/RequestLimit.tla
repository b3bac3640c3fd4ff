---------------------------- MODULE RequestLimit ----------------------------
(***************************************************************************)
(* internal/mcpserver/request_limit.go: the stream between stdin/stdout    *)
(* and the MCP SDK, which admits a bounded number of calls.                *)
(*                                                                         *)
(* Actors: the client; the SDK's read loop, which runs Read; one SDK       *)
(* handler per dispatched call, which runs Write when it has its answer;   *)
(* and whoever closes the stream.  s.mu is held for one step; writeMu is   *)
(* held while a frame goes out, during which the client may already read   *)
(* it and send its next call.                                              *)
(*                                                                         *)
(* Abstracted: a frame is its kind and request ID (FrameReader has the     *)
(* bytes); the frame budget refuses at any time or never (Budget has the   *)
(* counter).  External: the SDK answers every call it is given once, and   *)
(* may write frames that answer none.                                      *)
(***************************************************************************)
EXTENDS Integers, Sequences, FiniteSets

CONSTANTS
    Id,            \* request IDs the client uses
    MaxInFlight,   \* transportCallLimit
    MaxNonCalls,   \* maxInboundNonCallMessages
    MaxFrames,     \* bound: frames the client sends
    None           \* no frame, nobody

ASSUME RequestLimitAssumption ==
    /\ MaxInFlight \in Nat \ {0}
    /\ MaxNonCalls \in Nat
    /\ MaxFrames \in Nat

VARIABLES
    input,         \* frames sent and not yet read
    sent,          \* how many the client has sent
    atEnd,         \* the client has closed its end
    reader,        \* the read loop: [pc, frame]
    writer,        \* who holds writeMu, with what: [pc, id, count]
    sdk,           \* calls dispatched, their responses not begun
    pending,       \* s.pending
    responding,    \* s.responding
    nonCalls,      \* s.nonCalls
    stopped,       \* s.stopped
    failed,        \* a failed write, to be followed by Close
    errors,        \* history: errors reported
    awaited,       \* history: calls sent under an ID less answers received
    reused         \* history: the client used an ID whose answer it awaited

vars == <<input, sent, atEnd, reader, writer, sdk, pending, responding, nonCalls,
          stopped, failed, errors, awaited, reused>>

client == <<input, sent, atEnd>>
slots == <<pending, responding, nonCalls>>

Frame == {[kind |-> "call", id |-> i] : i \in Id}
           \cup [kind : {"nonCall", "batch", "undecodable", "unreadable"}, id : {None}]

Unlocked == [pc |-> "free", id |-> None, count |-> 0]
InRead == [pc |-> "read", frame |-> None]
ReadDone == [pc |-> "done", frame |-> None]

Init ==
    /\ input = << >>
    /\ sent = 0
    /\ atEnd = FALSE
    /\ reader = InRead
    /\ writer = Unlocked
    /\ sdk = {}
    /\ pending = {}
    /\ responding = 0
    /\ nonCalls = 0
    /\ stopped = FALSE
    /\ failed = FALSE
    /\ errors = {}
    /\ awaited = [i \in Id |-> 0]
    /\ reused = FALSE

-----------------------------------------------------------------------------
(* The client.                                                             *)

ClientSends(f) ==
    /\ ~ atEnd
    /\ sent < MaxFrames
    /\ sent' = sent + 1
    /\ input' = Append(input, f)
    /\ IF f.kind = "call"
       THEN /\ awaited' = [awaited EXCEPT ![f.id] = @ + 1]
            /\ reused' = (reused \/ awaited[f.id] > 0)
       ELSE UNCHANGED <<awaited, reused>>
    /\ UNCHANGED <<atEnd, reader, writer, sdk, slots, stopped, failed, errors>>

ClientCloses ==
    /\ ~ atEnd
    /\ atEnd' = TRUE
    /\ UNCHANGED <<input, sent, reader, writer, sdk, slots, stopped, failed,
                   errors, awaited, reused>>

-----------------------------------------------------------------------------
(* Read.                                                                   *)

\* ReadFrame returns a frame, also one that was read while the stream stopped.
ReadFrame ==
    /\ reader.pc = "read"
    /\ input # << >>
    /\ Head(input).kind # "unreadable"
    /\ input' = Tail(input)
    /\ reader' = [pc |-> "admit", frame |-> Head(input)]
    /\ UNCHANGED <<sent, atEnd, writer, sdk, slots, stopped, failed, errors,
                   awaited, reused>>

\* It returns an error: the end of the input, a frame the frame reader refuses,
\* or whatever reading a closed stream gives.  failRead reports all but the end.
ReadEnds ==
    /\ reader.pc = "read"
    /\ \/ input = << >> /\ atEnd /\ UNCHANGED errors
       \/ /\ input # << >> /\ Head(input).kind = "unreadable"
          /\ errors' = errors \cup {"read"}
       \/ stopped /\ errors' \in {errors, errors \cup {"read"}}
    /\ reader' = ReadDone
    /\ UNCHANGED <<client, writer, sdk, slots, stopped, failed, awaited, reused>>

Refuses(e) ==
    /\ errors' = errors \cup {e}
    /\ reader' = ReadDone
    /\ UNCHANGED <<slots, sdk>>

\* The frame budget is spent or cannot be charged.
FrameRefused ==
    /\ reader.pc = "admit"
    /\ Refuses("budget")
    /\ UNCHANGED <<client, writer, stopped, failed, awaited, reused>>

Goes(next) ==
    /\ reader' = next
    /\ UNCHANGED errors

\* Mutant of AtCapacity: calls whose response is being written are forgotten.
AtCapacityPending == Cardinality(pending) >= MaxInFlight

AtCapacity == Cardinality(pending) + responding >= MaxInFlight

\* Mutant of AdmitCall: the call beyond the limit is dropped without an answer.
AdmitCallDropping(id) ==
    \/ id \in pending /\ Refuses("duplicate")
    \/ /\ id \notin pending /\ AtCapacity
       /\ Goes(InRead)
       /\ UNCHANGED <<slots, sdk>>
    \/ /\ id \notin pending /\ ~ AtCapacity
       /\ pending' = pending \cup {id}
       /\ sdk' = sdk \cup {id}
       /\ Goes(InRead)
       /\ UNCHANGED <<responding, nonCalls>>

\* A call: refused as a duplicate, answered as busy, or dispatched.
AdmitCall(id) ==
    \/ id \in pending /\ Refuses("duplicate")
    \/ /\ id \notin pending /\ AtCapacity
       /\ Goes([reader EXCEPT !.pc = "busy"])
       /\ UNCHANGED <<slots, sdk>>
    \/ /\ id \notin pending /\ ~ AtCapacity
       /\ pending' = pending \cup {id}
       /\ sdk' = sdk \cup {id}
       /\ Goes(InRead)
       /\ UNCHANGED <<responding, nonCalls>>

AdmitNonCall ==
    \/ nonCalls >= MaxNonCalls /\ Refuses("non-calls")
    \/ /\ nonCalls < MaxNonCalls
       /\ nonCalls' = nonCalls + 1
       /\ Goes(InRead)
       /\ UNCHANGED <<pending, responding, sdk>>

\* admitFrame.  What is not JSON-RPC is left to the SDK, also when stopped.
AdmitFrame ==
    LET f == reader.frame IN
    /\ reader.pc = "admit"
    /\ \/ f.kind = "batch" /\ Refuses("batch")
       \/ f.kind = "undecodable" /\ Goes(InRead) /\ UNCHANGED <<slots, sdk>>
       \/ f.kind \in {"call", "nonCall"} /\ stopped /\ Refuses("closed")
       \/ f.kind = "nonCall" /\ ~ stopped /\ AdmitNonCall
       \/ f.kind = "call" /\ ~ stopped /\ AdmitCall(f.id)
    /\ UNCHANGED <<client, writer, stopped, failed, awaited, reused>>

\* writeUntrackedFrame takes writeMu for the busy response.
LockBusy ==
    /\ reader.pc = "busy"
    /\ writer = Unlocked
    /\ IF stopped
       THEN /\ errors' = errors \cup {"closed"}
            /\ reader' = ReadDone
            /\ failed' = TRUE
            /\ UNCHANGED writer
       ELSE /\ writer' = [pc |-> "busy", id |-> reader.frame.id, count |-> 0]
            /\ UNCHANGED <<errors, reader, failed>>
    /\ UNCHANGED <<client, sdk, slots, stopped, awaited, reused>>

Answered(id) == awaited' = [awaited EXCEPT ![id] = @ - 1]

WriteBusy ==
    /\ writer.pc = "busy"
    /\ writer' = Unlocked
    /\ \/ Answered(writer.id) /\ reader' = InRead /\ UNCHANGED <<errors, failed>>
       \/ /\ errors' = errors \cup {"write"}
          /\ reader' = ReadDone
          /\ failed' = TRUE
          /\ UNCHANGED awaited
    /\ UNCHANGED <<client, sdk, slots, stopped, reused>>

-----------------------------------------------------------------------------
(* Write.                                                                  *)

\* The handler of call id has its answer, and writeMu.
LockWrite(id) ==
    /\ id \in sdk
    /\ writer = Unlocked
    /\ ~ stopped
    /\ writer' = [pc |-> "locked", id |-> id, count |-> 0]
    /\ UNCHANGED <<client, reader, sdk, slots, stopped, failed, errors, awaited, reused>>

\* Handlers that have not reached beginResponses.
Unbegun == IF writer.pc = "locked" THEN sdk \ {writer.id} ELSE sdk

\* A stopped stream takes no answer.
WriteStopped(id) ==
    /\ id \in Unbegun
    /\ stopped
    /\ sdk' = sdk \ {id}
    /\ UNCHANGED <<client, reader, writer, slots, stopped, failed, errors, awaited, reused>>

\* An answer that is too large or cannot be classified.
WriteRefused(id) ==
    /\ id \in Unbegun
    /\ sdk' = sdk \ {id}
    /\ errors' = errors \cup {"output"}
    /\ failed' = TRUE
    /\ UNCHANGED <<client, reader, writer, slots, stopped, awaited, reused>>

\* Mutant of BeginResponses: the ID stays pending while its answer goes out.
BeginResponsesPending ==
    /\ writer.pc = "locked"
    /\ responding' = responding + 1
    /\ sdk' = sdk \ {writer.id}
    /\ writer' = [writer EXCEPT !.pc = "write", !.count = 1]
    /\ UNCHANGED <<client, reader, pending, nonCalls, stopped, failed, errors,
                   awaited, reused>>

\* beginResponses: the ID may be used again, its slot stays taken.
BeginResponses ==
    LET tracked == writer.id \in pending IN
    /\ writer.pc = "locked"
    /\ pending' = pending \ {writer.id}
    /\ responding' = IF tracked THEN responding + 1 ELSE responding
    /\ sdk' = sdk \ {writer.id}
    /\ writer' = [writer EXCEPT !.pc = "write", !.count = IF tracked THEN 1 ELSE 0]
    /\ UNCHANGED <<client, reader, nonCalls, stopped, failed, errors, awaited, reused>>

\* The frame is out and the client may act on it.
WriteOut ==
    /\ writer.pc = "write"
    /\ Answered(writer.id)
    /\ writer' = [writer EXCEPT !.pc = "written"]
    /\ UNCHANGED <<client, reader, sdk, slots, stopped, failed, errors, reused>>

\* finishResponses, after a write that succeeded or failed, and Unlock.
FinishResponses ==
    /\ writer.pc \in {"write", "written"}
    /\ responding' = IF responding < writer.count THEN 0 ELSE responding - writer.count
    /\ writer' = Unlocked
    /\ IF writer.pc = "write"
       THEN errors' = errors \cup {"write"} /\ failed' = TRUE
       ELSE UNCHANGED <<errors, failed>>
    /\ UNCHANGED <<client, reader, sdk, pending, nonCalls, stopped, awaited, reused>>

\* A frame that answers no call: it holds writeMu, and may fail.
OtherFrame ==
    /\ writer = Unlocked
    /\ ~ stopped
    /\ writer' = [pc |-> "other", id |-> None, count |-> 0]
    /\ UNCHANGED <<client, reader, sdk, slots, stopped, failed, errors, awaited, reused>>

OtherWritten ==
    /\ writer.pc = "other"
    /\ writer' = Unlocked
    /\ \/ UNCHANGED <<errors, failed>>
       \/ errors' = errors \cup {"write"} /\ failed' = TRUE
    /\ UNCHANGED <<client, reader, sdk, slots, stopped, awaited, reused>>

\* Close: after a failed write, by the SDK when it ends the session, or because
\* the process is told to stop.  An error of its own counts if it is the first.
Close ==
    /\ ~ stopped
    /\ stopped' = TRUE
    /\ pending' = {}
    /\ responding' = 0
    /\ errors' \in {errors, IF errors = {} THEN {"close"} ELSE errors}
    /\ UNCHANGED <<client, reader, writer, sdk, nonCalls, failed, awaited, reused>>

Reading == ReadFrame \/ ReadEnds \/ FrameRefused \/ AdmitFrame \/ LockBusy

Holding == WriteBusy \/ BeginResponses \/ WriteOut \/ FinishResponses \/ OtherWritten

Next ==
    \/ \E f \in Frame : ClientSends(f)
    \/ ClientCloses
    \/ ReadFrame
    \/ ReadEnds
    \/ FrameRefused
    \/ AdmitFrame
    \/ LockBusy
    \/ WriteBusy
    \/ \E id \in Id : LockWrite(id) \/ WriteStopped(id) \/ WriteRefused(id)
    \/ BeginResponses
    \/ WriteOut
    \/ FinishResponses
    \/ OtherFrame
    \/ OtherWritten
    \/ Close

Spec == Init /\ [][Next]_vars

\* The read loop and every handler keep running, the client reads what it is
\* sent so that writes end, a failed write is followed by its Close, and a
\* goroutine that waits for a mutex gets it in the end (Go's starvation mode).
FairSpec ==
    /\ Spec
    /\ WF_vars(Reading) /\ SF_vars(LockBusy)
    /\ WF_vars(Holding)
    /\ \A id \in Id : SF_vars(LockWrite(id)) /\ WF_vars(WriteStopped(id))
    /\ WF_vars(failed /\ Close)

-----------------------------------------------------------------------------
(* Properties.                                                             *)

TypeOK ==
    /\ input \in Seq(Frame)
    /\ sent \in 0..MaxFrames
    /\ reader \in [pc : {"read", "admit", "busy", "done"}, frame : Frame \cup {None}]
    /\ writer \in [pc : {"free", "busy", "locked", "write", "written", "other"},
                   id : Id \cup {None}, count : 0..1]
    /\ sdk \subseteq Id /\ pending \subseteq Id
    /\ responding \in 0..1
    /\ nonCalls \in 0..MaxNonCalls
    /\ awaited \in [Id -> Int]

\* Calls inside the SDK, the one whose answer is going out among them.
InFlight == Cardinality(sdk) + (IF writer.pc \in {"write", "written"} THEN 1 ELSE 0)

\* admitFrame: the SDK never holds more calls than the limit, counting the one
\* whose answer the client may already have read.
InFlightBounded == ~ stopped => InFlight <= MaxInFlight

\* Admission and responses keep exact account until a failure that closes the
\* stream: a slot is taken for each call the SDK holds or is answering and for
\* nothing else, so none leaks and no call is refused as busy below the limit.
SlotsExact ==
    ~ stopped /\ ~ failed =>
        /\ pending = sdk
        /\ responding = IF writer.pc \in {"write", "written"} THEN 1 ELSE 0

\* Admission keeps account of the calls: never more than the limit, and never a
\* slot that no call explains.
CallsAccounted == InFlightBounded /\ SlotsExact

\* A client that uses an ID again only when it has its answer is never cut off
\* for a duplicate, however soon it does so.
NoFalseDuplicate == "duplicate" \in errors => reused

\* Every call is answered, with a result or as busy, unless the stream is closed
\* or reading has ended.
CallsAnswered ==
    \A i \in Id : awaited[i] > 0 ~> awaited[i] = 0 \/ stopped \/ reader.pc = "done"
=============================================================================
