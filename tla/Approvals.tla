----------------------------- MODULE Approvals ------------------------------
(***************************************************************************)
(* internal/approval and `turnwire approve' over securestore.Create, for   *)
(* the files of one message ID: the review request, its body when that     *)
(* does not fit into the record, and the operator's approval.              *)
(*                                                                         *)
(* Create makes a file, writes and syncs it and syncs the directory; it    *)
(* never replaces one, and removes none on an error.  Each of the four is  *)
(* a step, and a call may fail, its process die or the power go in         *)
(* between.  A call that finds its file already there compares and accepts *)
(* it: whoever wrote it may not have come to the end.                      *)
(*                                                                         *)
(* Abstracted: a review is a direction, peer and body; its hash is the     *)
(* review.  A file that is empty or cut short is unreadable as a record,   *)
(* and no body has its hash.                                               *)
(***************************************************************************)
CONSTANTS
    Server,       \* the serving process's calls that may save a review request
    Operator,     \* processes that run turnwire approve
    Review,       \* reviews filed under the message ID
    Large,        \* those whose body does not fit into the record
    None          \* no file, no review

VARIABLES
    disk,         \* the three files: None or [val, data, linked]
    proc,         \* proc[c]: the call or command c runs
    saved,        \* history: reviews SavePending has returned nil for
    approvals,    \* history: reviews whose approval was reported
    shown,        \* history: [review, body] displayed to an operator
    trusted       \* history: a file was accepted that may not be durable

vars == <<disk, proc, saved, approvals, shown, trusted>>

File == {"body", "pending", "approved"}
Record == [val : Review, data : {"partial", "written", "synced"}, linked : BOOLEAN]
Idle == [pc |-> "idle", file |-> "pending", review |-> None]

ApprovalsAssumption ==
    /\ None \notin Review
    /\ None \notin Record

Init ==
    /\ disk = [f \in File |-> None]
    /\ proc = [c \in Server \cup Operator |-> Idle]
    /\ saved = {}
    /\ approvals = {}
    /\ shown = {}
    /\ trusted = FALSE

-----------------------------------------------------------------------------
(* Files.                                                                  *)

There(f) == disk[f] # None
Whole(f) == There(f) /\ disk[f].data # "partial"
Durable(f) == There(f) /\ disk[f].data = "synced" /\ disk[f].linked

Linked == [f \in File |-> IF There(f) THEN [disk[f] EXCEPT !.linked = TRUE] ELSE None]

\* What a power loss may make of a file.
Leftovers(f) ==
    IF ~ There(f) THEN {None}
    ELSE (IF disk[f].linked THEN {} ELSE {None}) \cup
         {[disk[f] EXCEPT !.data = IF @ = "synced" THEN "synced" ELSE d, !.linked = TRUE] :
             d \in IF Whole(f) THEN {"partial", "synced"} ELSE {"partial"}}

\* Mutant of BodyOf: the stored body is not hashed.
BodyUnchecked(r) ==
    IF r \notin Large THEN r
    ELSE IF Whole("body") THEN disk["body"].val
    ELSE IF There("body") THEN "cut short" ELSE None

\* The body of a readable record: its own, or a body file with its hash.
BodyOf(r) ==
    IF r \notin Large \/ (Whole("body") /\ disk["body"].val = r) THEN r ELSE None

\* loadPending.
Loadable == Whole("pending") /\ BodyOf(disk["pending"].val) # None

-----------------------------------------------------------------------------
(* Create, step by step.                                                   *)

Goes(c, pc, f) == proc' = [proc EXCEPT ![c].pc = pc, ![c].file = f]

\* The file is there, and empty.
Create(c) ==
    LET f == proc[c].file IN
    /\ proc[c].pc = "create"
    /\ ~ There(f)
    /\ disk' = [disk EXCEPT ![f] =
           [val |-> proc[c].review, data |-> "partial", linked |-> FALSE]]
    /\ Goes(c, "write", f)
    /\ UNCHANGED <<saved, approvals, shown, trusted>>

Write(c) ==
    LET f == proc[c].file IN
    /\ proc[c].pc = "write"
    /\ disk' = [disk EXCEPT ![f].data = "written"]
    /\ Goes(c, "sync", f)
    /\ UNCHANGED <<saved, approvals, shown, trusted>>

\* Mutant of SyncFile: no fsync.
SyncFileSkipped(c) ==
    LET f == proc[c].file IN
    /\ proc[c].pc = "sync"
    /\ Goes(c, "link", f)
    /\ UNCHANGED <<disk, saved, approvals, shown, trusted>>

SyncFile(c) ==
    LET f == proc[c].file IN
    /\ proc[c].pc = "sync"
    /\ disk' = [disk EXCEPT ![f].data = "synced"]
    /\ Goes(c, "link", f)
    /\ UNCHANGED <<saved, approvals, shown, trusted>>

\* What follows a file that is in place: the record after its body, or the
\* answer.
Answered(c, f) ==
    LET r == proc[c].review IN
    CASE f = "body" ->
             Goes(c, "create", "pending") /\ UNCHANGED <<saved, approvals>>
      [] f = "pending" ->
             /\ proc' = [proc EXCEPT ![c] = Idle]
             /\ saved' = saved \cup {r}
             /\ UNCHANGED approvals
      [] f = "approved" ->
             /\ proc' = [proc EXCEPT ![c] = Idle]
             /\ approvals' = approvals \cup {r}
             /\ UNCHANGED saved

\* The directory sync that ends Create.
Link(c) ==
    /\ proc[c].pc = "link"
    /\ disk' = Linked
    /\ Answered(c, proc[c].file)
    /\ UNCHANGED <<shown, trusted>>

\* Create finds the file there, and it holds what was to be stored.
Replay(c) ==
    LET f == proc[c].file IN
    /\ proc[c].pc = "create"
    /\ Whole(f)
    /\ disk[f].val = proc[c].review
    /\ f = "pending" => Loadable
    /\ Answered(c, f)
    /\ trusted' = (trusted \/ ~ Durable(f))
    /\ UNCHANGED <<disk, shown>>

\* Any step fails, the file found conflicts or cannot be read, or the process
\* dies.  What Create has made so far stays.
Fails(c) ==
    /\ proc[c] # Idle
    /\ proc' = [proc EXCEPT ![c] = Idle]
    /\ UNCHANGED <<disk, saved, approvals, shown, trusted>>

-----------------------------------------------------------------------------
(* SavePending and Approve.                                                *)

\* A review that fits is one record.  A larger one stores its body first,
\* unless there is a record already, which is then compared.  The mailbox's
\* claims keep two calls about one review apart.
SavePending(c, r) ==
    /\ c \in Server
    /\ proc[c] = Idle
    /\ \A d \in Server : proc[d].review # r
    /\ proc' = [proc EXCEPT ![c] =
           [pc |-> "create", review |-> r,
            file |-> IF r \in Large /\ ~ There("pending") THEN "body" ELSE "pending"]]
    /\ UNCHANGED <<disk, saved, approvals, shown, trusted>>

\* turnwire approve opens the store, which syncs its directory, and displays
\* the review it loads, which may have come there since ...
Display(c) ==
    /\ c \in Operator
    /\ proc[c] = Idle
    /\ Loadable
    /\ disk' \in {disk, Linked}
    /\ shown' = shown \cup {[review |-> disk["pending"].val, body |-> BodyOf(disk["pending"].val)]}
    /\ proc' = [proc EXCEPT ![c] =
           [pc |-> "asked", file |-> "approved", review |-> disk["pending"].val]]
    /\ UNCHANGED <<saved, approvals, trusted>>

\* ... and the operator says yes, or Fails.
Approve(c) ==
    /\ proc[c].pc = "asked"
    /\ Goes(c, "create", "approved")
    /\ UNCHANGED <<disk, saved, approvals, shown, trusted>>

-----------------------------------------------------------------------------

PowerLoss ==
    /\ disk' \in {d \in [File -> UNION {Leftovers(f) : f \in File}] :
                     \A f \in File : d[f] \in Leftovers(f)}
    /\ proc' = [c \in Server \cup Operator |-> Idle]
    /\ UNCHANGED <<saved, approvals, shown, trusted>>

Next ==
    \/ \E c \in Server \cup Operator :
           \/ \E r \in Review : SavePending(c, r)
           \/ Display(c) \/ Approve(c)
           \/ Create(c) \/ Write(c) \/ SyncFile(c) \/ Link(c) \/ Replay(c) \/ Fails(c)
    \/ PowerLoss

Spec == Init /\ [][Next]_vars

-----------------------------------------------------------------------------
(* Properties.                                                             *)

\* loadPending and Approve: an approval that counts is of a review that an
\* operator was shown, and what was shown is the whole of its body.
ApprovedAsShown ==
    /\ Whole("approved") => [review |-> disk["approved"].val, body |-> disk["approved"].val] \in shown
    /\ \A s \in shown : s.body = s.review

\* SavePending "durably stores an exact review request" (approval.go:78), and so
\* does Approve its approval: what was answered can be read, as it was answered,
\* whatever a power loss makes of the files.
SavedDurably ==
    LET stands(f, r) ==
            \A d \in Leftovers(f) : d # None /\ d.data # "partial" /\ d.val = r
    IN  /\ \A r \in saved :
               stands("pending", r) /\ (r \in Large => stands("body", r))
        /\ \A r \in approvals : stands("approved", r)

\* SavePending and Approve: the same, as long as no call was content with a file
\* that another one had not finished; in particular a record never outlives its
\* body, although they are two files.
ReviewsStand == ~ trusted => SavedDurably
=============================================================================
