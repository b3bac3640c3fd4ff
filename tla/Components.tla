----------------------------- MODULE Components -----------------------------
(***************************************************************************)
(* Six components that share no state, side by side: the durable budget,   *)
(* the approval store, the peers' configuration, the frame reader, the     *)
(* guard's answers and the log queries.  One of them runs, chosen          *)
(* initially; the others stay in the state they start in.                  *)
(***************************************************************************)
EXTENDS Budget, Sequences

CONSTANTS
    Server, Operator, Review, Large,               \* Approvals
    Cmd, Name, Key, Offered, Cert, Partial, MaxRuns, \* PeerConfig
    MaxStream, FrameLimits, Buffers,               \* FrameReader
    Classified, MaxItems,                          \* GuardResponse
    MaxEntries, Sizes, ListLimits, MemoryBudgets   \* LogQuery

VARIABLES
    part,         \* the component that runs
    disks, procs, saved, approvals, shown, trusted,                 \* Approvals
    file, versions, commands, runs, last, named,                    \* PeerConfig
    stream, frameLimit, buffer, read, frame, afterErr, given,       \* FrameReader
    response, inspected, found, outcome,                            \* GuardResponse
    log, query, at, kept, matching, lastBudgetDrop, export, result  \* LogQuery

approvalVars == <<disks, procs, saved, approvals, shown, trusted>>
peerVars == <<file, versions, commands, runs, last, named>>
frameVars == <<stream, frameLimit, buffer, read, frame, afterErr, given>>
guardVars == <<response, inspected, found, outcome>>
logVars == <<log, query, at, kept, matching, lastBudgetDrop, export, result>>

Approval == INSTANCE Approvals WITH disk <- disks, proc <- procs

Peers == INSTANCE PeerConfig WITH
    survivors <- versions, proc <- commands, granted <- named

Frames == INSTANCE FrameReader WITH
    Limits <- FrameLimits, limit <- frameLimit, at <- read

Guard == INSTANCE GuardResponse WITH at <- inspected

Logs == INSTANCE LogQuery WITH Limits <- ListLimits, Budgets <- MemoryBudgets

ASSUME ComponentsAssumption ==
    /\ Approval!ApprovalsAssumption
    /\ Peers!PeerConfigAssumption
    /\ Frames!FrameReaderAssumption
    /\ Guard!GuardResponseAssumption
    /\ Logs!LogQueryAssumption

PartInit ==
    /\ part \in {"budget", "approvals", "peers", "frames", "guard", "logs"}
    /\ Init /\ (part # "budget" => limit = 1)
    /\ Approval!Init
    /\ Peers!Init
    /\ IF part = "frames" THEN Frames!Init
       ELSE stream = << >> /\ frameLimit = 1 /\ buffer = 2 /\ read = 0 /\ frame = << >>
            /\ afterErr = "none" /\ given = << >>
    /\ IF part = "guard" THEN Guard!Init
       ELSE response = << >> /\ inspected = 0 /\ found = "none" /\ outcome = "none"
    /\ IF part = "logs" THEN Logs!Init
       ELSE log = << >> /\ query = << >> /\ at = 0 /\ kept = << >> /\ matching = 0
            /\ lastBudgetDrop = 0 /\ export = << >> /\ result = "none"

\* Component c runs and the others stay as they are.
Runs(c) ==
    /\ part = c /\ UNCHANGED part
    /\ c # "budget" => UNCHANGED vars
    /\ c # "approvals" => UNCHANGED approvalVars
    /\ c # "peers" => UNCHANGED peerVars
    /\ c # "frames" => UNCHANGED frameVars
    /\ c # "guard" => UNCHANGED guardVars
    /\ c # "logs" => UNCHANGED logVars

PartNext ==
    \/ \E l \in Limits : Runs("budget") /\ Open(l)
    \/ \E now \in Time : Runs("budget") /\ Charge(now)
    \/ Runs("budget") /\ Rename
    \/ Runs("budget") /\ Admit
    \/ Runs("budget") /\ ReplaceFails
    \/ Runs("budget") /\ Exit
    \/ Runs("budget") /\ PowerLoss
    \/ \E c \in Server, r \in Review : Runs("approvals") /\ Approval!SavePending(c, r)
    \/ \E c \in Operator : Runs("approvals") /\ Approval!Display(c)
    \/ \E c \in Operator : Runs("approvals") /\ Approval!Approve(c)
    \/ \E c \in Server \cup Operator : Runs("approvals") /\ Approval!Create(c)
    \/ \E c \in Server \cup Operator : Runs("approvals") /\ Approval!Write(c)
    \/ \E c \in Server \cup Operator : Runs("approvals") /\ Approval!SyncFile(c)
    \/ \E c \in Server \cup Operator : Runs("approvals") /\ Approval!Link(c)
    \/ \E c \in Server \cup Operator : Runs("approvals") /\ Approval!Replay(c)
    \/ \E c \in Server \cup Operator : Runs("approvals") /\ Approval!Fails(c)
    \/ Runs("approvals") /\ Approval!PowerLoss
    \/ \E c \in Cmd, op \in Peers!Operations : Runs("peers") /\ Peers!BeginPeer(c, op)
    \/ \E c \in Cmd, kind \in {"init", "init --force"} : Runs("peers") /\ Peers!BeginInit(c, kind)
    \/ \E c \in Cmd : Runs("peers") /\ Peers!OpenParent(c)
    \/ \E c \in Cmd : Runs("peers") /\ Peers!GiveUp(c)
    \/ \E c \in Cmd : Runs("peers") /\ Peers!Rename(c)
    \/ \E c \in Cmd : Runs("peers") /\ Peers!Verify(c)
    \/ \E c \in Cmd : Runs("peers") /\ Peers!SyncDirectory(c)
    \/ \E c \in Cmd : Runs("peers") /\ Peers!ReplaceFails(c)
    \/ \E c \in Cmd : Runs("peers") /\ Peers!Create(c)
    \/ \E c \in Cmd : Runs("peers") /\ Peers!Write(c)
    \/ \E c \in Cmd : Runs("peers") /\ Peers!SyncFile(c)
    \/ \E c \in Cmd : Runs("peers") /\ Peers!CreateFails(c)
    \/ \E c \in Cmd : Runs("peers") /\ Peers!Dies(c)
    \/ Runs("peers") /\ Peers!PowerLoss
    \/ Runs("frames") /\ Frames!Turn
    \/ Runs("guard") /\ Guard!Refuse
    \/ Runs("guard") /\ Guard!Inspect
    \/ Runs("guard") /\ Guard!Decide
    \/ Runs("logs") /\ Logs!Visit
    \/ Runs("logs") /\ Logs!List
    \/ Runs("logs") /\ Logs!Match
    \/ Runs("logs") /\ Logs!Show
    \/ Runs("logs") /\ Logs!Create
    \/ Runs("logs") /\ Logs!Encode
    \/ Runs("logs") /\ Logs!Complete
    \/ Runs("logs") /\ Logs!ExportFails
    \/ Runs("logs") /\ Logs!ExportDies

PartSpec == PartInit /\ [][PartNext]_<<part, vars, approvalVars, peerVars, frameVars,
                                       guardVars, logVars>>

-----------------------------------------------------------------------------
(* The properties of the six, each stated and explained in its own module; *)
(* Budget's are used as they are.                                          *)

\* What counts as an approval was shown whole to an operator.
ApprovedAsShown == part = "approvals" => Approval!ApprovedAsShown

\* Answered reviews and approvals survive, unless an unfinished file was trusted.
ReviewsStand == part = "approvals" => Approval!ReviewsStand

\* A peer command that runs alone is atomic and, once it succeeded, durable.
SerialOutcome == part = "peers" => Peers!SerialOutcome

\* No file ever pins a key no operator and no certificate vouched for.
PinsVouched == part = "peers" => Peers!PinsVouched

\* Frames come out whole, in order and bounded, up to the first refused one.
ExactFrames == part = "frames" => Frames!ExactFrames

\* A decision comes only from one proper verdict; the rest is an error.
FailsClosed == part = "guard" => Guard!FailsClosed

\* Log queries answer exactly or refuse, and exports are whole or absent.
QueriesExact == part = "logs" => Logs!QueriesExact
=============================================================================
