---------------------------- MODULE ServeShutdown ----------------------------
(***************************************************************************)
(* How `turnwire serve' ends: internal/mcpserver Run with its bounded      *)
(* shutdown and its watcher, Service.Shutdown, and runServe's deferred     *)
(* Close of the audit log.                                                 *)
(*                                                                         *)
(* Actors: the transport, which ends by the peer's end of file, a refused  *)
(* frame or a failed write; the caller's context; the SDK (external); the  *)
(* handlers of the calls, which are the service's workers; the watcher;    *)
(* the goroutine that runs Shutdown; its deadline; and run itself.         *)
(*                                                                         *)
(* Abstracted: what a call does (Mailbox) and how frames are admitted      *)
(* (RequestLimit).  Of the SDK it is assumed that it stops reading at the  *)
(* first error and returns at the latest when its handlers have.           *)
(***************************************************************************)
CONSTANTS
    Call,          \* calls of the client
    Stubborn       \* those that do not heed a cancellation

ASSUME ShutdownAssumption == Stubborn \subseteq Call

VARIABLES
    ctxDone,       \* the process was told to stop
    reading,       \* the SDK's read loop has not seen an error
    closed,        \* the stream is closed
    ioFailed,      \* a write failed, or the first Close of the stream
    transport,     \* transportErrors holds an error
    terminal,      \* teardownReadCloser: "none", or the first of "eof",
                   \*   "error" and "closed"
    cause,         \* history: what ended the session, by the same names
    call,          \* each call's handler
    closing,       \* s.closing
    watcher,       \* the watcher waits
    runDone,       \* SDK Run has returned
    shutdown,      \* the Shutdown goroutine: [pc, err]
    expired,       \* its deadline has passed
    run,           \* run and its caller: [pc, err, shutdownErr]
    result         \* the errors run returns

vars == <<ctxDone, reading, closed, ioFailed, transport, terminal, cause,
          call, closing, watcher, runDone, shutdown, expired, run, result>>

stream == <<reading, closed, ioFailed, transport, terminal, cause>>
service == <<call, closing>>
lifecycle == <<watcher, runDone, shutdown, expired>>

Init ==
    /\ ctxDone = FALSE
    /\ reading = TRUE
    /\ closed = FALSE
    /\ ioFailed = FALSE
    /\ transport = FALSE
    /\ terminal = "none"
    /\ cause = "none"
    /\ call = [c \in Call |-> "new"]
    /\ closing = FALSE
    /\ watcher = FALSE
    /\ runDone = FALSE
    /\ shutdown = [pc |-> "idle", err |-> "none"]
    /\ expired = FALSE
    /\ run = [pc |-> "setup", err |-> "none", shutdownErr |-> "none"]
    /\ result = {}

First(old, new) == IF old = "none" THEN new ELSE old

-----------------------------------------------------------------------------
(* The transport.                                                          *)

\* Read returns an error: the peer's end of file or a refused frame, or one of
\* the two because the stream was closed.  A refused frame is recorded first.
ReadEnds(e) ==
    /\ run.pc # "setup" /\ run.err # "setup"
    /\ reading
    /\ reading' = FALSE
    /\ transport' = (transport \/ e = "error")
    /\ terminal' = First(terminal, e)
    /\ cause' = IF closed THEN cause ELSE First(cause, e)
    /\ UNCHANGED <<ctxDone, closed, ioFailed, service, lifecycle, run, result>>

\* Mutant of WriteFails: Close comes before the error is recorded.
WriteFailsClosing ==
    /\ run.pc = "sdk"
    /\ ~ ioFailed
    /\ ioFailed' = TRUE
    /\ closed' = TRUE
    /\ cause' = First(cause, "write")
    /\ UNCHANGED <<ctxDone, reading, transport, terminal, service, lifecycle, run, result>>

\* A frame cannot be written, perhaps one begun before the stream was closed:
\* the error is recorded ...
WriteFails ==
    /\ run.pc = "sdk"
    /\ ~ ioFailed
    /\ ioFailed' = TRUE
    /\ transport' = TRUE
    /\ cause' = First(cause, "write")
    /\ UNCHANGED <<ctxDone, reading, closed, terminal, service, lifecycle, run, result>>

\* ... and then the stream is closed, which may add an error of its own: in the
\* end both are done.
CloseStream ==
    /\ ioFailed
    /\ ~ closed \/ ~ transport
    /\ closed' = TRUE
    /\ transport' = TRUE
    /\ UNCHANGED <<ctxDone, reading, ioFailed, terminal, cause, service,
                   lifecycle, run, result>>

Stop ==
    /\ ~ ctxDone
    /\ ctxDone' = TRUE
    /\ cause' = First(cause, "ctx")
    /\ UNCHANGED <<reading, closed, ioFailed, transport, terminal, service,
                   lifecycle, run, result>>

-----------------------------------------------------------------------------
(* The SDK.                                                                *)

Dispatch(c) ==
    /\ run.pc = "sdk"
    /\ reading /\ ~ closed
    /\ call[c] = "new"
    /\ call' = [call EXCEPT ![c] = "dispatched"]
    /\ UNCHANGED <<ctxDone, stream, closing, lifecycle, run, result>>

\* It closes its transport: told to stop, or after the read error.  An error of
\* this Close is recorded as one of the transport.
SdkCloses ==
    /\ run.pc = "sdk"
    /\ ctxDone \/ ~ reading
    /\ ~ closed
    /\ closed' = TRUE
    /\ terminal' = First(terminal, "closed")
    /\ \/ UNCHANGED <<ioFailed, transport>>
       \/ ioFailed' = TRUE /\ transport' = TRUE
    /\ UNCHANGED <<ctxDone, reading, cause, service, lifecycle, run, result>>

\* What SDK Run may return.
SdkErrors ==
    {"none", "serverClosing"}
        \cup (IF ctxDone THEN {"ctx"} ELSE {})
        \cup (IF transport THEN {"other"} ELSE {})

SdkReturns ==
    /\ run.pc = "sdk"
    /\ terminal # "none"
    /\ \E e \in SdkErrors : run' = [run EXCEPT !.pc = "wait", !.err = e]
    /\ runDone' = TRUE
    /\ UNCHANGED <<ctxDone, stream, service, watcher, shutdown, expired, result>>

-----------------------------------------------------------------------------
(* The service.                                                            *)

\* Mutant of Enter: claim does not look at closing.
EnterClosing(c) ==
    /\ call[c] = "dispatched"
    /\ call' = [call EXCEPT ![c] = "working"]
    /\ UNCHANGED <<ctxDone, stream, closing, lifecycle, run, result>>

\* claim and beginOperation: no worker is added once the service is closing.
Enter(c) ==
    /\ call[c] = "dispatched"
    /\ call' = [call EXCEPT ![c] = IF closing THEN "ended" ELSE "working"]
    /\ UNCHANGED <<ctxDone, stream, closing, lifecycle, run, result>>

\* A worker ends, by itself or because its context is cancelled.
Finish(c) ==
    /\ call[c] = "working"
    /\ call' = [call EXCEPT ![c] = "ended"]
    /\ UNCHANGED <<ctxDone, stream, closing, lifecycle, run, result>>

Workers == {c \in Call : call[c] = "working"}

\* Service.Shutdown: closing is set and the workers' contexts are cancelled.
ShutdownBegins ==
    /\ shutdown.pc = "started"
    /\ closing' = TRUE
    /\ shutdown' = [shutdown EXCEPT !.pc = "draining"]
    /\ UNCHANGED <<ctxDone, stream, call, watcher, runDone, expired, run, result>>

\* It returns: the deadline passed, or the workers are gone and the budgets
\* closed.  The result is published by close(s.done).
ShutdownReturns ==
    /\ shutdown.pc = "draining"
    /\ \E e \in (IF expired THEN {"deadline"} ELSE {})
                  \cup (IF Workers = {} THEN {"none", "budget"} ELSE {}) :
           shutdown' = [pc |-> "done", err |-> e]
    /\ UNCHANGED <<ctxDone, stream, service, watcher, runDone, expired, run, result>>

\* The deferred cancel of its context.
ShutdownCancels ==
    /\ shutdown.pc = "done"
    /\ shutdown' = [shutdown EXCEPT !.pc = "cancelled"]
    /\ UNCHANGED <<ctxDone, stream, service, watcher, runDone, expired, run, result>>

\* The deadline of the shutdown's own context, which does not depend on run's.
Expire ==
    /\ shutdown.pc \notin {"idle", "cancelled"}
    /\ ~ expired
    /\ expired' = TRUE
    /\ UNCHANGED <<ctxDone, stream, service, watcher, runDone, shutdown, run, result>>

-----------------------------------------------------------------------------
(* run.                                                                    *)

\* boundedShutdown.start, once.
Started == [shutdown EXCEPT !.pc = IF @ = "idle" THEN "started" ELSE @]

\* The streams, limits and the frame budget are in order, or run returns.
Setup ==
    /\ run.pc = "setup"
    /\ \/ run' = [run EXCEPT !.pc = "sdk"] /\ watcher' = TRUE
       \/ run' = [run EXCEPT !.pc = "wait", !.err = "setup"] /\ UNCHANGED watcher
    /\ UNCHANGED <<ctxDone, stream, service, runDone, shutdown, expired, result>>

\* Mutant of WatcherStarts: the watcher does not look at the transport.
WatcherDeaf ==
    /\ watcher
    /\ ctxDone \/ runDone
    /\ watcher' = FALSE
    /\ shutdown' = Started
    /\ UNCHANGED <<ctxDone, stream, service, runDone, expired, run, result>>

WatcherStarts ==
    /\ watcher
    /\ ctxDone \/ terminal # "none" \/ runDone
    /\ watcher' = FALSE
    /\ shutdown' = Started
    /\ UNCHANGED <<ctxDone, stream, service, runDone, expired, run, result>>

WaitStarts ==
    /\ run.pc = "wait"
    /\ run' = [run EXCEPT !.pc = "select"]
    /\ shutdown' = Started
    /\ UNCHANGED <<ctxDone, stream, service, watcher, runDone, expired, result>>

Waited(e) ==
    /\ run' = [run EXCEPT !.pc = "resolve", !.shutdownErr = e]
    /\ UNCHANGED <<ctxDone, stream, service, lifecycle, result>>

Finished == shutdown.pc \in {"done", "cancelled"}
DeadlineReached == expired \/ shutdown.pc = "cancelled"

\* Mutant of WaitEnds: s.done is not looked at again.
WaitEndsUnchecked ==
    /\ run.pc = "select"
    /\ \/ Finished /\ Waited(shutdown.err)
       \/ DeadlineReached /\ Waited("deadline")

\* wait: the result if there is one, the context's error if that is done and
\* there still is none.
WaitEnds ==
    /\ run.pc = "select"
    /\ \/ Finished /\ Waited(shutdown.err)
       \/ DeadlineReached /\ ~ Finished /\ Waited("deadline")

SdkError == IF run.err = "none" THEN {} ELSE {"run"}

\* Mutant of Resolve: the SDK's own close error is reported.
ResolveEverything ==
    /\ run.pc = "resolve"
    /\ run' = [run EXCEPT !.pc = "returned"]
    /\ result' = SdkError
          \cup (IF run.shutdownErr = "none" THEN {} ELSE {"shutdown"})
          \cup (IF transport THEN {"transport"} ELSE {})
    /\ UNCHANGED <<ctxDone, stream, service, lifecycle>>

\* resolveRunError, or the deferred wait of a run that did not get to the SDK.
Resolve ==
    /\ run.pc = "resolve"
    /\ run' = [run EXCEPT !.pc = "returned"]
    /\ result' = (IF run.shutdownErr = "none" THEN {} ELSE {"shutdown"})
          \cup (IF run.err = "setup" THEN {"run"}
                ELSE IF transport THEN {"transport"} \cup SdkError
                ELSE IF terminal = "eof" /\ run.err = "serverClosing" THEN {}
                ELSE SdkError)
    /\ UNCHANGED <<ctxDone, stream, service, lifecycle>>

\* runServe: no failure is reported when the process was told to stop; the
\* deferred Close ends the audit log.
Exit ==
    /\ run.pc = "returned"
    /\ run' = [run EXCEPT !.pc = IF result = {} \/ ctxDone THEN "ok" ELSE "failed"]
    /\ UNCHANGED <<ctxDone, stream, service, lifecycle, result>>

Done == run.pc \in {"ok", "failed"} /\ UNCHANGED vars

Next ==
    \/ \E e \in {"eof", "error"} : ReadEnds(e)
    \/ WriteFails
    \/ CloseStream
    \/ Stop
    \/ \E c \in Call : Dispatch(c) \/ Enter(c) \/ Finish(c)
    \/ SdkCloses
    \/ SdkReturns
    \/ ShutdownBegins
    \/ ShutdownReturns
    \/ ShutdownCancels
    \/ Expire
    \/ Setup
    \/ WatcherStarts
    \/ WaitStarts
    \/ WaitEnds
    \/ Resolve
    \/ Exit
    \/ Done

Spec == Init /\ [][Next]_vars

\* Every goroutine keeps running and time passes.  A worker that heeds its
\* context ends once it is cancelled (Mailbox, CallsEnd); without that it may
\* take for ever.  The SDK reacts to its context and to a closed stream.
FairSpec ==
    /\ Spec
    /\ WF_vars(CloseStream) /\ WF_vars(closed /\ \E e \in {"eof", "error"} : ReadEnds(e))
    /\ WF_vars(SdkCloses)
    /\ WF_vars(SdkReturns /\ \A c \in Call : call[c] \notin {"dispatched", "working"})
    /\ \A c \in Call : WF_vars(Enter(c))
    /\ \A c \in Call \ Stubborn : WF_vars(closing /\ Finish(c))
    /\ WF_vars(ShutdownBegins) /\ WF_vars(ShutdownReturns)
    /\ WF_vars(Expire)
    /\ WF_vars(Setup) /\ WF_vars(WatcherStarts)
    /\ WF_vars(WaitStarts) /\ WF_vars(WaitEnds) /\ WF_vars(Resolve) /\ WF_vars(Exit)

-----------------------------------------------------------------------------
(* Properties.                                                             *)

ShutdownState == [pc : {"idle", "started", "draining", "done", "cancelled"},
                  err : {"none", "deadline", "budget"}]
RunState == [pc : {"setup", "sdk", "wait", "select", "resolve", "returned", "ok", "failed"},
             err : {"none", "serverClosing", "ctx", "other", "setup"},
             shutdownErr : {"none", "deadline", "budget"}]

TypeOK ==
    /\ ctxDone \in BOOLEAN /\ reading \in BOOLEAN /\ closed \in BOOLEAN
    /\ ioFailed \in BOOLEAN /\ transport \in BOOLEAN /\ closing \in BOOLEAN
    /\ watcher \in BOOLEAN /\ runDone \in BOOLEAN /\ expired \in BOOLEAN
    /\ terminal \in {"none", "eof", "error", "closed"}
    /\ cause \in {"none", "eof", "error", "write", "ctx"}
    /\ call \in [Call -> {"new", "dispatched", "working", "ended"}]
    /\ shutdown \in ShutdownState
    /\ run \in RunState
    /\ result \subseteq {"run", "shutdown", "transport"}

Exited == run.pc \in {"ok", "failed"}
Returned == Exited \/ run.pc = "returned"

\* runServe closes the audit log under a running worker only if the deadline of
\* the shutdown has passed, and reports success unasked only if it has not.
LogOutlivesWorkers ==
    Exited /\ Workers # {} => expired /\ (run.pc = "ok" => ctxDone)

\* boundedShutdown.wait: a shutdown that ended in time is never reported as
\* timed out, though its own deferred cancel ends the context wait looks at.
NoFalseTimeout ==
    Returned /\ "shutdown" \in result => expired \/ shutdown.err = "budget"

\* resolveRunError: a peer that closes its end gets a clean exit, whatever the
\* SDK makes of the calls that were open, unless a write or the closing of the
\* stream failed on the way.
PeerEndIsClean ==
    Returned /\ cause = "eof" /\ ~ ioFailed /\ ~ ctxDone
        => result \subseteq {"shutdown"}

\* A session that a refused frame or a failed write ended is never reported as
\* a clean exit, though the reader may see an end of file first.
FailureIsReported ==
    Returned /\ cause \in {"error", "write"} => "transport" \in result

\* Run: a session that has ended stops its workers and ends the process.  Only
\* a worker that never heeds its cancellation can hold it, and only as long as the
\* SDK waits for that worker.
TeardownEnds ==
    terminal # "none" ~>
        Exited \/ [](run.pc = "sdk" /\ \E c \in Stubborn : call[c] = "working")
=============================================================================
