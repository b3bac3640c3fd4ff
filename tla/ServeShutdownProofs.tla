------------------------ MODULE ServeShutdownProofs ------------------------
(***************************************************************************)
(* Theorems about ServeShutdown, for every set of calls, whichever of them *)
(* heed a cancellation, and without any fairness.                          *)
(*                                                                         *)
(* The inductive invariant says what the end of a session has left behind  *)
(* by the time run looks: once anything has ended, its cause is known, and *)
(* the errors recorded agree with it (CauseKnown); a shutdown that did not *)
(* run into its deadline has no workers left, and never gets one again     *)
(* (Drained); what run took for the shutdown's result is that result, or   *)
(* the deadline really passed (Taken).                                     *)
(***************************************************************************)
EXTENDS ServeShutdown, TLAPS

CauseKnown ==
    /\ ~ reading \/ closed \/ ioFailed \/ ctxDone \/ terminal # "none"
           => cause # "none"
    /\ cause = "none" => ~ transport
    /\ cause \in {"error", "write"} => transport
    /\ cause = "eof" => ~ reading /\ terminal = "eof" /\ (transport => ioFailed)
    /\ run.pc \in {"setup", "sdk"} => run.err = "none"
    /\ run.pc = "setup" \/ run.err = "setup"
           => cause \in {"none", "ctx"} /\ ~ closed /\ ~ ioFailed
    /\ run.pc \notin {"setup", "sdk"} /\ run.err # "setup" => cause # "none"
    /\ run.err = "ctx" => ctxDone
    /\ run.err = "other" => transport

Drained ==
    /\ shutdown.pc \in {"draining", "done", "cancelled"} => closing
    /\ Finished /\ shutdown.err # "deadline" => Workers = {}
    /\ shutdown.err = "deadline" => expired

Taken ==
    /\ run.pc = "resolve" \/ Returned =>
           \/ run.shutdownErr = "deadline" /\ expired
           \/ Finished /\ run.shutdownErr = shutdown.err
    /\ Returned => ("shutdown" \in result <=> run.shutdownErr # "none")
    /\ run.pc = "ok" => result = {} \/ ctxDone

IInv == TypeOK /\ CauseKnown /\ Drained /\ Taken /\ PeerEndIsClean /\ FailureIsReported

-----------------------------------------------------------------------------
LEMMA InitIInv == Init => IInv
<1> SUFFICES ASSUME Init PROVE IInv
    OBVIOUS
<1>1. TypeOK
    BY DEF Init, TypeOK, RunState, ShutdownState
<1>2. CauseKnown /\ Drained /\ Taken /\ PeerEndIsClean /\ FailureIsReported
    BY DEF Init, CauseKnown, Drained, Taken, PeerEndIsClean, FailureIsReported,
           Finished, Returned, Exited, Workers
<1> QED BY <1>1, <1>2 DEF IInv

\* Steps of the transport and of the process's context.
LEMMA TransportKeeps ==
    ASSUME IInv,
           (\E e \in {"eof", "error"} : ReadEnds(e)) \/ WriteFails \/ CloseStream \/ Stop
             \/ SdkCloses
    PROVE  IInv'
<1> USE DEF IInv
<1>0. UNCHANGED <<call, closing, watcher, runDone, shutdown, expired, run, result>>
    BY DEF ReadEnds, WriteFails, CloseStream, Stop, SdkCloses, service, lifecycle
<1>1. TypeOK'
    <2>1. ASSUME NEW e \in {"eof", "error"}, ReadEnds(e) PROVE TypeOK'
        <3>1. /\ reading' \in BOOLEAN /\ transport' \in BOOLEAN
              /\ UNCHANGED <<ctxDone, closed, ioFailed>>
            BY <2>1 DEF ReadEnds
        <3>2. /\ terminal' \in {"none", "eof", "error", "closed"}
              /\ cause' \in {"none", "eof", "error", "write", "ctx"}
            BY <2>1 DEF TypeOK, ReadEnds, First
        <3> QED BY <1>0, <3>1, <3>2 DEF TypeOK
    <2>2. CASE WriteFails
        BY <1>0, <2>2 DEF TypeOK, WriteFails, First
    <2>3. CASE CloseStream
        BY <1>0, <2>3 DEF TypeOK, CloseStream
    <2>4. CASE Stop
        BY <1>0, <2>4 DEF TypeOK, Stop, First
    <2>5. CASE SdkCloses
        <3>1. /\ closed' \in BOOLEAN /\ ioFailed' \in BOOLEAN /\ transport' \in BOOLEAN
              /\ UNCHANGED <<ctxDone, reading, cause>>
            BY <2>5 DEF TypeOK, SdkCloses
        <3>2. terminal' \in {"none", "eof", "error", "closed"}
            BY <2>5 DEF TypeOK, SdkCloses, First
        <3> QED BY <1>0, <3>1, <3>2 DEF TypeOK
    <2> QED BY <2>1, <2>2, <2>3, <2>4, <2>5
<1>2. CauseKnown'
    <2>1. ASSUME NEW e \in {"eof", "error"}, ReadEnds(e) PROVE CauseKnown'
        BY <1>0, <2>1 DEF CauseKnown, ReadEnds, First, TypeOK
    <2>2. CASE WriteFails
        BY <1>0, <2>2 DEF CauseKnown, WriteFails, First, TypeOK
    <2>3. CASE CloseStream
        BY <1>0, <2>3 DEF CauseKnown, CloseStream, TypeOK
    <2>4. CASE Stop
        BY <1>0, <2>4 DEF CauseKnown, Stop, First, TypeOK, stream
    <2>5. CASE SdkCloses
        BY <1>0, <2>5 DEF CauseKnown, SdkCloses, First, TypeOK
    <2> QED BY <2>1, <2>2, <2>3, <2>4, <2>5
<1>3. Drained' /\ Taken'
    <2>1. ctxDone => ctxDone'
        BY DEF ReadEnds, WriteFails, CloseStream, Stop, SdkCloses
    <2> QED BY <1>0, <2>1 DEF Drained, Taken, Finished, Returned, Exited, Workers
<1>4. Returned => (cause # "none" => cause' = cause) /\ (ioFailed => ioFailed')
                  /\ (ctxDone => ctxDone')
                  /\ (run.err = "setup" => cause' \in {"none", "ctx"})
    BY DEF ReadEnds, WriteFails, CloseStream, Stop, SdkCloses, First, CauseKnown,
           Returned, Exited, stream
<1>5. PeerEndIsClean' /\ FailureIsReported'
    BY <1>0, <1>4 DEF PeerEndIsClean, FailureIsReported, CauseKnown, Returned, Exited
<1> QED BY <1>1, <1>2, <1>3, <1>5

\* Steps of the calls.
LEMMA CallKeeps ==
    ASSUME IInv, NEW c \in Call, Dispatch(c) \/ Enter(c) \/ Finish(c)
    PROVE  IInv'
<1> USE DEF IInv
<1>0. UNCHANGED <<ctxDone, reading, closed, ioFailed, transport, terminal, cause,
                  closing, watcher, runDone, shutdown, expired, run, result>>
    BY DEF Dispatch, Enter, Finish, stream, lifecycle
<1>1. TypeOK'
    BY <1>0 DEF TypeOK, Dispatch, Enter, Finish
<1>2. closing => Workers' \subseteq Workers
    BY DEF Dispatch, Enter, Finish, Workers, TypeOK
<1>3. CauseKnown' /\ PeerEndIsClean' /\ FailureIsReported' /\ Taken'
    BY <1>0 DEF CauseKnown, PeerEndIsClean, FailureIsReported, Taken, Returned, Exited,
                Finished
<1>4. Drained'
    BY <1>0, <1>2 DEF Drained, Finished
<1> QED BY <1>1, <1>3, <1>4

\* Steps of the shutdown and its deadline.
LEMMA ShutdownKeeps ==
    ASSUME IInv,
           ShutdownBegins \/ ShutdownReturns \/ ShutdownCancels \/ Expire \/ WatcherStarts
    PROVE  IInv'
<1> USE DEF IInv
<1>0. UNCHANGED <<ctxDone, reading, closed, ioFailed, transport, terminal, cause,
                  call, runDone, run, result>>
    BY DEF ShutdownBegins, ShutdownReturns, ShutdownCancels, Expire, WatcherStarts,
           stream, service
<1>1. TypeOK'
    <2>1. CASE ShutdownBegins
        BY <1>0, <2>1 DEF TypeOK, ShutdownState, ShutdownBegins
    <2>2. CASE ShutdownReturns
        BY <1>0, <2>2 DEF TypeOK, ShutdownState, ShutdownReturns, service
    <2>3. CASE ShutdownCancels
        BY <1>0, <2>3 DEF TypeOK, ShutdownState, ShutdownCancels, service
    <2>4. CASE Expire
        BY <1>0, <2>4 DEF TypeOK, Expire, service
    <2>5. CASE WatcherStarts
        <3>1. shutdown' \in ShutdownState
            BY <2>5 DEF TypeOK, ShutdownState, WatcherStarts, Started
        <3>2. watcher' \in BOOLEAN /\ UNCHANGED <<closing, expired>>
            BY <2>5 DEF WatcherStarts, service
        <3> QED BY <1>0, <3>1, <3>2 DEF TypeOK
    <2> QED BY <2>1, <2>2, <2>3, <2>4, <2>5
<1>2. CauseKnown' /\ PeerEndIsClean' /\ FailureIsReported'
    BY <1>0 DEF CauseKnown, PeerEndIsClean, FailureIsReported, Returned, Exited
<1>3. Drained'
    BY <1>0 DEF Drained, TypeOK, ShutdownState, ShutdownBegins, ShutdownReturns,
                ShutdownCancels, Expire, WatcherStarts, Started, service, Finished, Workers
<1>4. Taken'
    <2>1. /\ Finished => Finished' /\ shutdown'.err = shutdown.err
          /\ expired => expired'
        BY DEF TypeOK, ShutdownState, ShutdownBegins, ShutdownReturns, ShutdownCancels, Expire,
               WatcherStarts, Started, Finished
    <2> QED BY <1>0, <2>1 DEF Taken, Returned, Exited
<1> QED BY <1>1, <1>2, <1>3, <1>4

\* Steps of run and of its caller.
LEMMA RunKeeps ==
    ASSUME IInv,
           SdkReturns \/ Setup \/ WaitStarts \/ WaitEnds \/ Resolve \/ Exit
    PROVE  IInv'
<1> USE DEF IInv
<1>0. UNCHANGED <<ctxDone, reading, closed, ioFailed, transport, terminal, cause,
                  call, closing, expired>>
    BY DEF SdkReturns, Setup, WaitStarts, WaitEnds, Waited, Resolve, Exit, stream,
           service, lifecycle
<1>1. CASE SdkReturns
    <2>1. PICK e \in SdkErrors : run' = [run EXCEPT !.pc = "wait", !.err = e]
        BY <1>1 DEF SdkReturns
    <2>2. /\ e \in {"none", "serverClosing", "ctx", "other"}
          /\ e = "ctx" => ctxDone
          /\ e = "other" => transport
        BY <2>1 DEF SdkErrors
    <2>3. /\ run'.pc = "wait" /\ run'.err = e /\ run'.shutdownErr = run.shutdownErr
          /\ cause # "none" /\ UNCHANGED <<watcher, shutdown, result>>
        BY <1>1, <2>1 DEF SdkReturns, CauseKnown, TypeOK, RunState, ShutdownState
    <2>4. TypeOK'
        <3>1. run' \in RunState
            BY <2>1, <2>2 DEF TypeOK, RunState
        <3>2. runDone' \in BOOLEAN
            BY <1>1 DEF SdkReturns
        <3> QED BY <1>0, <2>3, <3>1, <3>2 DEF TypeOK
    <2>5. CauseKnown'
        BY <1>0, <2>2, <2>3 DEF CauseKnown
    <2>6. Drained' /\ Taken' /\ PeerEndIsClean' /\ FailureIsReported'
        BY <1>0, <2>3 DEF Drained, Taken, PeerEndIsClean, FailureIsReported, Finished,
                          Returned, Exited, Workers
    <2> QED BY <2>4, <2>5, <2>6
<1>2. CASE Setup
    <2>1. /\ run.pc = "setup"
          /\ \/ run'.pc = "sdk" /\ run'.err = run.err
             \/ run'.pc = "wait" /\ run'.err = "setup"
          /\ UNCHANGED <<shutdown, result>>
        BY <1>2 DEF Setup, TypeOK, RunState, ShutdownState
    <2>2. TypeOK'
        <3>1. run' \in RunState
            BY <1>2 DEF TypeOK, RunState, Setup
        <3>2. watcher' \in BOOLEAN /\ UNCHANGED <<runDone, shutdown, result>>
            BY <1>2 DEF TypeOK, Setup
        <3> QED BY <1>0, <3>1, <3>2 DEF TypeOK
    <2>3. CauseKnown'
        BY <1>0, <2>1 DEF CauseKnown
    <2>4. Drained' /\ Taken' /\ PeerEndIsClean' /\ FailureIsReported'
        BY <1>0, <2>1 DEF Drained, Taken, PeerEndIsClean, FailureIsReported, Finished,
                          Returned, Exited, Workers
    <2> QED BY <2>2, <2>3, <2>4
<1>3. CASE WaitStarts
    <2>1. /\ run.pc = "wait" /\ run'.pc = "select" /\ run'.err = run.err
          /\ UNCHANGED result
          /\ Finished' => Finished
          /\ shutdown'.err = shutdown.err
          /\ shutdown'.pc \in {"draining", "done", "cancelled"} => shutdown'.pc = shutdown.pc
        BY <1>3 DEF WaitStarts, Started, Finished, TypeOK, RunState, ShutdownState
    <2>2. TypeOK'
        BY <1>0, <1>3 DEF TypeOK, RunState, ShutdownState, WaitStarts, Started
    <2>3. CauseKnown'
        BY <1>0, <2>1 DEF CauseKnown
    <2>4. Drained'
        BY <1>0, <2>1 DEF Drained, Workers, Finished
    <2>5. Taken' /\ PeerEndIsClean' /\ FailureIsReported'
        BY <1>0, <2>1 DEF Taken, PeerEndIsClean, FailureIsReported, Returned, Exited
    <2> QED BY <2>2, <2>3, <2>4, <2>5
<1>4. CASE WaitEnds
    <2>1. /\ run.pc = "select" /\ run'.pc = "resolve" /\ run'.err = run.err
          /\ UNCHANGED <<watcher, runDone, shutdown, result>>
          /\ \/ Finished /\ run'.shutdownErr = shutdown.err
             \/ DeadlineReached /\ ~ Finished /\ run'.shutdownErr = "deadline"
        BY <1>4 DEF WaitEnds, Waited, TypeOK, RunState, ShutdownState, lifecycle
    <2>2. TypeOK'
        <3>1. run' \in RunState
            BY <2>1, <1>4 DEF TypeOK, RunState, ShutdownState, WaitEnds, Waited
        <3> QED BY <1>0, <2>1, <3>1 DEF TypeOK
    <2>3. CauseKnown'
        BY <1>0, <2>1 DEF CauseKnown
    <2>4. Drained' /\ PeerEndIsClean' /\ FailureIsReported'
        BY <1>0, <2>1 DEF Drained, Workers, Finished, PeerEndIsClean, FailureIsReported,
                          Returned, Exited
    <2>5. Taken'
        BY <1>0, <2>1 DEF Taken, Finished, DeadlineReached, Returned, Exited
    <2> QED BY <2>2, <2>3, <2>4, <2>5
<1>5. CASE Resolve
    <2>1. /\ run.pc = "resolve" /\ run'.pc = "returned" /\ run'.err = run.err
          /\ run'.shutdownErr = run.shutdownErr
          /\ UNCHANGED <<watcher, runDone, shutdown>>
        BY <1>5 DEF Resolve, TypeOK, RunState, ShutdownState, lifecycle
    <2>2. /\ result' \subseteq {"run", "shutdown", "transport"}
          /\ "shutdown" \in result' <=> run.shutdownErr # "none"
          /\ transport /\ run.err # "setup" => "transport" \in result'
          /\ ~ transport /\ terminal = "eof" /\ run.err \in {"none", "serverClosing"}
                 => result' \subseteq {"shutdown"}
        BY <1>5 DEF Resolve, SdkError
    <2>3. TypeOK'
        BY <1>0, <1>5, <2>2 DEF TypeOK, RunState, Resolve, lifecycle
    <2>4. CauseKnown' /\ Drained'
        BY <1>0, <2>1 DEF CauseKnown, Drained, Workers, Finished
    <2>5. Taken'
        BY <1>0, <2>1, <2>2 DEF Taken, Finished, Returned, Exited
    <2>6. PeerEndIsClean'
        <3>1. run.err \in {"none", "serverClosing", "ctx", "other", "setup"}
            BY DEF TypeOK, RunState
        <3>2. cause = "eof" /\ ~ ioFailed /\ ~ ctxDone
                  => /\ ~ transport /\ terminal = "eof"
                     /\ run.err \in {"none", "serverClosing"}
            BY <3>1 DEF CauseKnown
        <3> QED BY <1>0, <2>2, <3>2 DEF PeerEndIsClean
    <2>7. FailureIsReported'
        <3>1. cause \in {"error", "write"} => transport /\ run.err # "setup"
            BY DEF CauseKnown
        <3> QED BY <1>0, <2>2, <3>1 DEF FailureIsReported
    <2> QED BY <2>3, <2>4, <2>5, <2>6, <2>7
<1>6. CASE Exit
    <2>1. /\ run.pc = "returned" /\ run'.err = run.err /\ run'.shutdownErr = run.shutdownErr
          /\ run'.pc \in {"ok", "failed"} /\ (run'.pc = "ok" => result = {} \/ ctxDone)
          /\ UNCHANGED <<watcher, runDone, shutdown, result>>
        BY <1>6 DEF Exit, TypeOK, RunState, ShutdownState, lifecycle
    <2>2. TypeOK'
        BY <1>0, <1>6 DEF TypeOK, RunState, Exit, lifecycle
    <2>3. CauseKnown' /\ Drained'
        BY <1>0, <2>1 DEF CauseKnown, Drained, Workers, Finished
    <2>4. Taken' /\ PeerEndIsClean' /\ FailureIsReported'
        BY <1>0, <2>1 DEF Taken, Finished, Returned, Exited, PeerEndIsClean,
                          FailureIsReported
    <2> QED BY <2>2, <2>3, <2>4
<1> QED BY <1>1, <1>2, <1>3, <1>4, <1>5, <1>6

-----------------------------------------------------------------------------
LEMMA StepIInv == IInv /\ [Next]_vars => IInv'
<1> SUFFICES ASSUME IInv, [Next]_vars PROVE IInv'
    OBVIOUS
<1>1. CASE UNCHANGED vars
    BY <1>1 DEF vars, IInv, TypeOK, CauseKnown, Drained, Taken, PeerEndIsClean,
                FailureIsReported, Finished, Returned, Exited, Workers
<1>2. CASE Next
    BY <1>1, <1>2, TransportKeeps, CallKeeps, ShutdownKeeps, RunKeeps DEF Next, Done
<1> QED BY <1>1, <1>2

LEMMA Inductive == Spec => []IInv
BY InitIInv, StepIInv, PTL DEF Spec

\* Type correctness of ServeShutdown.
THEOREM TypeCorrect == Spec => []TypeOK
<1>1. IInv => TypeOK
    BY DEF IInv
<1> QED BY <1>1, Inductive, PTL

\* runServe: the audit log is closed under a running worker only past the
\* deadline, and that is reported unless the process was told to stop.
THEOREM LogOutlives == Spec => []LogOutlivesWorkers
<1>1. IInv => LogOutlivesWorkers
    BY DEF IInv, Taken, Drained, Finished, Returned, Exited, LogOutlivesWorkers
<1> QED BY <1>1, Inductive, PTL

\* wait: no shutdown that ended in time is reported as timed out.
THEOREM TimeoutHonest == Spec => []NoFalseTimeout
<1>1. IInv => NoFalseTimeout
    BY DEF IInv, TypeOK, RunState, ShutdownState, Taken, Drained, Finished, Returned, NoFalseTimeout
<1> QED BY <1>1, Inductive, PTL

\* resolveRunError: a peer that closes its end gets a clean exit, unless a write
\* or the closing of the stream failed.
THEOREM PeerEndClean == Spec => []PeerEndIsClean
<1>1. IInv => PeerEndIsClean
    BY DEF IInv
<1> QED BY <1>1, Inductive, PTL

\* resolveRunError: a transport failure that ended the session is reported.
THEOREM FailureReported == Spec => []FailureIsReported
<1>1. IInv => FailureIsReported
    BY DEF IInv
<1> QED BY <1>1, Inductive, PTL
=============================================================================
