--------------------------- MODULE AuditLogProofs ---------------------------
(***************************************************************************)
(* AuditLog, for every set of processes, events, entry sizes and quotas.   *)
(* IInv is inductive: the answered entries lie on the durable chain only   *)
(* because a usable handle holds the lock alone and agrees with the file,  *)
(* and because at most one line is ever unsynced.                          *)
(***************************************************************************)
EXTENDS AuditLog, TLAPS

IInv ==
    /\ TypeOK
    /\ ChainIntact
    /\ HandlesAgree
    /\ OneUnsyncedLine
    /\ TornIsNeverExtended
    /\ AnsweredIsDurable
    /\ CheckpointsHold

\* The lock is free only when every handle is closed, and a process that has
\* a handle is the only one that does.
LEMMA LockExcludes ==
    ASSUME HandlesAgree
    PROVE  /\ lock = NoProcess => \A p \in Process : handle[p].st = "closed"
           /\ \A p, q \in Process :
                  handle[p].st # "closed" /\ q # p => handle[q].st = "closed"
  BY AuditAssumption DEF HandlesAgree

\* What a line appended by a handle that agrees with the file looks like, and
\* that appending it keeps the chain and everything the file held before.
LEMMA AppendKeepsChain ==
    ASSUME TypeOK, ChainIntact,
           NEW p \in Process, NEW e \in Event,
           Len(file) = durable, HandleTracks(handle[p], durable),
           file' = Append(file, NextLine(handle[p], e))
    PROVE  /\ NextLine(handle[p], e) \in Line
           /\ file' \in Seq(Line)
           /\ Len(file') = durable + 1
           /\ \A i \in 1..durable : file'[i] = file[i]
           /\ file'[durable + 1] = NextLine(handle[p], e)
           /\ ChainIntact'
<1>1. handle[p] \in Handle /\ EntrySize[e] \in Nat
  BY AuditAssumption DEF TypeOK
<1>2. NextLine(handle[p], e) \in Line
  BY <1>1 DEF NextLine, Line, Handle
<1>3. /\ file' \in Seq(Line)
      /\ Len(file') = durable + 1
      /\ \A i \in 1..durable : file'[i] = file[i]
      /\ file'[durable + 1] = NextLine(handle[p], e)
  BY <1>2 DEF TypeOK
<1>4. ChainIntact'
  <2> SUFFICES ASSUME NEW i \in 1..(durable + 1)
               PROVE  file'[i].seq = i /\ file'[i].prev = HeadAt(file', i - 1)
    BY <1>3 DEF ChainIntact, ChainOK
  <2>0. durable \in Nat
    BY DEF TypeOK
  <2>1. CASE i \in 1..durable
    <3>1. file[i].seq = i /\ file[i].prev = HeadAt(file, i - 1)
      BY <2>1 DEF ChainIntact, ChainOK
    <3>2. HeadAt(file', i - 1) = HeadAt(file, i - 1)
      BY <1>3, <2>0, <2>1 DEF HeadAt
    <3> QED BY <1>3, <2>1, <3>1, <3>2
  <2>2. CASE i = durable + 1
    <3>1. HeadAt(file', durable) = HeadAt(file, durable)
      BY <1>3, <2>0 DEF HeadAt
    <3> QED BY <1>3, <2>0, <2>2, <3>1 DEF NextLine, HandleTracks
  <2> QED BY <2>0, <2>1, <2>2
<1> QED BY <1>2, <1>3, <1>4

\* Witnesses on the durable chain stay on it when the durable part of the file
\* is kept and does not shrink.
LEMMA WitnessesStay ==
    ASSUME TypeOK, durable' \in Nat, durable <= durable',
           \A i \in 1..durable : file'[i] = file[i],
           NEW w \in Witness, OnDurableChain(w)
    PROVE  OnDurableChain(w)'
<1>1. w.seq \in 0..durable' /\ w.seq \in 0..durable
  BY DEF TypeOK, OnDurableChain, Witness
<1>2. HeadAt(file', w.seq) = HeadAt(file, w.seq)
  BY <1>1 DEF HeadAt, TypeOK
<1> QED BY <1>1, <1>2 DEF OnDurableChain

\* Initially the file is empty and every handle is closed.
LEMMA InitIInv == Init => IInv
  BY AuditAssumption
  DEF Init, IInv, TypeOK, ChainIntact, ChainOK, HandlesAgree, OneUnsyncedLine,
      TornIsNeverExtended, AnsweredIsDurable, CheckpointsHold, Handle, Closed

\* Opening: the lock is free, so every other handle is closed; the sync makes
\* the whole verified file durable and the handle starts at its end.
LEMMA OpenKeepsIInv ==
    ASSUME IInv, NEW p \in Process, NEW max \in Quotas, Open(p, max)
    PROVE  IInv'
<1> USE DEF IInv
<1>0. /\ file' = file /\ acked' = acked /\ heads' = heads
      /\ durable' = Len(file) /\ Len(file) \in Nat /\ torn = "no" /\ torn' = "no"
      /\ lock' = p /\ lock = NoProcess
  BY DEF Open, SyncFile, SyncedTail, Verified, TypeOK
<1>1. HeadAt(file, Len(file)) \in Seq(Event) /\ SizeAt(file, Len(file)) \in Nat
  <2>1. CASE Len(file) = 0
    BY <2>1 DEF HeadAt, SizeAt
  <2>2. CASE Len(file) # 0
    <3>1. file[Len(file)] \in Line
      BY <1>0, <2>2 DEF TypeOK
    <3>2. /\ file[Len(file)].prev \in Seq(Event) /\ file[Len(file)].ev \in Event
          /\ file[Len(file)].end \in Nat
      BY <3>1 DEF Line
    <3>3. Append(file[Len(file)].prev, file[Len(file)].ev) \in Seq(Event)
      BY <3>2
    <3> QED BY <2>2, <3>2, <3>3 DEF HeadAt, SizeAt, EntryHash
  <2> QED BY <2>1, <2>2
<1>2. OpenHandle(max) \in Handle
  BY <1>0, <1>1, AuditAssumption DEF OpenHandle, Handle
<1>3. TypeOK'
  BY <1>0, <1>2 DEF TypeOK, Open
<1>4. HandlesAgree'
  <2>1. \A q \in Process : handle[q].st = "closed"
    BY <1>0, LockExcludes
  <2>2. \A q \in Process : handle'[q] = IF q = p THEN OpenHandle(max) ELSE handle[q]
    BY DEF Open, TypeOK
  <2>3. HandleTracks(OpenHandle(max), durable)'
    BY <1>0 DEF HandleTracks, OpenHandle
  <2> QED BY <1>0, <2>1, <2>2, <2>3 DEF HandlesAgree, OpenHandle, HandleTracks
<1>5. AnsweredIsDurable' /\ CheckpointsHold'
  <2>1. durable <= durable' /\ durable' \in Nat /\ \A i \in 1..durable : file'[i] = file[i]
    BY <1>0 DEF TypeOK
  <2> QED BY <1>0, <2>1, WitnessesStay DEF AnsweredIsDurable, CheckpointsHold, TypeOK
<1>6. ChainIntact' /\ OneUnsyncedLine' /\ TornIsNeverExtended'
  BY <1>0 DEF ChainIntact, OneUnsyncedLine, TornIsNeverExtended
<1> QED BY <1>3, <1>4, <1>5, <1>6

\* A reader or a refused open only turns unsynced bytes into synced ones.
LEMMA RecoveryReadKeepsIInv ==
    ASSUME IInv, RecoveryRead
    PROVE  IInv'
<1> USE DEF IInv
<1>0. /\ UNCHANGED <<file, key, lock, handle, acked, heads>>
      /\ durable' = Len(file) /\ Len(file) \in Nat /\ lock = NoProcess
      /\ torn' \in {"no", "synced"} /\ (torn' # "no" => torn # "no")
  BY DEF RecoveryRead, SyncFile, SyncedTail, TypeOK
<1>1. TypeOK'
  BY <1>0 DEF TypeOK
<1>2. HandlesAgree' /\ TornIsNeverExtended'
  BY <1>0, LockExcludes DEF HandlesAgree, TornIsNeverExtended
<1>3. AnsweredIsDurable' /\ CheckpointsHold'
  <2>1. durable <= durable' /\ durable' \in Nat /\ \A i \in 1..durable : file'[i] = file[i]
    BY <1>0 DEF TypeOK
  <2> QED BY <1>0, <2>1, WitnessesStay DEF AnsweredIsDurable, CheckpointsHold, TypeOK
<1>4. ChainIntact' /\ OneUnsyncedLine'
  BY <1>0 DEF ChainIntact, OneUnsyncedLine
<1> QED BY <1>1, <1>2, <1>3, <1>4

\* A complete line is written, by an append that will sync it ("written") or
\* by one that was told the write failed ("failed").
LEMMA LineArrives ==
    ASSUME IInv, NEW p \in Process, NEW e \in Event, Admits(p, e),
           NEW st \in {"written", "failed"},
           file' = Append(file, NextLine(handle[p], e)),
           handle' = [handle EXCEPT ![p].st = st],
           UNCHANGED <<torn, durable, key, lock, acked, heads>>
    PROVE  IInv'
<1> USE DEF IInv
<1>1. handle[p].st = "ready" /\ Len(file) = durable /\ HandleTracks(handle[p], durable)
  BY DEF Admits, HandlesAgree
<1>2. /\ file' \in Seq(Line) /\ Len(file') = durable + 1 /\ ChainIntact'
      /\ \A i \in 1..durable : file'[i] = file[i]
  BY <1>1, AppendKeepsChain
<1>3. durable \in Nat /\ handle \in [Process -> Handle]
  BY DEF TypeOK
<1>4. \A q \in Process :
          handle'[q] = IF q = p THEN [handle[p] EXCEPT !.st = st] ELSE handle[q]
  BY <1>3
<1>5. TypeOK'
  <2>1. \A q \in Process : handle'[q] \in Handle
    BY <1>3, <1>4 DEF Handle
  <2> QED BY <1>2, <1>3, <2>1 DEF TypeOK
<1>6. HandlesAgree'
  <2>1. \A q \in Process : q # p => handle[q].st = "closed"
    BY <1>1, LockExcludes
  <2>2. lock = p
    BY <1>1 DEF HandlesAgree
  <2>3. HeadAt(file', durable) = HeadAt(file, durable)
        /\ SizeAt(file', durable) = SizeAt(file, durable)
    BY <1>2, <1>3 DEF HeadAt, SizeAt
  <2>4. handle'[p].st = st /\ HandleTracks(handle[p], durable)'
    BY <1>1, <1>3, <1>4, <2>3 DEF HandleTracks, Handle
  <2> QED BY <1>2, <1>4, <2>1, <2>2, <2>4 DEF HandlesAgree, HandleTracks
<1>7. AnsweredIsDurable' /\ CheckpointsHold'
  BY <1>2, <1>3, WitnessesStay DEF AnsweredIsDurable, CheckpointsHold, TypeOK
<1>8. OneUnsyncedLine' /\ TornIsNeverExtended'
  BY <1>1, <1>2, <1>3, <1>4 DEF OneUnsyncedLine, TornIsNeverExtended
<1> QED BY <1>2, <1>5, <1>6, <1>7, <1>8

\* A write that leaves the file as it was, or torn, and an fsync that fails
\* poison the handle.
LEMMA PoisonKeepsIInv ==
    ASSUME IInv, NEW p \in Process, handle[p].st \in {"ready", "written"},
           handle' = [handle EXCEPT ![p].st = "failed"],
           torn' \in {"no", "cached", "synced"},
           UNCHANGED <<file, durable, key, lock, acked, heads>>
    PROVE  IInv'
<1> USE DEF IInv
<1>1. \A q \in Process :
          handle'[q] = IF q = p THEN [handle[p] EXCEPT !.st = "failed"] ELSE handle[q]
  BY DEF TypeOK
<1>2. TypeOK'
  <2>1. \A q \in Process : handle'[q] \in Handle
    BY <1>1 DEF Handle, TypeOK
  <2> QED BY <2>1 DEF TypeOK
<1>3. \A q \in Process : q # p => handle[q].st = "closed"
  BY LockExcludes
<1>4. handle'[p].st = "failed" /\ lock = p
  BY <1>1 DEF HandlesAgree, TypeOK, Handle
<1>5. HandlesAgree' /\ TornIsNeverExtended'
  BY <1>1, <1>3, <1>4 DEF HandlesAgree, TornIsNeverExtended
<1>6. AnsweredIsDurable' /\ CheckpointsHold' /\ ChainIntact' /\ OneUnsyncedLine'
  BY DEF AnsweredIsDurable, CheckpointsHold, OnDurableChain, ChainIntact, OneUnsyncedLine
<1> QED BY <1>2, <1>5, <1>6

\* The fsync: the pending line becomes durable, the handle advances over it and
\* the caller is answered with its number and hash.
LEMMA SyncKeepsIInv ==
    ASSUME IInv, NEW p \in Process, Sync(p)
    PROVE  IInv'
<1> USE DEF IInv
<1> DEFINE line == file[Len(file)]
<1>1. /\ handle[p].st = "written" /\ lock = p
      /\ Len(file) = durable + 1 /\ HandleTracks(handle[p], durable)
      /\ \A q \in Process : q # p => handle[q].st = "closed"
  BY LockExcludes DEF Sync, HandlesAgree
<1>2. /\ file' = file /\ durable' = Len(file) /\ durable \in Nat /\ Len(file) \in Nat
      /\ UNCHANGED <<key, lock, heads>> /\ torn = "no" /\ torn' = "no"
  BY <1>1 DEF Sync, SyncFile, SyncedTail, TypeOK, TornIsNeverExtended
<1>3. line \in Line
  BY <1>1, <1>2 DEF TypeOK
<1>4. line.seq = Len(file) /\ EntryHash(line) \in Seq(Event) /\ line.end \in Nat
  <2>1. line.prev \in Seq(Event) /\ line.ev \in Event /\ line.end \in Nat
    BY <1>3 DEF Line
  <2>2. line.seq = Len(file)
    BY <1>1, <1>2 DEF ChainIntact, ChainOK
  <2> QED BY <2>1, <2>2 DEF EntryHash
<1>5. \A q \in Process :
          handle'[q] = IF q = p
                       THEN [handle[p] EXCEPT !.st = "ready", !.seq = line.seq,
                                 !.head = EntryHash(line), !.size = line.end]
                       ELSE handle[q]
  BY DEF Sync, TypeOK
<1>6. /\ handle'[p].st = "ready" /\ handle'[p].seq = line.seq
      /\ handle'[p].head = EntryHash(line) /\ handle'[p].size = line.end
      /\ handle'[p] \in Handle
  <2>1. handle[p] \in Handle
    BY DEF TypeOK
  <2> QED BY <1>2, <1>4, <1>5, <2>1 DEF Handle
<1>7. acked' = acked \cup {[seq |-> line.seq, hash |-> EntryHash(line)]}
  BY DEF Sync
<1>8. TypeOK'
  <2>1. handle' \in [Process -> Handle]
    BY <1>5, <1>6 DEF TypeOK, Sync
  <2>2. [seq |-> line.seq, hash |-> EntryHash(line)] \in Witness
    BY <1>2, <1>4 DEF Witness
  <2>3. acked' \subseteq Witness
    BY <1>7, <2>2 DEF TypeOK
  <2> QED BY <1>2, <2>1, <2>3 DEF TypeOK
<1>9. HandlesAgree' /\ TornIsNeverExtended' /\ OneUnsyncedLine' /\ ChainIntact'
  <2>1. HandleTracks(handle[p], durable)'
    BY <1>1, <1>2, <1>4, <1>6 DEF HandleTracks, HeadAt, SizeAt
  <2> QED BY <1>1, <1>2, <1>5, <1>6, <2>1
          DEF HandlesAgree, HandleTracks, TornIsNeverExtended, OneUnsyncedLine, ChainIntact
<1>10. AnsweredIsDurable' /\ CheckpointsHold'
  <2>1. \A w \in Witness : OnDurableChain(w) => OnDurableChain(w)'
    BY <1>1, <1>2, WitnessesStay
  <2>2. OnDurableChain([seq |-> line.seq, hash |-> EntryHash(line)])'
    BY <1>1, <1>2, <1>4 DEF OnDurableChain, HeadAt
  <2> QED BY <1>1, <1>2, <1>4, <1>7, <2>1, <2>2 DEF AnsweredIsDurable, CheckpointsHold, TypeOK
<1> QED BY <1>8, <1>9, <1>10

\* Head answers with what the handle tracks, which is durable.
LEMMA CheckpointKeepsIInv ==
    ASSUME IInv, NEW p \in Process, Checkpoint(p)
    PROVE  IInv'
<1> USE DEF IInv
<1>0. /\ UNCHANGED <<file, torn, durable, key, lock, handle, acked>>
      /\ heads' = heads \cup {[seq |-> handle[p].seq, hash |-> handle[p].head]}
      /\ HandleTracks(handle[p], durable) /\ durable \in Nat /\ handle[p] \in Handle
  BY DEF Checkpoint, HandlesAgree, TypeOK
<1>1. [seq |-> handle[p].seq, hash |-> handle[p].head] \in Witness
  BY <1>0 DEF Witness, Handle
<1>2. OnDurableChain([seq |-> handle[p].seq, hash |-> handle[p].head])'
  BY <1>0 DEF OnDurableChain, HandleTracks
<1>3. TypeOK'
  BY <1>0, <1>1 DEF TypeOK
<1>4. CheckpointsHold'
  BY <1>0, <1>2 DEF CheckpointsHold, OnDurableChain
<1> QED BY <1>0, <1>3, <1>4
        DEF ChainIntact, HandlesAgree, HandleTracks, OneUnsyncedLine, TornIsNeverExtended,
            AnsweredIsDurable, OnDurableChain

\* Closing and dying drop the handle and the lock; the file stays.
LEMMA LeaveKeepsIInv ==
    ASSUME IInv, NEW p \in Process, Close(p) \/ Exit(p)
    PROVE  IInv'
<1> USE DEF IInv
<1>0. /\ handle[p].st # "closed" /\ lock' = NoProcess
      /\ handle' = [handle EXCEPT ![p] = Closed]
      /\ UNCHANGED <<file, torn, durable, key, acked, heads>>
  BY DEF Close, Exit
<1>1. \A q \in Process : handle'[q].st = "closed"
  BY <1>0, LockExcludes DEF TypeOK, Closed
<1>2. Closed \in Handle
  BY DEF Closed, Handle
<1>3. TypeOK'
  BY <1>0, <1>2 DEF TypeOK
<1> QED BY <1>0, <1>1, <1>3
        DEF ChainIntact, HandlesAgree, OneUnsyncedLine, TornIsNeverExtended,
            AnsweredIsDurable, CheckpointsHold, OnDurableChain

\* Power loss keeps at least the durable lines, and what it keeps is durable.
LEMMA PowerLossKeepsIInv ==
    ASSUME IInv, PowerLoss
    PROVE  IInv'
<1> USE DEF IInv
<1>1. PICK n \in durable..Len(file) : file' = SubSeq(file, 1, n) /\ durable' = n
  BY DEF PowerLoss
<1>2. /\ n \in Nat /\ durable \in Nat /\ durable <= n /\ n <= Len(file)
      /\ file \in Seq(Line) /\ Len(file) \in Nat
  BY <1>1 DEF TypeOK
<1>3. /\ file' \in Seq(Line) /\ Len(file') = n
      /\ \A i \in 1..n : file'[i] = file[i]
  BY <1>1, <1>2
<1>4. \A q \in Process : handle'[q] = Closed
  BY DEF PowerLoss
<1>5. TypeOK'
  <2>1. Closed \in Handle
    BY DEF Closed, Handle
  <2>2. key' \in {"absent", "partial", "cached", "stored"}
    BY DEF PowerLoss, TypeOK
  <2>3. torn' \in {"no", "cached", "synced"}
    BY DEF PowerLoss
  <2> QED BY <1>1, <1>2, <1>3, <2>1, <2>2, <2>3 DEF TypeOK, PowerLoss
<1>6. ChainIntact'
  <2> SUFFICES ASSUME NEW i \in 1..n
               PROVE  file'[i].seq = i /\ file'[i].prev = HeadAt(file', i - 1)
    BY <1>3 DEF ChainIntact, ChainOK
  <2>1. file[i].seq = i /\ file[i].prev = HeadAt(file, i - 1)
    BY <1>2 DEF ChainIntact, ChainOK
  <2>2. HeadAt(file', i - 1) = HeadAt(file, i - 1)
    BY <1>2, <1>3 DEF HeadAt
  <2> QED BY <1>3, <2>1, <2>2
<1>7. HandlesAgree' /\ TornIsNeverExtended' /\ OneUnsyncedLine'
  BY <1>1, <1>2, <1>3, <1>4 DEF HandlesAgree, TornIsNeverExtended, OneUnsyncedLine, Closed
<1>8. AnsweredIsDurable' /\ CheckpointsHold'
  <2>1. \A i \in 1..durable : file'[i] = file[i]
    BY <1>2, <1>3
  <2>2. \A w \in Witness : OnDurableChain(w) => OnDurableChain(w)'
    BY <1>1, <1>2, <2>1, WitnessesStay
  <2>3. acked' = acked /\ heads' = heads
    BY DEF PowerLoss
  <2> QED BY <2>2, <2>3 DEF AnsweredIsDurable, CheckpointsHold, TypeOK
<1> QED BY <1>5, <1>6, <1>7, <1>8

LEMMA NextKeepsIInv == IInv /\ [Next]_vars => IInv'
<1> SUFFICES ASSUME IInv, [Next]_vars PROVE IInv'
  OBVIOUS
<1>1. ASSUME NEW p \in Process, NEW max \in Quotas, Open(p, max) PROVE IInv'
  BY <1>1, OpenKeepsIInv
<1>2. ASSUME NEW p \in Process, OpenKeyFails(p) PROVE IInv'
  BY <1>2 DEF OpenKeyFails, IInv, TypeOK, ChainIntact, HandlesAgree, HandleTracks,
              OneUnsyncedLine, TornIsNeverExtended, AnsweredIsDurable,
              CheckpointsHold, OnDurableChain
<1>3. ASSUME NEW p \in Process, NEW e \in Event, Write(p, e) PROVE IInv'
  BY <1>3, LineArrives DEF Write
<1>4. ASSUME NEW p \in Process, NEW e \in Event, WriteFails(p, e) PROVE IInv'
  <2>1. CASE file' = Append(file, NextLine(handle[p], e)) /\ UNCHANGED torn
    BY <1>4, <2>1, LineArrives DEF WriteFails
  <2>2. CASE UNCHANGED file /\ (UNCHANGED torn \/ torn' = "cached")
    <3>1. torn' \in {"no", "cached", "synced"}
      BY <2>2 DEF IInv, TypeOK
    <3> QED BY <1>4, <2>2, <3>1, PoisonKeepsIInv DEF WriteFails, Admits
  <2> QED BY <1>4, <2>1, <2>2 DEF WriteFails
<1>5. ASSUME NEW p \in Process, Sync(p) PROVE IInv'
  BY <1>5, SyncKeepsIInv
<1>6. ASSUME NEW p \in Process, SyncFails(p) PROVE IInv'
  <2>1. torn' \in {"no", "cached", "synced"}
    BY <1>6 DEF SyncFails, IInv, TypeOK
  <2> QED BY <1>6, <2>1, PoisonKeepsIInv DEF SyncFails
<1>7. ASSUME NEW p \in Process, Checkpoint(p) PROVE IInv'
  BY <1>7, CheckpointKeepsIInv
<1>8. ASSUME NEW p \in Process, Close(p) \/ Exit(p) PROVE IInv'
  BY <1>8, LeaveKeepsIInv
<1>9. CASE RecoveryRead
  BY <1>9, RecoveryReadKeepsIInv
<1>10. CASE PowerLoss
  BY <1>10, PowerLossKeepsIInv
<1>11. CASE UNCHANGED vars
  BY <1>11 DEF vars, IInv, TypeOK, ChainIntact, HandlesAgree, HandleTracks,
               OneUnsyncedLine, TornIsNeverExtended, AnsweredIsDurable,
               CheckpointsHold, OnDurableChain
<1> QED BY <1>1, <1>2, <1>3, <1>4, <1>5, <1>6, <1>7, <1>8, <1>9, <1>10, <1>11 DEF Next

\* The inductive invariant holds in every reachable state of the audit log.
THEOREM Invariance == Spec => []IInv
  BY InitIInv, NextKeepsIInv, PTL DEF Spec

\* Type correctness of the audit log's state.
THEOREM TypeCorrect == Spec => []TypeOK
<1>1. IInv => TypeOK
  BY DEF IInv
<1> QED BY Invariance, <1>1, PTL

\* Every entry Append ever returned is on stable storage for ever, with the hash
\* it was returned with: audit.go's "returns only after the entry has been
\* written and fsynced", for any number of processes, failures and crashes.
THEOREM Durability == Spec => []AnsweredIsDurable
<1>1. IInv => AnsweredIsDurable
  BY DEF IInv
<1> QED BY Invariance, <1>1, PTL

\* Every head that Head returned, and so every signed checkpoint, stays a prefix
\* of the chain for ever.
THEOREM CheckpointSafety == Spec => []CheckpointsHold
<1>1. IInv => CheckpointsHold
  BY DEF IInv
<1> QED BY Invariance, <1>1, PTL

\* The file is one unbroken hash chain in every reachable state, so scanAndVerify
\* can refuse it for its tail only, and nobody ever appends behind such a tail.
THEOREM ChainSafety == Spec => []ChainWhole
<1>1. IInv => ChainWhole
  BY DEF IInv, ChainWhole
<1> QED BY Invariance, <1>1, PTL

-----------------------------------------------------------------------------
(* Refinement: every step is a step of DurableLog, or leaves it unchanged.   *)

\* A step that keeps the durable lines, makes at most one more line durable and
\* answers nobody is an unanswered append of DurableLog or a stutter.
LEMMA UnansweredStep ==
    ASSUME IInv, TypeOK', acked' = acked, durable' \in {durable, durable + 1},
           \A i \in 1..durable : file'[i] = file[i]
    PROVE  [D!Next]_(D!vars)
<1> USE DEF IInv
<1>0. durable \in Nat /\ AckedPositions' = AckedPositions
  BY DEF TypeOK, AckedPositions
<1>1. CASE durable' = durable
  <2>1. StableEvents' = StableEvents
    BY <1>0, <1>1 DEF StableEvents
  <2> QED BY <1>0, <2>1 DEF D!vars
<1>2. CASE durable' = durable + 1
  <2>1. file'[durable + 1] \in Line
    BY <1>0, <1>2 DEF TypeOK
  <2>2. file'[durable + 1].ev \in Event
    BY <2>1 DEF Line
  <2>3. StableEvents \in Seq(Event)
    <3>0. \A i \in 1..durable : file[i] \in Line
      BY DEF TypeOK
    <3>1. \A i \in 1..durable : file[i].ev \in Event
      BY <3>0 DEF Line
    <3> QED BY <1>0, <3>1 DEF StableEvents
  <2>4. StableEvents' = Append(StableEvents, file'[durable + 1].ev)
    BY <1>0, <1>2, <2>2, <2>3 DEF StableEvents
  <2> QED BY <1>0, <2>2, <2>4 DEF D!Next, D!AppendUnanswered
<1> QED BY <1>1, <1>2

\* The successful fsync is the answered append.
LEMMA AnsweredStep ==
    ASSUME IInv, NEW p \in Process, Sync(p)
    PROVE  D!Next
<1> USE DEF IInv
<1>1. /\ Len(file) = durable + 1 /\ file' = file /\ durable' = durable + 1
      /\ durable \in Nat
      /\ acked' = acked \cup {[seq |-> file[Len(file)].seq,
                                hash |-> EntryHash(file[Len(file)])]}
  BY DEF Sync, SyncFile, HandlesAgree, TypeOK
<1>2. file[durable + 1] \in Line /\ file[durable + 1].seq = durable + 1
  BY <1>1 DEF TypeOK, ChainIntact, ChainOK
<1>3. file[durable + 1].ev \in Event
  BY <1>2 DEF Line
<1>4. StableEvents \in Seq(Event)
  <2>0. \A i \in 1..durable : file[i] \in Line
    BY <1>1 DEF TypeOK
  <2>1. \A i \in 1..durable : file[i].ev \in Event
    BY <2>0 DEF Line
  <2> QED BY <1>1, <2>1 DEF StableEvents
<1>5. StableEvents' = Append(StableEvents, file[durable + 1].ev)
      /\ Len(StableEvents) = durable
  BY <1>1, <1>3, <1>4 DEF StableEvents
<1>6. AckedPositions' = AckedPositions \cup {durable + 1}
  <2> DEFINE w == [seq |-> durable + 1, hash |-> EntryHash(file[durable + 1])]
  <2>1. acked' = acked \cup {w} /\ w.seq = durable + 1
    BY <1>1, <1>2
  <2> HIDE DEF w
  <2> QED BY <2>1 DEF AckedPositions
<1> QED BY <1>3, <1>5, <1>6 DEF D!Next, D!AppendAnswered

LEMMA NextRefines == IInv /\ IInv' /\ [Next]_vars => [D!Next]_(D!vars)
<1> SUFFICES ASSUME IInv, IInv', [Next]_vars PROVE [D!Next]_(D!vars)
  OBVIOUS
<1>0. /\ TypeOK /\ TypeOK' /\ durable \in Nat /\ Len(file) \in Nat
      /\ durable <= Len(file) /\ Len(file) <= durable + 1
  BY DEF IInv, TypeOK, OneUnsyncedLine
<1>1. ASSUME NEW p \in Process, Sync(p) PROVE [D!Next]_(D!vars)
  BY <1>1, AnsweredStep
<1>2. ASSUME acked' = acked, file' = file, durable' \in {durable, Len(file)}
      PROVE  [D!Next]_(D!vars)
  BY <1>0, <1>2, UnansweredStep
<1>3. ASSUME NEW p \in Process, NEW max \in Quotas, Open(p, max)
      PROVE  [D!Next]_(D!vars)
  BY <1>2, <1>3 DEF Open, SyncFile
<1>4. ASSUME NEW p \in Process,
             OpenKeyFails(p) \/ SyncFails(p) \/ Checkpoint(p) \/ Close(p) \/ Exit(p)
      PROVE  [D!Next]_(D!vars)
  BY <1>2, <1>4 DEF OpenKeyFails, SyncFails, Checkpoint, Close, Exit
<1>5. CASE RecoveryRead
  BY <1>2, <1>5 DEF RecoveryRead, SyncFile
<1>6. ASSUME NEW p \in Process, NEW e \in Event, Write(p, e) \/ WriteFails(p, e)
      PROVE  [D!Next]_(D!vars)
  <2>1. CASE file' = file
    BY <1>2, <1>6, <2>1 DEF Write, WriteFails
  <2>2. CASE file' = Append(file, NextLine(handle[p], e))
    <3>1. Len(file) = durable /\ HandleTracks(handle[p], durable)
      BY <1>6 DEF Write, WriteFails, Admits, IInv, HandlesAgree
    <3>2. \A i \in 1..durable : file'[i] = file[i]
      BY <2>2, <3>1, AppendKeepsChain DEF IInv
    <3> QED BY <1>0, <1>6, <3>2, UnansweredStep DEF Write, WriteFails
  <2> QED BY <1>6, <2>1, <2>2 DEF Write, WriteFails
<1>7. CASE PowerLoss
  <2>1. PICK n \in durable..Len(file) : file' = SubSeq(file, 1, n) /\ durable' = n
    BY <1>7 DEF PowerLoss
  <2>2. n \in {durable, durable + 1} /\ n \in Nat /\ n <= Len(file)
    BY <1>0, <2>1
  <2>3. \A i \in 1..durable : file'[i] = file[i]
    BY <1>0, <2>1, <2>2 DEF TypeOK
  <2> QED BY <1>0, <1>7, <2>1, <2>2, <2>3, UnansweredStep DEF PowerLoss
<1>8. CASE UNCHANGED vars
  BY <1>2, <1>8 DEF vars
<1> QED BY <1>1, <1>3, <1>4, <1>5, <1>6, <1>7, <1>8 DEF Next

\* The audit log implements the contract the rest of the program relies on: an
\* append-only log on stable storage whose answers are never taken back.
THEOREM Refinement == Spec => ImplementsDurableLog
<1>1. Init => D!Init
  BY DEF Init, D!Init, StableEvents, AckedPositions
<1>2. IInv /\ IInv' /\ [Next]_vars => [D!Next]_(D!vars)
  BY NextRefines
<1> QED BY <1>1, <1>2, Invariance, PTL DEF Spec, ImplementsDurableLog, D!Spec

-----------------------------------------------------------------------------
\* Append: only a process that holds the lock makes the file grow, and what it
\* writes ends within the quota it was started with, also when the write fails
\* and when the log was beyond that quota already.
THEOREM QuotaHolds == Spec => QuotaRespected
<1> DEFINE Grows ==
        Len(file') > Len(file) =>
            \E p \in Process : lock = p /\ SizeAt(file', Len(file')) <= handle[p].max
<1>1. IInv /\ [Next]_vars => Grows
  <2> SUFFICES ASSUME IInv, [Next]_vars, Len(file') > Len(file) PROVE Grows
    OBVIOUS
  <2>0. TypeOK /\ HandlesAgree /\ Len(file) \in Nat
    BY DEF IInv, TypeOK
  <2>1. ASSUME NEW p \in Process, NEW e \in Event, Write(p, e) \/ WriteFails(p, e)
        PROVE  Grows
    <3>1. /\ Admits(p, e) /\ file' = Append(file, NextLine(handle[p], e))
      BY <2>1 DEF Write, WriteFails
    <3>2. lock = p /\ Len(file') = Len(file) + 1
          /\ file'[Len(file')] = NextLine(handle[p], e)
      BY <2>0, <3>1 DEF Admits, HandlesAgree, TypeOK
    <3>3. /\ handle[p].max \in Nat /\ handle[p].size \in Nat /\ EntrySize[e] \in Nat
          /\ SizeAt(file', Len(file')) = handle[p].size + EntrySize[e]
      BY <2>0, <3>2, AuditAssumption DEF SizeAt, NextLine, TypeOK, Handle
    <3> QED BY <3>1, <3>2, <3>3 DEF Admits
  <2>2. CASE PowerLoss
    <3>1. PICK n \in durable..Len(file) : file' = SubSeq(file, 1, n)
      BY <2>2 DEF PowerLoss
    <3> QED BY <2>0, <3>1 DEF TypeOK
  <2>3. CASE UNCHANGED file
    BY <2>0, <2>3
  <2>4. ASSUME NEW p \in Process, NEW max \in Quotas, Open(p, max) PROVE Grows
    BY <2>3, <2>4 DEF Open
  <2>5. ASSUME NEW p \in Process,
               OpenKeyFails(p) \/ Sync(p) \/ SyncFails(p) \/ Checkpoint(p)
                 \/ Close(p) \/ Exit(p)
        PROVE  Grows
    BY <2>3, <2>5 DEF OpenKeyFails, Sync, SyncFails, Checkpoint, Close, Exit
  <2>6. CASE RecoveryRead \/ UNCHANGED vars
    BY <2>3, <2>6 DEF RecoveryRead, vars
  <2> HIDE DEF Grows
  <2> QED BY <2>1, <2>2, <2>4, <2>5, <2>6 DEF Next
<1>2. QuotaRespected <=> [][Grows]_vars
  BY PTL DEF QuotaRespected
<1> HIDE DEF Grows
<1> QED BY <1>1, <1>2, Invariance, PTL DEF Spec
=============================================================================
