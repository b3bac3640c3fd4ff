------------------------------ MODULE AuditLog ------------------------------
(***************************************************************************)
(* internal/audit: the append-only, hash-chained, fsynced log that holds   *)
(* the whole protocol state of an endpoint.                                *)
(*                                                                         *)
(* Modelled: the file as the operating system shows it and the part of it  *)
(* on stable storage, the audit.key file, the exclusive file lock, one     *)
(* Log handle per process, the write and the fsync of an append as two     *)
(* steps, every way either can fail, the quota, process death, power loss  *)
(* and reopening.  Abstracted: an entry is its event, its sequence number  *)
(* and its chain link; the SHA-256 of an entry is the sequence of events   *)
(* it closes, which is what a collision-free chained hash stands for.      *)
(* Assumed of the operating system, as the code assumes it: a successful   *)
(* fsync makes everything written to the file durable, and flock excludes. *)
(***************************************************************************)
EXTENDS Integers, Sequences

CONSTANTS
    Process,      \* processes that open the log: the server, CLI commands
    Event,        \* what can be logged
    EntrySize,    \* encoded length of an event's line, newline included
    Quotas,       \* values of max_audit_bytes a process may be started with
    NoProcess     \* nobody holds the lock

ASSUME AuditAssumption ==
    /\ NoProcess \notin Process
    /\ EntrySize \in [Event -> Nat \ {0}]
    /\ Quotas \subseteq Nat \ {0}

VARIABLES
    file,         \* complete lines of audit.jsonl as reads see them
    torn,         \* bytes after the last newline: "no", "cached" or "synced"
    durable,      \* how many lines of file are on stable storage
    key,          \* audit.key: "absent", "partial" (of no use to this log),
                  \*   "cached" or "stored"
    lock,         \* holder of the exclusive lock on audit.jsonl
    handle,       \* handle[p]: the Log value of process p
    acked,        \* history: what successful appends returned
    heads         \* history: what Head returned (signed in checkpoints)

vars == <<file, torn, durable, key, lock, handle, acked, heads>>

\* Log handles.  "written" is a ready handle whose mutex is held by an append
\* between its write and its fsync.
Closed == [st |-> "closed", seq |-> 0, head |-> << >>, size |-> 0, max |-> 0]

Handle == [st : {"closed", "ready", "written", "failed"},
           seq : Nat, head : Seq(Event), size : Nat, max : Nat]

Line == [seq : Nat, prev : Seq(Event), ev : Event, end : Nat]

Witness == [seq : Nat, hash : Seq(Event)]

\* calculateEntryHash covers the previous hash and the entry's own content.
EntryHash(line) == Append(line.prev, line.ev)

\* Chain head and byte offset after the first n lines of f.
HeadAt(f, n) == IF n = 0 THEN << >> ELSE EntryHash(f[n])
SizeAt(f, n) == IF n = 0 THEN 0 ELSE f[n].end

\* verifyEntry, for every line of the file: consecutive numbers from 1, each
\* entry linked to the hash of the one before it.
ChainOK(f) ==
    \A i \in 1..Len(f) :
        /\ f[i].seq = i
        /\ f[i].prev = HeadAt(f, i - 1)

NextLine(h, e) ==
    [seq |-> h.seq + 1, prev |-> h.head, ev |-> e, end |-> h.size + EntrySize[e]]

-----------------------------------------------------------------------------
TypeOK ==
    /\ file \in Seq(Line)
    /\ torn \in {"no", "cached", "synced"}
    /\ durable \in 0..Len(file)
    /\ key \in {"absent", "partial", "cached", "stored"}
    /\ lock \in Process \cup {NoProcess}
    /\ handle \in [Process -> Handle]
    /\ acked \subseteq Witness
    /\ heads \subseteq Witness

Init ==
    /\ file = << >>
    /\ torn = "no"
    /\ durable = 0
    /\ key = "absent"
    /\ lock = NoProcess
    /\ handle = [p \in Process |-> Closed]
    /\ acked = {}
    /\ heads = {}

\* fsync of the file: everything it holds is now on stable storage.
SyncedTail == IF torn = "cached" THEN "synced" ELSE torn

SyncFile ==
    /\ durable' = Len(file)
    /\ torn' = SyncedTail

\* scanAndVerify accepts the file: no bytes after the last newline, and an
\* intact chain.
Verified == torn = "no" /\ ChainOK(file)

EmptyLog == file = << >> /\ torn = "no"

OpenHandle(max) ==
    [st |-> "ready", seq |-> Len(file), head |-> HeadAt(file, Len(file)),
     size |-> SizeAt(file, Len(file)), max |-> max]

\* Mutant of Open: what the page cache shows is taken for durable.
OpenUnsynced(p, max) ==
    /\ handle[p].st = "closed"
    /\ lock = NoProcess
    /\ key' = "stored"
    /\ Verified
    /\ lock' = p
    /\ handle' = [handle EXCEPT ![p] = OpenHandle(max)]
    /\ UNCHANGED <<file, torn, durable, acked, heads>>

\* OpenWithQuota: lock, load audit.key (created only for an empty log), fsync
\* file and directory, verify the chain, and only then hand out a handle.  The
\* lock is held throughout, so no other process can come between.
Open(p, max) ==
    /\ handle[p].st = "closed"
    /\ lock = NoProcess
    /\ \/ key \in {"cached", "stored"} /\ UNCHANGED key
       \/ key = "absent" /\ EmptyLog /\ key' = "stored"
    /\ SyncFile
    /\ Verified
    /\ lock' = p
    /\ handle' = [handle EXCEPT ![p] = OpenHandle(max)]
    /\ UNCHANGED <<file, acked, heads>>

\* The key file is created but writing or syncing it fails, or the process
\* dies there.  securestore.Create leaves what it wrote.  Later opens refuse a
\* key aes.NewCipher does not take ("partial"), and take any other that was
\* never fsynced ("cached"): the whole key, or a part of one of the lengths AES
\* knows, which no entry has been encrypted with yet.
OpenKeyFails(p) ==
    /\ handle[p].st = "closed"
    /\ lock = NoProcess
    /\ key = "absent" /\ EmptyLog
    /\ key' \in {"partial", "cached"}
    /\ UNCHANGED <<file, torn, durable, lock, handle, acked, heads>>

\* An open that synced the file and then found it unverifiable, or one of the
\* free-path readers Verify, ReadAll and Scan, which lock and sync first and
\* let go of the lock when they are done.  A reader never creates the key.
RecoveryRead ==
    /\ lock = NoProcess
    /\ SyncFile
    /\ UNCHANGED <<file, key, lock, handle, acked, heads>>

\* Mutant of Admits: the new entry's own size is forgotten.
AdmitsBelowQuota(p, e) ==
    /\ handle[p].st = "ready"
    /\ ~ (handle[p].size > handle[p].max)

\* Append up to its write.  readyLocked lets only a ready handle through, and
\* an entry that does not fit the quota is refused with nothing changed.
Admits(p, e) ==
    /\ handle[p].st = "ready"
    /\ ~ (handle[p].size > handle[p].max)
    /\ ~ (EntrySize[e] > handle[p].max - handle[p].size)

Write(p, e) ==
    /\ Admits(p, e)
    /\ file' = Append(file, NextLine(handle[p], e))
    /\ handle' = [handle EXCEPT ![p].st = "written"]
    /\ UNCHANGED <<torn, durable, key, lock, acked, heads>>

\* The write fails: with nothing, part of the line or all of it in the file.
\* The handle is poisoned whatever arrived.
WriteFails(p, e) ==
    /\ Admits(p, e)
    /\ handle' = [handle EXCEPT ![p].st = "failed"]
    /\ \/ UNCHANGED <<file, torn>>
       \/ torn' = "cached" /\ UNCHANGED file
       \/ file' = Append(file, NextLine(handle[p], e)) /\ UNCHANGED torn
    /\ UNCHANGED <<durable, key, lock, acked, heads>>

\* Mutant of Sync: the result of fsync is not looked at.
SyncUnchecked(p) ==
    LET line == file[Len(file)] IN
    /\ handle[p].st = "written"
    /\ handle' = [handle EXCEPT ![p].st = "ready",
                                ![p].seq = line.seq,
                                ![p].head = EntryHash(line),
                                ![p].size = line.end]
    /\ acked' = acked \cup {[seq |-> line.seq, hash |-> EntryHash(line)]}
    /\ UNCHANGED <<file, torn, durable, key, lock, heads>>

\* The fsync succeeds; the handle advances and the caller is answered.
Sync(p) ==
    LET line == file[Len(file)] IN
    /\ handle[p].st = "written"
    /\ SyncFile
    /\ handle' = [handle EXCEPT ![p].st = "ready",
                                ![p].seq = line.seq,
                                ![p].head = EntryHash(line),
                                ![p].size = line.end]
    /\ acked' = acked \cup {[seq |-> line.seq, hash |-> EntryHash(line)]}
    /\ UNCHANGED <<file, key, lock, heads>>

\* Mutant of SyncFails: the error is returned but the handle is not poisoned.
SyncFailsReusable(p) ==
    /\ handle[p].st = "written"
    /\ handle' = [handle EXCEPT ![p].st = "ready"]
    /\ UNCHANGED <<file, torn, durable, key, lock, acked, heads>>

\* The fsync fails: the line is in the file, the caller gets an error, and the
\* handle refuses everything from now on.
SyncFails(p) ==
    /\ handle[p].st = "written"
    /\ handle' = [handle EXCEPT ![p].st = "failed"]
    /\ UNCHANGED <<file, torn, durable, key, lock, acked, heads>>

\* Mutant of Checkpoint: reads past the mutex of an append under way.
HeadUnlocked(p) ==
    /\ handle[p].st \in {"ready", "written"}
    /\ heads' = heads \cup {[seq |-> Len(file), hash |-> HeadAt(file, Len(file))]}
    /\ UNCHANGED <<file, torn, durable, key, lock, handle, acked>>

\* Head, which Checkpoint signs, waits for the mutex, so it never sees an append between its two steps.
Checkpoint(p) ==
    /\ handle[p].st = "ready"
    /\ heads' = heads \cup {[seq |-> handle[p].seq, hash |-> handle[p].head]}
    /\ UNCHANGED <<file, torn, durable, key, lock, handle, acked>>

\* Close waits for the mutex and releases the lock.
Close(p) ==
    /\ handle[p].st \in {"ready", "failed"}
    /\ handle' = [handle EXCEPT ![p] = Closed]
    /\ lock' = NoProcess
    /\ UNCHANGED <<file, torn, durable, key, acked, heads>>

\* The process dies: the kernel drops its lock, the page cache survives.
Exit(p) ==
    /\ handle[p].st # "closed"
    /\ handle' = [handle EXCEPT ![p] = Closed]
    /\ lock' = NoProcess
    /\ UNCHANGED <<file, torn, durable, key, acked, heads>>

\* The machine dies: unsynced lines survive up to some point, and a line cut
\* short by it leaves a torn tail.
PowerLoss ==
    /\ handle' = [p \in Process |-> Closed]
    /\ lock' = NoProcess
    /\ \E n \in durable..Len(file) :
           /\ file' = SubSeq(file, 1, n)
           /\ durable' = n
           /\ torn' \in IF torn = "synced" THEN {"synced"}
                        ELSE IF n < Len(file) \/ torn = "cached"
                             THEN {"no", "synced"}
                             ELSE {"no"}
    /\ key' \in CASE key \in {"partial", "cached"} /\ EmptyLog
                                     -> {"absent", "partial", "stored"}
                  [] key = "cached" /\ ~ EmptyLog -> {"partial", "stored"}
                  [] OTHER           -> {key}
    /\ UNCHANGED <<acked, heads>>

Next ==
    \/ \E p \in Process :
           \/ \E max \in Quotas : Open(p, max)
           \/ OpenKeyFails(p)
           \/ \E e \in Event : Write(p, e) \/ WriteFails(p, e)
           \/ Sync(p)
           \/ SyncFails(p)
           \/ Checkpoint(p)
           \/ Close(p)
           \/ Exit(p)
    \/ RecoveryRead
    \/ PowerLoss

Spec == Init /\ [][Next]_vars

-----------------------------------------------------------------------------
(* Properties.                                                             *)

\* The events on stable storage and the positions answered with success.
StableEvents == [i \in 1..durable |-> file[i].ev]
AckedPositions == {w.seq : w \in acked}

D == INSTANCE DurableLog WITH stable <- StableEvents, acked <- AckedPositions

\* The log implements its contract: whatever processes open, fail, die or lose
\* power, stable storage only ever gains one event at the end, and an append is
\* answered exactly by the fsync that makes its event stable.
ImplementsDurableLog == D!Spec

\* A witness (sequence number, chained hash) describes the durable chain.
OnDurableChain(w) ==
    /\ w.seq \in 0..durable
    /\ w.hash = HeadAt(file, w.seq)

\* Append returns only after the entry is durable: every entry it ever returned
\* is on stable storage with the hash it was returned with, for ever, through
\* failed appends by the same handle, crashes and reopening by other processes.
AnsweredIsDurable == \A w \in acked : w.seq > 0 /\ OnDurableChain(w)

\* Head, which signed checkpoints publish, never shows an entry that a crash can
\* still take back: every head ever returned stays a prefix of the chain.
CheckpointsHold == \A w \in heads : OnDurableChain(w)

\* The file holds one unbroken chain.
ChainIntact == ChainOK(file)

\* A handle that may append holds the lock alone, and its sequence number, head
\* and size are those of the file; between write and fsync they are those of
\* the file without its last line.
HandleTracks(h, n) ==
    /\ h.seq = n
    /\ h.head = HeadAt(file, n)
    /\ h.size = SizeAt(file, n)

HandlesAgree ==
    \A p \in Process :
        /\ handle[p].st # "closed" => lock = p
        /\ handle[p].st = "ready" =>
               Len(file) = durable /\ HandleTracks(handle[p], durable)
        /\ handle[p].st = "written" =>
               Len(file) = durable + 1 /\ HandleTracks(handle[p], durable)

\* A log that ends in an incomplete line is never appended to: scanAndVerify
\* refuses it, and a write that tears the tail poisons the handle at once.
TornIsNeverExtended ==
    torn # "no" => \A p \in Process : handle[p].st \notin {"ready", "written"}

\* The log can always be verified and continued: its chain is unbroken, also right
\* after a poisoned handle left a complete but unanswered line and another process
\* continued from it, and nothing is ever written behind a torn line.
ChainWhole == ChainIntact /\ TornIsNeverExtended

\* At most one line is ever waiting for its fsync: a failed append poisons the
\* handle, and opening syncs before it reads.
OneUnsyncedLine == Len(file) <= durable + 1

\* Only the holder of the lock makes the file grow, and never beyond the quota
\* its process was started with, however full the log was when it was opened.
QuotaRespected ==
    [][Len(file') > Len(file) =>
          \E p \in Process : lock = p /\ SizeAt(file', Len(file')) <= handle[p].max]_vars

\* openWithQuotaAndIO says that its syncs come "before any append can be
\* reported durable" and complete "recovery after a prior interrupted
\* initialization": an answered entry is never left without the key that
\* decrypts it.
KeyOutlivesEntries == acked # {} => key \in {"cached", "stored"}
=============================================================================
