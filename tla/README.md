# Turnwire in TLA+

Turnwire connects two agents through one MCP server each (`turnwire serve`). Every
endpoint keeps an encrypted, hash-chained, fsynced audit log, an Ed25519 identity,
pinned peers, durable rate counters and an approval store; it screens every message in
both directions before it is released or accepted. This directory models the parts of
that program whose correctness depends on the order of steps: interleaved calls, failed
writes, crashes, power losses, restarts and retries. Paths are relative to
`src/internal/`.

`PROJECT.json` lists components, runs, theorems, hazards and, for every definition, the
lines of Go it stands for.

## Inventory

| Component | Source | State | Operations | Model |
|---|---|---|---|---|
| audit log | `audit` | `audit.jsonl`, `audit.key`, the file lock, a `Log` handle | open, append (write, then fsync), head, verify and scan, close | `AuditLog`, `DurableLog` |
| secure store | `securestore` | files replaced by rename or created exclusively | create, replace, delete, read | in the modules of its users |
| budgets | `budget` | one counter file each: window start, used | open, take, close | `Budget` |
| mailbox service | `mailbox` | the index of requests, sent, received, seen, confirmed, inbox; claims; the workers group; `closing` | send, receive, confirm, inbox, replay, shutdown | `Mailbox` |
| approvals | `approval`, `cli/approve.go` | `<id>.pending.json`, `<id>.approved.json`, a spilled body | save pending, approve, approved? | `Approvals`, as whole records `Mailbox` |
| local signing history | `mailbox/signing_history.go` | none; derived from the log | which old keys' receipts verify | `KeyRotation` |
| identity | `identity`, `cli/identity.go` | the key file, certificates | rotate, revoke, checkpoint | `KeyRotation` |
| peers, configuration | `cli/peers.go`, `config` | `config.json` | init, add, rotate, remove; load, create, replace | `PeerConfig`; the pin of one peer in `KeyRotation`, `Channel` |
| MCP transport | `mcpserver` | frames, calls in flight, the output lane, teardown | read and write frames, admit, run, bounded shutdown | `FrameReader`, `RequestLimit`, `ServeShutdown` |
| delivery between endpoints | `mailbox`, `docs/deployment.md` | two logs, two keys and pins, what the agents carry | send, receive, confirm, retry, rotate, restart | `Channel`, `Delivery` |
| serve process | `cli/serve.go` | all of the above | attest, open, replay, run, shut down, close | `Mailbox`, `KeyRotation`, `ServeShutdown` |
| guards | `guard` | none | deterministic scan, model classification | `GuardResponse`, `Mailbox` |
| log queries | `cli/logs.go` | the export file | list, show, export, verify | `LogQuery` |
| owner-only checks, strict JSON, attestation, other commands | `owneronly`, `strictjson`, `identifier`, `attestation`, `buildinfo`, `cli` | none | validation and reporting | not modelled |

How they interact. The SDK's read loop pulls frames through the frame reader and the
request limit and dispatches each call to a goroutine of its own. A call takes a budget,
claims its key and a semaphore slot in the service, and then alternates between the
audit log, the approval store, the guards and the in-memory index; its answer goes out
through the request limit again. The log is the only durable protocol state: at a start,
`mailbox.New` replays it and rebuilds the index. Operator commands (`approve`,
`identity`, `checkpoint`, `peer`) are processes of their own and meet the server in the
file lock, the approval files and the configuration.

What is hard. Every append is a write and an fsync, and either may fail with the line
stored or not; a process may die, and the power fail, between any two steps; several calls
under one request or message ID interleave; a client acts on an answer before the write
that carried it has returned; a shutdown races the calls, the end of the input and its own
deadline; a rotation touches three files; envelopes and receipts are carried by agents
that lose and repeat them, between two clocks and keys that change meanwhile. For each
component, what makes it correct is the list of properties under [Runs](#runs).

## Modules

**`DurableLog`** is what the log promises: a sequence that only grows at the end, each
event put there with an answer or without one. **`AuditLog`** is `internal/audit`: the
file as reads see it (`file`, `torn`), how much of it is on stable storage (`durable`),
`audit.key`, the lock, one handle per process. `Open`, `Write`, `Sync` and the failures
of each are actions; `Write` and `Sync` are the two halves of `AppendWithReference`. A
chained SHA-256 is the sequence of events it closes. `ImplementsDurableLog` is the
refinement, by `INSTANCE DurableLog WITH` the durable prefix of the file.

**`Mailbox`** is `Service` on top of the log `DurableLog` promises. `call[w]` is the
tool call a goroutine runs, its `pc` the place in the Go function; one action per append,
per access of the approval store and per critical section of `s.mu`. `Rebuild` is the
replay (`rebuildIndex`), as a function of the log, so "what a restart would show" is an
expression. `AppendFails` covers an append that is refused (a poisoned or closed handle, or
an entry too long for what is left of the quota, which leaves the handle usable) and one
that poisons the handle, with the entry stored or not. A text is a model value with
the verdict the scan gives it; the model guard may answer anything. Calls refused before
they hold a claim change nothing and are not steps.

**`Budget`** is one fixed-window counter over `securestore.Replace`: compute the charge,
rename, sync the directory and admit. `survivors` is what the file may be after a power
loss. Each `Take` is given any clock reading.

**`KeyRotation`** is the life of the signing key: `holder` is the process with the lock,
its `pc` the stage of `identity rotate`, `identity revoke` or `serve`. `Chain` is the
closure `localSigningKeys` walks. The peer's pin follows the certificates. The state
starts after `turnwire init`.

**`Approvals`** is the approval store of one message ID, file by file: the record, its
spilled body and the approval, each through the four steps of `securestore.Create`, with
a failure, a death or a power loss between any two. `SavePending`, `Display` and
`Approve` start the work; `Replay` is every place that finds its file already there.

**`PeerConfig`** is `config.json` under `peer add`, `rotate`, `remove` and `init`: load
the file, change it, write it back by a synced rename, or create it in place, where
`Write` and `SyncFile` are the two halves of `prepareAndWriteConfig`. Any two commands may
overlap, two `init` included, since each locks only the audit directory it was given.
`survivors` is what `config.json` may be after a power loss: a directory sync settles which
file has the name, a file sync what is in it.

**`GuardResponse`** is `HTTP.Evaluate` from the provider's answer to a decision or an
error: the checks of the answer, the walk over its output items, the table of
classifications. **`LogQuery`** is `log list`, `show` and `export` entry by entry, against
a definition that sees the whole log.

**`Delivery`** is what two endpoints promise about a message; **`Channel`** composes them:
a sender and a receiver, each reduced to what its service replays from its log (which
`Mailbox`'s `LiveIsReplay` justifies), the agents' papers, two clocks, keys, pins, server
restarts and rotations. A signature is the number of the key that made it.
`ImplementsDelivery` is the refinement.

**`FrameReader`** runs `readFrame` fragment by fragment over a bufio buffer and compares
it with a definition that sees the whole stream. **`RequestLimit`** is the stream between
stdin/stdout and the SDK: admission, busy responses, the output lane. **`ServeShutdown`**
is `Run`, its watcher, `boundedShutdown`, `Service.Shutdown` and `runServe`'s exit.

`Components` instantiates six modules that share no state side by side (`Budget` by
EXTENDS, the others by INSTANCE): one of them, `part`, runs and the others stay where they
start, so the states of its run are the sum of theirs and not the product.
`MCAuditLog`, `MCMailbox`, `MCKeyRotation`, `MCChannel` and `MCComponents` hold the
constants of the small instances. The `*Proofs` modules hold the theorems.
Definitions named in a comment "Mutant of X" are plausible bugs of X; each property is
shown to fail when X is replaced by one of them.

The modules are composed by contract and not by product. `Mailbox` relies on what
`AuditLog` is shown to implement; `Channel` relies on `Mailbox`'s `LiveIsReplay`,
`RequestBinds` and `InboundBinds` at both ends, and on `KeyRotation` for receipts under
earlier keys; `Mailbox` reads and writes whole approval records, which is what `Approvals`
leaves of them, damaged ones included; `ServeShutdown` relies on `Mailbox`'s
`DrainedIsSilent` and `CallsEnd`; `RequestLimit` takes whole frames, which is
`FrameReader`'s `ExactFrames`.

## Runs

All times are a few seconds to about two and a half minutes on two cores.

| Run | Instance | What it shows |
|---|---|---|
| `audit` | a server and a command, two events of different size, quotas 2 and 4 | answered appends survive every failure, death and power loss (`AnsweredIsDurable`); signed heads are never taken back (`CheckpointsHold`); the chain is never broken and a torn tail never extended (`ChainWhole`), the quota never passed (`QuotaRespected`); the log implements `DurableLog` |
| `audit_key` | the same | **violated**: an answered entry can lose the key that decrypts it (finding 1) |
| `mailbox` | two goroutines; either one request ID with three texts, or three envelopes under one ID, two of which an approval cannot tell apart; two starts | one proposal, one message ID and one outcome per request (`RequestBinds`); the first envelope verified under an ID keeps it, and it is accepted once (`InboundBinds`); an answer once given is what every replay gives (`AnswersStand`); a restart is never refused and changes nothing observable (`LiveIsReplay`) |
| `calls` | a sent and a received message with the same ID, one slot for two goroutines, shutdown at any point, fairness | nothing passes but by the evaluation just before it, or by an approval of exactly this message (`Guarded`); claims and slots are exact (`ClaimsExact`); a drained service never writes again (`DrainedIsSilent`); every call ends (`CallsEnd`) |
| `inbox` | two messages, pages of one, `max_concurrent` 1 | an agent that pages with `after_sequence` is given every message (`NothingSkipped`) |
| `inbox_concurrent` | the same with `max_concurrent` 2 | **violated** (finding 2) |
| `components`: budget | six clock readings, window 2, limits 1 and 2 | allowances are a full window apart (`WindowsApart`); an admitted charge survives (`ChargesSurvive`); no admission passes the limit (`NeverBeyondLimit`) |
| `components`: approvals | two savers and an operator, a small and a large review | an approval that counts is of a body shown whole (`ApprovedAsShown`); what was answered survives, unless a call was content with another's unfinished file (`ReviewsStand`) |
| `components`: peers | two processes, three commands, two names, three keys, one certificate | a command that ran alone is all or nothing, and durable once it succeeded, but for two named failures that leave an unreadable file (`SerialOutcome`); whatever overlaps or fails, no pin appears that no operator and no certificate vouched for (`PinsVouched`) |
| `components`: frames | all streams of up to seven bytes, limits 1 to 3, buffers 2 to 4 | frames come out whole and bounded up to the first refused one (`ExactFrames`) |
| `components`: guard | every answer of up to two items, every classification and one unknown | a decision comes only from one proper verdict in a complete answer (`FailsClosed`) |
| `components`: logs | every log of up to four entries of three sizes, limits 1 to 3, three budgets | list and show answer exactly or refuse; an export is whole or was not made (`QueriesExact`) |
| `approvals_durable` | two savers, an operator | **violated** (finding 3) |
| `channel` | one message, age 2, tolerance 1, clocks apart by -2 to 2, five readings, three faults, two rotations, fairness | accepted at most once and confirmed with its own receipt (`ImplementsDelivery`); with clocks apart by at most the tolerance, a released message is confirmed unless its receipt was not handed out while the receiver took the envelope, or grew too old itself (`Delivered`); the receipt of a message that a retry can reach is too old by at most twice the clocks' difference, and can be confirmed if the sender's clock is not ahead and behind by at most the tolerance (`ReceiptOutlivesEnvelope`) |
| `rotation` | three keys, one message, seven entries | `NeverLockedOut`, `PinReachable`, `ReceiptsCurrent`, `RevocationFinal`, `DestructionEvidenced` |
| `request_limit` | three frames, three IDs, two slots, fairness | the SDK never holds more calls than the limit and slots are exact (`CallsAccounted`); `NoFalseDuplicate`, `CallsAnswered` |
| `serve_end` | two calls, one deaf to cancellation, fairness | `LogOutlivesWorkers`, `NoFalseTimeout`, `PeerEndIsClean`, `FailureIsReported`, `TeardownEnds` |

Bounds, and why they are enough.

- `audit`: quota 4 leaves room for two entries of size 2 or three of mixed size, so a
  poisoned entry, its successor by another process and a refusal all fit; two processes
  are all the lock can tell apart.
- `Mailbox`: two goroutines are enough for each pair of calls to race. In `mailbox` a
  behaviour sends or receives (the constraint `OneDirection`); the two meet in the
  approval store only, which is what `calls` is about. An entry with a text or an
  envelope counts two of the quota and any other one; quotas of 16 (`mailbox`)
  and 12 (`calls`) hold a whole send through review, which takes ten with the retry that
  releases it, and also reach the refusals at a log that is full or has room for a short
  entry only; 15 (`inbox`) holds the acceptances of two messages and two listings. The
  two inbox runs are not about reviews, and the constraint `Unreviewed` leaves them out.
  Two starts give a replay of a state that itself followed a replayless one; the invariants compare with the replay of *every*
  reachable log, so a third start adds no new comparison. In `calls` the semaphore has one
  slot so that it binds.
- `rotation`: three keys allow two rotations in a row, one of them interrupted; seven
  entries hold two rotations with a receipt between them, and a revocation.
- `request_limit`: three frames against two slots meet a full stream; three IDs allow a
  reused one beside two others. Frames: the decision depends on at most two bytes on
  either side of a boundary and on whether the limit falls there.
- Approvals: a body and a record, or two records, are all the pairs a death can separate;
  two savers are what the mailbox's claims let meet under one ID. Peers: the second of two
  overlapping commands is what overwrites, a third finds what they left. Logs: four
  entries push one out of a window of three, and a size of 3 against a budget of 2 gives
  up an entry alone.
- `channel`: clocks apart by two are beyond the tolerance of one in both directions.
  Messages do not interact but through the rank of their acceptance, which
  `ChannelProofs` covers for any number. Age 2 against five readings lets either end grow
  too late or stay in time; three faults lose an envelope, a receipt and a server; two
  rotations are two of one end or one of each.
- `SYMMETRY` is used only where the run checks no liveness, over goroutines, over the
  calls that save a review or over the keys a rotation generates, which no definition tells apart.
- Deadlock is checked except where a bound stops the system (the quota and the number of
  starts in `Mailbox`, the number of frames in `RequestLimit`, the clock and the faults in
  `Channel`) or where it has an end of its own: a command or a classification that is
  answered, in `components`.

## Fairness

- `Mailbox`: weak fairness of each call's steps. A goroutine is scheduled; the locks are
  held over no blocking operation but the append itself; a guard call ends by its timeout,
  which is the `GuardFailed` disjunct of the same step. Nothing is assumed of callers,
  operators or restarts.
- `RequestLimit`: weak fairness of the read loop and of the goroutine that writes, since
  the client reads what it is sent; strong fairness of taking `writeMu`, which Go's mutex
  gives by its starvation mode; a failed write is followed by its `Close` in the same
  function.
- `Channel`: an agent asks again for an envelope that is not confirmed and carries what it
  holds, the calls end (`CallsEnd`), operators start a server that is down, install a
  certificate they are handed and restart a server for it (`docs/deployment.md:93`);
  faults are finite. Nothing is assumed of proposals, releases, rotations or the clock.
  The rule of `docs/deployment.md:99`, to complete outbound transfers before rotating
  their source identity, is the guard of `RotateIdentity`: without it `Delivered` fails,
  since an envelope keeps the signature it was released with.
- `ServeShutdown`: goroutines are scheduled, deadlines pass, a closed stream makes the
  blocked read return, a worker that heeds its context ends once it is cancelled (which is
  `CallsEnd`), and the SDK returns when its handlers have. A worker in `Stubborn` is
  assumed nothing of; `TeardownEnds` says that it alone can hold the process, and only
  inside the SDK.

## Proofs

Each theorem holds for every value of the constants that the named assumptions admit.
The small instance of the same formula is the run of the same component.

**`AuditLogProofs`**: `TypeCorrect`, `Durability`, `CheckpointSafety`, `ChainSafety`,
`Refinement` and `QuotaHolds`. That answered entries lie on the durable chain is not
inductive: it needs that a usable handle holds the lock alone and agrees with the file (`HandlesAgree`), that
at most one line is unsynced (`OneUnsyncedLine`), and that a torn file has no usable
handle. `IInv` is their conjunction; the refinement maps each step under it to a
`DurableLog` step or a stutter. `QuotaHolds` is about steps: whatever makes the file grow
is an append of the lock's holder, and a failed write leaves at most what a whole one would.

**`BudgetProofs`**: `Replenishment`, `ChargeDurability`, `LimitKept`. `IInv` adds to the
type that every file a power loss may leave, and the counter in memory, account for all
that was granted (`ChargesSurvive`), and that a charge under way covers one operation
more (`TakeOK`).

**`RequestLimitProofs`**: `TypeCorrect`, `SlotAccounting`, `DuplicatesAreReal`, for every
limit, set of IDs and number of frames. `WithinLimit` bounds pending and responding calls
together; `Accounted` ties them to what the SDK really holds, with the exception of a
refused answer whose stream is not closed yet. For a client that reuses no ID before its
answer, `OnePlace` says that the call of an ID is in one place at a time (in the stream,
with the reader, in a slot or with the writer) and its answer still awaited there, so the
reader never finds the ID pending and no call is refused as a duplicate.

**`KeyRotationProofs`**: `LockoutFree`, `PinsFollow`, `RevocationHolds`,
`DestructionCovered`, `ReceiptsFollow`, `TypeCorrect`, for any number of keys, rotations
and messages. The argument is about `Chain` alone: it grows with the transitions, and a
recorded transition carries over everything the old key continues (`ChainExtends`). `Stages` and `Evidence`
say what is on the disk at each stage, so a key is only put in place behind its
certificate and its entry, and only removed behind its bundle; `Ended` says that a
recorded revocation is the last entry. `Growing` covers every step that does neither.
`ReceiptsFollow` needs `ReceiptInv`: a message is accepted by one entry, and a service
that still appends shows, for every message, what that log says about it.

**`ServeShutdownProofs`**: `LogOutlives`, `TimeoutHonest`, `PeerEndClean`,
`FailureReported`, `TypeCorrect`, for any calls and without fairness. `CauseKnown` relates
the flags of a session's end to its cause; `Drained` says that a shutdown within its
deadline has no workers left and never gets one again; `Taken` that what `wait` took for
the shutdown's result is that result.

**`ChannelProofs`**: `RetriesPay` and `Refinement`, for any messages, ages, tolerances,
faults and rotations, and for any difference between the clocks, of which nothing is
assumed. The refinement needs to know where a receipt
comes from: `PapersTrue` says that every paper the agents hold is the released envelope
of its message or carries its acceptance; `CallsTrue` that a call on its way to accept has
an envelope and no acceptance, so none is accepted twice; `Ordered` that a time stamp is
no later than what follows from it; `Numbered` that two acceptances differ in their rank,
so a receipt stands for one. `RetriesPay` is `Ordered` and arithmetic on the two clocks.
Its second half has a condition on them, a sender's clock that is not ahead and behind by
no more than the tolerance: a sender that is ahead can find a receipt too old while the
receiver still takes the envelope, by up to twice the difference, and one that is further
behind refuses every fresh receipt as one from the future (`confirm.go:29`).

**`MailboxProofs`**: `TypesHold`, `ClaimsHeld`, `DrainHolds`, `RequestsBound`,
`InboundBound`, `AnswersHold`, `LiveReplay`, `GuardHolds`, `PagesComplete`, for any finite
number of goroutines, any requests, texts, message IDs, envelopes and starts, and a log of
any length. The replay is defined over the whole log, and an induction over it is out of
reach; none is needed, because the invariants only ever compare the log with itself and
one more entry. The first part of the module says what an appended entry changes in the
replayed request, envelope, message and confirmation (`Latest`, `At`, `About`). Then one
invariant after the other, each using those before it:

- `TInv` adds to the types which step of which kind of call carries which values.
- `CInv`: the claimed keys are those of the running calls (`ClaimsExact`), and finite.
- `SInv`: `SentOnce` orders the entries of a request; `SendHolds` says what a running call
  knows of it at each step; `RequestsShown` and `SentShown` that the index lags the replay
  only by what a call has appended and not yet published, and `FinalsShown` that a final
  entry of the index is replayed alike even after a failed append. `RequestsBound` is
  `SentOnce`.
- `RInv` is the same for received messages (`Bound`, `ReceiveHolds`, `ReceivedShown`),
  with the inbox, which is the accepted messages but those about to be published
  (`Unpublished`); `KInv` for confirmations. `AnswersHold` follows from the two,
  `LiveReplay` from all three.
- `GInv`: `Evaluated` ties each step of a call to the last scan and the last model verdict
  on its message in the log, so that the entry it appends next finds them just before it.
- `OInv` is for one call at a time: the inbox is in the order of the log and has no gap,
  and a call about to publish holds the one acceptance that is missing. `PagesComplete`
  therefore assumes `MaxConcurrent = 1`, as `inbox` does; with 2, `inbox_concurrent` is the
  counterexample (finding 2).

**`ComponentsProofs`**: `ApprovalsShown`, `ReviewsDurable`, `GuardFailsClosed`,
`KeysVouched`, `CommandsAtomic`, `FramesExact`, `QueriesAnswered`, for any servers,
operators, reviews, commands, names and keys, any answer of the provider of any length,
any stream, limit and buffer, and any log, limit and memory.

- `StoreInv` for the approvals: whoever writes a file made it and writes it alone
  (`WritersOwn`); an approval, and what an operator is about to write, was shown whole
  (`ShownWhole`); and, as long as no call was content with a file another one had not
  finished, a record has its body durable before it (`BodiesFirst`) and what was answered
  stands (`AnsweredStands`).
- `AnswerInv` for the guard: while nothing is decided, the items seen hold at most one
  verdict, a proper one, and it is the one found. Exactly one is then found at the end.
- `PeerInv` for the pins: every pin of a complete file, and of what a running command is
  about to write, is in each set that holds the operators' commands and is closed under
  certificates (`VouchedInv`); a command that started alone is still alone, and `Reached`
  says what file it finds, and what may survive a power loss, at each of its steps
  (`SerialInv`), also when the file it loaded was never synced (`settled`). `PinsVouched`
  and `SerialOutcome` follow from the two.
- `FrameInv` for the frames: what was given is the first lines of the stream, what is held
  is the stream from the end of the last of them to where it was read, without a line feed
  (`Collecting`), and an error is that of the line after them (`Exact`). The lines of a
  stream are defined by counting their ends, so that the next one is the line that ends
  next (`NextLine`); a fragment refused before the end of its line is known leaves a line
  that is too large whatever follows (`UnfitIsTooLarge`).
- `LogInv` for the queries: `ListKeeps` says that `list` holds an end of what was selected
  so far, as long as the limit allows but for the last entry given up for its size, and
  that this one does not fit together with those after it. `VisitKeeps` carries it over an
  entry, and `ListAnswers` concludes that the newest entries asked for are all held, or
  do not fit. `ShowKeeps` and `Written` do the same for `show` and `export`.
  `Selection` and `Bytes` are recursive functions over the walk; that they exist, and what
  they do one entry further, is shown by induction over sets of positions (`UpTo`).

Only model-checked: the liveness properties (`CallsEnd`, `CallsAnswered`, `TeardownEnds`,
`Delivered`), which need fairness and ENABLED.

Taken as given: a successful fsync makes everything written durable and a directory sync
every rename and unlink; `flock` excludes; hashes do not collide and signatures are not
forged; `newID` is fresh; the SDK stops reading at its first error, answers each call
once and returns no later than its handlers.

## Findings

1. `audit_key` (`audit/audit.go:179`). The comment at line 133 says that the syncs at
   open complete "recovery after a prior interrupted initialization". That is so for
   `audit.jsonl`. `audit.key`, created beside it, is never synced again when it already
   exists: a process that died between writing the key and syncing it leaves a key the
   next one uses as it is, and entries answered as durable can lose it to a power loss.
2. `inbox_concurrent` (`mailbox/receive.go:111`). The acceptance and its publication in
   the inbox are two critical sections. With more than one call at a time two messages
   can be published in the other order than they were sequenced; an agent that lists in
   between and goes on from the highest sequence it was given never gets the earlier one.
3. `approvals_durable` (`approval/approval.go:142`). When the record is already there,
   `SavePending` compares it and reports success; nothing syncs what an earlier call wrote
   and, failing or dying before its fsync, did not. The comment at line 78 says that
   `SavePending` durably stores the request. A power loss then leaves an empty record,
   which cannot be replaced; `Approve` and the spilled body have the same gap.
   `ReviewsStand` shows that it is the only one.

`config.json` has the same gap, where nothing in the repository promises otherwise: an
`init` that dies between its write and its fsync (`config/write_secure_unix.go:181`) leaves
a complete file, the next peer command loads it and syncs the directory alone
(`config/open_unix.go:44`), and if that command fails before its rename a power loss may
leave a file that no command can load. `SerialOutcome` excepts exactly this and the
failure of an `init` that was itself to create the file.

## What the models leave out

- `Mailbox`: the reason code older logs lack, and its fallback at replay; the byte bound
  of an inbox page, for which `PageLimit` stands; message age, which is `Channel`'s;
  budgets, which only refuse before the claim.
- `KeyRotation`: creating a key again after a revocation; `identity show` and `doctor`,
  which print a key before it has been used; a peer's operator is handed a certificate
  only for a key that the endpoint has announced.
- `Channel`: two directions at once, whose messages have nothing in common but the keys; a
  peer that is removed; drift between the clocks. That a message can be accepted and then
  never confirmed, because no receipt was handed out before the envelope grew too old, is
  in the model; `Delivered` excuses it and shows that it is the only such outcome, with
  that of a receipt that grew too old under way.
- `AuditLog`: an `audit.key` of 16 or 24 bytes, which `aes.NewCipher` takes as well as one
  of 32: such a key decrypts nothing in a log that has entries, so it counts as partial
  there, and in an empty log as a key like any other.
- An interrupted `securestore.Create` leaves a record nothing can replace, and a message
  that needs it stays refused. `Approvals` and `Mailbox` have that state; no property
  says it ends, for it does not.
- `PeerConfig`: everything in the file but the peers. An update lost between two
  overlapping commands is in the model and breaks no property: nothing promises otherwise.
- `Approvals`: `IsApproved`, which is `Mailbox`'s; names and sizes.
- `LogQuery`: `verify`, which is the scan of `AuditLog` with nothing kept; what a redacted
  line contains.
- `ServeShutdown`: what calls do, and a second signal. A `Close` of the stream may itself
  fail, which is recorded as a transport error here and in `RequestLimit`.
- Not modelled: parsing, formatting and permissions, attestation and `doctor` (no protocol
  state); the guard's patterns and its HTTP client (any failure is allowed).

## Plan

Done, in this order: `AuditLog` with `DurableLog` and its proofs; `Mailbox`; `Budget` and
proofs; `RequestLimit` and proofs; `FrameReader`; `ServeShutdown` and proofs;
`KeyRotation` and proofs; `Channel` with `Delivery` and proofs; `PeerConfig`,
`Approvals`, `LogQuery`, `GuardResponse`. Then the proofs of `NoFalseDuplicate`,
`QuotaRespected` and `ReceiptsCurrent`, and those about `Mailbox`, `Approvals`,
`GuardResponse`, `PeerConfig`, `FrameReader` and `LogQuery`. To come:

1. Type correctness of the modules whose proofs state it only inside their invariant.
