----------------------------- MODULE PeerConfig -----------------------------
(***************************************************************************)
(* The peers an endpoint pins: config.json under the peer and init         *)
(* commands of internal/cli, through config.Load and config.Write.         *)
(*                                                                         *)
(* A peer command loads the whole file, changes one peer and writes the    *)
(* whole file back by rename; init creates the file in place, or replaces  *)
(* it when forced.  Nothing keeps two peer commands apart.  A command may  *)
(* fail or die between any two steps, and a power loss takes back each     *)
(* directory change no directory sync followed.                            *)
(*                                                                         *)
(* Abstracted: of the configuration only the peers matter.  A version of   *)
(* the file has the number of the run that wrote it, for the inode that    *)
(* os.SameFile compares; an inode init has not synced yet has the versions *)
(* of before and after its writes.  Temporary files have names of their    *)
(* own and are synced before the rename, so they are no part of the state. *)
(***************************************************************************)
EXTENDS Integers

CONSTANTS
    Cmd,          \* processes that run a command
    Name, Key,    \* peer names and their public keys
    Offered,      \* keys operators may name in peer add: [name, key]
    Cert,         \* rotation certificates signed by both keys: [name, prev, new]
    None,         \* no pin, no file
    Partial,      \* the pins of a file that is not completely written
    MaxRuns       \* bound: commands run

VARIABLES
    file,         \* config.json as reads see it: None or [by, pins]
    survivors,    \* what it may be after a power loss
    proc,         \* proc[c]: the command c runs
    runs,         \* commands run so far
    last,         \* history: how the last command ended that opened the directory
    granted       \* history: keys an operator named in peer add: [name, key]

vars == <<file, survivors, proc, runs, last, granted>>

Pins == [Name -> Key \cup {None}]
File == [by : Nat, pins : Pins \cup {Partial}]
NoPins == [n \in Name |-> None]

PeerConfigAssumption ==
    /\ Offered \subseteq [name : Name, key : Key]
    /\ Cert \subseteq [name : Name, prev : Key, new : Key]
    /\ None \notin Key
    /\ Partial \notin Pins
    /\ None \notin File
    /\ MaxRuns \in Nat

Version(by, pins) == [by |-> by, pins |-> pins]
Complete(v) == v # None /\ v.pins # Partial

\* os.SameFile: v and w are versions of one inode.
SameFile(v, w) == v # None /\ w # None /\ v.by = w.by

\* What is read of config.json is all that a power loss can leave of it.
Settled == \A v \in survivors : SameFile(v, file) => v = file

\* What may survive once the directory is synced: the inode that has the name now.
\* A directory's sync says nothing of the file's contents.
DirectorySynced ==
    IF file = None THEN {None} ELSE {v \in survivors : SameFile(v, file)}

-----------------------------------------------------------------------------
(* The operations, on the pins they load.                                  *)

Add(n, k) == [type |-> "add", name |-> n, key |-> k, prev |-> None]
Rotate(c) == [type |-> "rotate", name |-> c.name, key |-> c.new, prev |-> c.prev]
Remove(n) == [type |-> "remove", name |-> n, key |-> None, prev |-> None]

Operations ==
    {Add(o.name, o.key) : o \in Offered} \cup {Rotate(c) : c \in Cert}
        \cup {Remove(n) : n \in Name}

\* Mutant of Allowed: VerifyRotation takes any certificate of the peer.
AllowedAnyRotation(op, pins) ==
    CASE op.type = "add"    -> pins[op.name] = None
      [] op.type = "rotate" -> pins[op.name] # None
      [] op.type = "remove" -> pins[op.name] # None

\* add wants a new name; rotate a certificate for the key that is pinned;
\* remove a name that is there.
Allowed(op, pins) ==
    CASE op.type = "add"    -> pins[op.name] = None
      [] op.type = "rotate" -> pins[op.name] = op.prev
      [] op.type = "remove" -> pins[op.name] # None

Apply(op, pins) == [pins EXCEPT ![op.name] = op.key]

-----------------------------------------------------------------------------
(* Commands.                                                               *)

Idle == [pc |-> "idle", run |-> 0, kind |-> "none", before |-> NoPins,
         after |-> NoPins, settled |-> TRUE, alone |-> TRUE]
Running == {c \in Cmd : proc[c] # Idle}

NoCommand == [ok |-> FALSE, kind |-> "none", before |-> NoPins, after |-> NoPins,
              settled |-> TRUE, alone |-> FALSE]

Init ==
    /\ file = None
    /\ survivors = {None}
    /\ proc = [c \in Cmd |-> Idle]
    /\ runs = 0
    /\ last = NoCommand
    /\ granted = {}

\* A command begins: it is alone until another one runs beside it.
Begin(c, kind, pc, before, after) ==
    /\ proc[c] = Idle
    /\ runs < MaxRuns
    /\ runs' = runs + 1
    /\ proc' = [d \in Cmd |->
           IF d = c
           THEN [pc |-> pc, run |-> runs + 1, kind |-> kind, before |-> before,
                 after |-> after, settled |-> Settled, alone |-> Running = {}]
           ELSE [proc[d] EXCEPT !.alone = proc[d] = Idle]]

\* config.Load: no file at the default path is the default configuration; a
\* partial one refuses the command.
Loaded == IF file = None THEN NoPins ELSE file.pins

\* peer add, rotate, remove: what is loaded here is written back later.
BeginPeer(c, op) ==
    /\ file = None \/ Complete(file)
    /\ Allowed(op, Loaded)
    /\ Begin(c, "peer", "open", Loaded, Apply(op, Loaded))
    /\ granted' = IF op.type = "add"
                  THEN granted \cup {[name |-> op.name, key |-> op.key]}
                  ELSE granted
    /\ UNCHANGED <<file, survivors, last>>

\* init locks the audit directory it was given; another one with another
\* --data-dir can write the same configuration.
BeginInit(c, kind) ==
    /\ kind \in {"init", "init --force"}
    /\ Begin(c, kind, "open", IF file = None THEN NoPins ELSE file.pins, NoPins)
    /\ UNCHANGED <<file, survivors, last, granted>>

Goes(c, pc) == proc' = [proc EXCEPT ![c].pc = pc]

Outcome(c, ok) ==
    [ok |-> ok, kind |-> proc[c].kind, before |-> proc[c].before,
     after |-> proc[c].after, settled |-> proc[c].settled, alone |-> proc[c].alone]

\* The command returns or dies.
End(c, ok) ==
    /\ proc' = [proc EXCEPT ![c] = Idle]
    /\ last' = Outcome(c, ok)

\* OpenDirectoryPathDurable syncs what earlier commands left unsynced; without
\* --force an existing file ends init.
OpenParent(c) ==
    /\ proc[c].pc = "open"
    /\ \/ proc[c].kind # "init" /\ Goes(c, "replace")
       \/ proc[c].kind = "init" /\ file = None /\ Goes(c, "create")
    /\ survivors' = DirectorySynced
    /\ UNCHANGED <<file, runs, last, granted>>

\* Nothing was opened, or init found a file in the directory it had synced.
GiveUp(c) ==
    /\ proc[c].pc = "open"
    /\ proc' = [proc EXCEPT ![c] = Idle]
    /\ survivors' \in {survivors, DirectorySynced}
    /\ UNCHANGED <<file, runs, last, granted>>

-----------------------------------------------------------------------------
(* replaceConfigAt.                                                        *)

\* The temporary file, written and synced, is renamed over config.json.
Rename(c) ==
    /\ proc[c].pc = "replace"
    /\ file' = Version(proc[c].run, proc[c].after)
    /\ survivors' = survivors \cup {file'}
    /\ Goes(c, "check")
    /\ UNCHANGED <<runs, last, granted>>

\* The file that has the name now is the one this command renamed.
Verify(c) ==
    /\ proc[c].pc = "check"
    /\ file # None /\ file.by = proc[c].run
    /\ Goes(c, "sync")
    /\ UNCHANGED <<file, survivors, runs, last, granted>>

\* The directory is synced and success reported.
SyncDirectory(c) ==
    /\ proc[c].pc = "sync"
    /\ survivors' = DirectorySynced
    /\ End(c, TRUE)
    /\ UNCHANGED <<file, runs, granted>>

\* An error before the rename removes the temporary file; one after it is
\* reported although the new configuration is in place.
ReplaceFails(c) ==
    /\ proc[c].kind # "init"
    /\ proc[c].pc \in {"replace", "check", "sync"}
    /\ End(c, FALSE)
    /\ UNCHANGED <<file, survivors, runs, granted>>

-----------------------------------------------------------------------------
(* createConfigAt.                                                         *)

Create(c) ==
    /\ proc[c].pc = "create"
    /\ file = None
    /\ file' = Version(proc[c].run, Partial)
    /\ survivors' = survivors \cup {file'}
    /\ Goes(c, "fill")
    /\ UNCHANGED <<runs, last, granted>>

Mine(c, v) == v # None /\ v.by = proc[c].run
Filled(c) == Version(proc[c].run, proc[c].after)

\* The contents are written, in the file this run created, whatever has its name
\* now: reads see them, a power loss may take them back.
Write(c) ==
    /\ proc[c].pc = "fill"
    /\ file' = IF Mine(c, file) THEN Filled(c) ELSE file
    /\ survivors' = survivors \cup {Filled(c) : v \in {w \in survivors : Mine(c, w)}}
    /\ Goes(c, "fsync")
    /\ UNCHANGED <<runs, last, granted>>

\* Mutant of SyncFile: the file is closed without the sync.
SyncFileSkipped(c) ==
    /\ proc[c].pc = "fsync"
    /\ Goes(c, "sync")
    /\ UNCHANGED <<file, survivors, runs, last, granted>>

\* The file is synced: wherever it survives, it is complete.
SyncFile(c) ==
    /\ proc[c].pc = "fsync"
    /\ survivors' = {IF Mine(c, v) THEN Filled(c) ELSE v : v \in survivors}
    /\ Goes(c, "sync")
    /\ UNCHANGED <<file, runs, last, granted>>

\* The file was not created, because another command did it first for one; an error
\* after that unlinks config.json by its name.
CreateFails(c) ==
    /\ proc[c].kind = "init"
    /\ \/ proc[c].pc = "create" /\ UNCHANGED <<file, survivors>>
       \/ /\ proc[c].pc \in {"fill", "fsync", "sync"}
          /\ file' = None
          /\ survivors' = survivors \cup {None}
    /\ End(c, FALSE)
    /\ UNCHANGED <<runs, granted>>

-----------------------------------------------------------------------------

\* Commands that have opened the directory.
AtWork == {c \in Cmd : proc[c].pc \notin {"idle", "open"}}

\* The process dies where it is.
Dies(c) ==
    /\ c \in AtWork
    /\ End(c, FALSE)
    /\ UNCHANGED <<file, survivors, runs, granted>>

\* Every process dies, and the directory is what its last sync left or anything
\* later.
PowerLoss ==
    /\ file' \in survivors
    /\ survivors' = {file'}
    /\ proc' = [c \in Cmd |-> Idle]
    /\ last' = IF AtWork = {} THEN last ELSE Outcome(CHOOSE c \in AtWork : TRUE, FALSE)
    /\ UNCHANGED <<runs, granted>>

Next ==
    \/ \E c \in Cmd :
           \/ \E op \in Operations : BeginPeer(c, op)
           \/ \E kind \in {"init", "init --force"} : BeginInit(c, kind)
           \/ OpenParent(c) \/ GiveUp(c)
           \/ Rename(c) \/ Verify(c) \/ SyncDirectory(c) \/ ReplaceFails(c)
           \/ Create(c) \/ Write(c) \/ SyncFile(c) \/ CreateFails(c)
           \/ Dies(c)
    \/ PowerLoss

Spec == Init /\ [][Next]_vars

-----------------------------------------------------------------------------
(* Properties.                                                             *)

PinsOf(v) == IF v = None THEN NoPins ELSE v.pins

\* config.Write: a command that no other one overlapped leaves, on every disk a
\* power loss may make of it, exactly its update of what it loaded if it reported
\* success, and otherwise its update or what it loaded.  Two failures leave a file
\* that cannot be read: that of an init that was to create it, and that of a
\* command that loaded what a dead init had written but not synced, for the
\* directory's sync at open_unix.go:44 does not make up for the file's.
SerialOutcome ==
    AtWork = {} /\ last.alone =>
        \A v \in survivors :
            IF last.ok THEN Complete(v) /\ v.pins = last.after
            ELSE \/ PinsOf(v) \in {last.before, last.after}
                 \/ (last.kind = "init" \/ ~ last.settled) /\ PinsOf(v) = Partial

\* S holds what operators named and, with a key, the one a certificate leads to.
Closed(S) ==
    /\ granted \subseteq S
    /\ \A c \in Cert : [name |-> c.name, key |-> c.prev] \in S =>
                         [name |-> c.name, key |-> c.new] \in S

\* runPeerAdd, runPeerRotate and config.Write: also when commands overwrite each
\* other's updates, fail, die or lose power, no file ever pins a key for a peer
\* that no operator added and no certificate leads to from one that was added.
PinsVouched ==
    \A S \in SUBSET [name : Name, key : Key] : Closed(S) =>
        \A v \in survivors \cup {file}, n \in Name :
            Complete(v) /\ v.pins[n] # None => [name |-> n, key |-> v.pins[n]] \in S
=============================================================================
