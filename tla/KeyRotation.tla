---------------------------- MODULE KeyRotation -----------------------------
(***************************************************************************)
(* The life of an endpoint's signing key: internal/identity, the identity  *)
(* and checkpoint commands, the part of internal/mailbox that proves old   *)
(* receipts under a new key, and the pin a peer's configuration holds.     *)
(*                                                                         *)
(* Rotation and revocation touch three places a crash can separate: the    *)
(* certificate file, the audit log and the key file.  Every write to each  *)
(* is a step; a command may fail or die between any two, and a power loss  *)
(* takes back a rename or an unlink that no directory sync followed.       *)
(*                                                                         *)
(* Abstracted: a private key and its public key are one value; a signature *)
(* is the name of its signer, so certificates are valid by construction;   *)
(* an append of a failed command is stored or not (see AuditLog); receiving *)
(* a message is its acceptance and its acknowledgement (see Mailbox).  The *)
(* state starts where `turnwire init' ends.                                *)
(***************************************************************************)
EXTENDS Integers, Sequences

CONSTANTS
    Key,          \* signing keys
    FirstKey,     \* the one init created
    Msg,          \* messages of the peer
    Quota,        \* entries the audit quota admits
    None          \* no key, no pin, no value

ASSUME RotationAssumption ==
    /\ FirstKey \in Key
    /\ None \notin Key
    /\ Quota \in Nat

VARIABLES
    keyFile,      \* identity.ed25519
    survivors,    \* what it may be after a power loss
    certs,        \* rotation certificates written to files: [prev, new]
    bundles,      \* revocation bundles: [key, seq], seq the checkpoint's
    log,          \* the audit log
    holder,       \* the process that holds the audit lock
    index,        \* its s.received, while it serves
    announced,    \* history: public keys the endpoint gave out as its own
    pin           \* the endpoint's key in the peer's configuration

vars == <<keyFile, survivors, certs, bundles, log, holder, index, announced,
          pin>>

keys == <<keyFile, survivors>>
evidence == <<certs, bundles>>

-----------------------------------------------------------------------------
(* Entries, and the chain of keys they prove.                              *)

EntryOf(type, key) == [type |-> type, key |-> key, prev |-> None, msg |-> None, seq |-> 0]

Prepared(prev, new) == [EntryOf("identity_rotation_prepared", new) EXCEPT !.prev = prev]
Rotated(new) == EntryOf("identity_rotated", new)
Revoking(key) == EntryOf("identity_revocation_prepared", key)
Revoked(key) == EntryOf("identity_revoked", key)
Started(key) == EntryOf("service_started", key)
Accepted(m) == [EntryOf("inbound_accepted", None) EXCEPT !.msg = m]
AckIssued(m, key, seq) ==
    [type |-> "acknowledgement_issued", key |-> key, prev |-> None, msg |-> m, seq |-> seq]

Types(S) == {i \in 1..Len(log) : log[i].type \in S}

\* The keys from which transitions T lead to k, k among them.
Chain(T, k) ==
    {a \in Key : \A S \in SUBSET Key :
        k \in S /\ (\A t \in T : t.new \in S => t.prev \in S) => a \in S}

Transitions == {[prev |-> log[i].prev, new |-> log[i].key] :
                   i \in Types({"identity_rotation_prepared"})}

\* localSigningKeys: the keys whose receipts a service with key k verifies.
LocalSigningKeys(k) == Chain(Transitions, k)

\* rebuildIndex returns no error: every stored receipt verifies.
ReplayVerifies(k) ==
    \A i \in Types({"acknowledgement_issued"}) : log[i].key \in LocalSigningKeys(k)

AcceptedAt(m) == {i \in Types({"inbound_accepted"}) : log[i].msg = m}
LastAck(m) == {i \in Types({"acknowledgement_issued"}) :
                  /\ log[i].msg = m
                  /\ \A j \in Types({"acknowledgement_issued"}) :
                         log[j].msg = m => j <= i}

Unknown == [seq |-> 0, ack |-> None]

\* Mutant of RebuiltReceived: the stored receipt, whoever signed it.
RebuiltHistorical(m, k) ==
    IF AcceptedAt(m) = {} THEN Unknown
    ELSE [seq |-> CHOOSE i \in AcceptedAt(m) : TRUE,
          ack |-> IF LastAck(m) = {} THEN None
                  ELSE log[CHOOSE i \in LastAck(m) : TRUE].key]

\* The record New rebuilds for a message: its acceptance, and its receipt only
\* if the present key signed it.
RebuiltReceived(m, k) ==
    IF AcceptedAt(m) = {} THEN Unknown
    ELSE [seq |-> CHOOSE i \in AcceptedAt(m) : TRUE,
          ack |-> IF \E i \in LastAck(m) : log[i].key = k THEN k ELSE None]

-----------------------------------------------------------------------------
(* The lock and the log.                                                   *)

Nobody == [pc |-> "none", key |-> None, new |-> None, failed |-> FALSE]
NoIndex == [m \in Msg |-> Unknown]

CanAppend == Len(log) < Quota /\ ~ holder.failed

Goes(pc) == holder' = [holder EXCEPT !.pc = pc]

\* The process returns or dies: its lock is gone, and its memory.
Leave ==
    /\ holder' = Nobody
    /\ index' = NoIndex

\* Opening the audit log takes the lock and syncs the directory the key file
\* is in as well.
Lock ==
    /\ holder = Nobody
    /\ survivors' = {keyFile}

\* A command or a service starts: lock, room in the log, a key.
Open(pc) ==
    /\ Lock
    /\ Len(log) < Quota
    /\ keyFile # None
    /\ holder' = [Nobody EXCEPT !.pc = pc, !.key = keyFile]
    /\ UNCHANGED <<keyFile, evidence, log, index, announced, pin>>

\* It gives up after taking the lock: no room, no key, or any later error
\* before it has written anything.
OpenFails ==
    /\ Lock
    /\ UNCHANGED <<keyFile, evidence, log, holder, index, announced, pin>>

\* turnwire checkpoint: signs the head and prints it with the public key.
Checkpoint ==
    /\ Lock
    /\ keyFile # None
    /\ announced' = announced \cup {keyFile}
    /\ UNCHANGED <<keyFile, evidence, log, holder, index, pin>>

-----------------------------------------------------------------------------
(* turnwire identity rotate.                                               *)

\* GenerateKey: a key nobody has seen.
FreshKeys ==
    Key \ (survivors \cup {c.new : c \in certs} \cup {t.new : t \in Transitions}
             \cup {FirstKey})

\* PrepareRotation: both keys sign the transition; nothing is changed.
PrepareRotation ==
    /\ holder.pc = "rotate"
    /\ \E new \in FreshKeys :
           holder' = [holder EXCEPT !.pc = "certify", !.new = new]
    /\ UNCHANGED <<keys, evidence, log, index, announced, pin>>

\* The transition as PrepareRotation had both keys sign it.
Certificate == [prev |-> holder.key, new |-> holder.new]

\* Mutant of WriteCertificate: its error is not looked at.
WriteCertificateUnchecked ==
    /\ holder.pc = "certify"
    /\ certs' \in {certs, certs \cup {Certificate}}
    /\ Goes("record")
    /\ UNCHANGED <<keys, bundles, log, index, announced, pin>>

\* writeLifecycleCertificate: written, synced, its directory synced.
WriteCertificate ==
    /\ holder.pc = "certify"
    /\ certs' = certs \cup {Certificate}
    /\ Goes("record")
    /\ UNCHANGED <<keys, bundles, log, index, announced, pin>>

\* It fails and removes the file, or dies and may leave it.
WriteCertificateFails ==
    /\ holder.pc = "certify"
    /\ certs' \in {certs, certs \cup {Certificate}}
    /\ Leave
    /\ UNCHANGED <<keys, bundles, log, announced, pin>>

\* Mutant of RecordPrepared: the rotation goes on when the append failed.
RecordPreparedUnchecked ==
    /\ holder.pc = "record"
    /\ CanAppend
    /\ log' \in {log, Append(log, Prepared(holder.key, holder.new))}
    /\ Goes("replace")
    /\ UNCHANGED <<keys, evidence, index, announced, pin>>

RecordPrepared ==
    /\ holder.pc = "record"
    /\ CanAppend
    /\ log' = Append(log, Prepared(holder.key, holder.new))
    /\ Goes("replace")
    /\ UNCHANGED <<keys, evidence, index, announced, pin>>

\* RotationPlan.Commit up to the rename: only if the key is still the one the
\* certificate names.
ReplaceKey ==
    /\ holder.pc = "replace"
    /\ keyFile = holder.key
    /\ keyFile' = holder.new
    /\ survivors' = survivors \cup {holder.new}
    /\ Goes("replaced")
    /\ UNCHANGED <<evidence, log, index, announced, pin>>

\* The directory sync that ends Replace.
SyncReplaced ==
    /\ holder.pc = "replaced"
    /\ survivors' = {keyFile}
    /\ Goes("conclude")
    /\ UNCHANGED <<keyFile, evidence, log, index, announced, pin>>

\* The completion is recorded and the command reports success.
RecordRotated ==
    /\ holder.pc = "conclude"
    /\ CanAppend
    /\ log' = Append(log, Rotated(holder.new))
    /\ announced' = announced \cup {holder.new}
    /\ Leave
    /\ UNCHANGED <<keys, evidence, pin>>

-----------------------------------------------------------------------------
(* turnwire identity revoke.                                               *)

RecordRevoking ==
    /\ holder.pc = "revoke"
    /\ CanAppend
    /\ log' = Append(log, Revoking(holder.key))
    /\ Goes("bundle")
    /\ UNCHANGED <<keys, evidence, index, announced, pin>>

\* Mutant of WriteBundle: the checkpoint is taken before the prepared entry.
WriteBundleEarlier ==
    /\ holder.pc = "bundle"
    /\ bundles' = bundles \cup {[key |-> holder.key, seq |-> Len(log) - 1]}
    /\ Goes("delete")
    /\ UNCHANGED <<keys, certs, log, index, announced, pin>>

\* The signed revocation, and with it a checkpoint of the present head.
Bundle == [key |-> holder.key, seq |-> Len(log)]

WriteBundle ==
    /\ holder.pc = "bundle"
    /\ bundles' = bundles \cup {Bundle}
    /\ Goes("delete")
    /\ UNCHANGED <<keys, certs, log, index, announced, pin>>

WriteBundleFails ==
    /\ holder.pc = "bundle"
    /\ bundles' \in {bundles, bundles \cup {Bundle}}
    /\ Leave
    /\ UNCHANGED <<keys, certs, log, announced, pin>>

\* RevocationPlan.Commit: the file is unlinked ...
DeleteKey ==
    /\ holder.pc = "delete"
    /\ keyFile = holder.key
    /\ keyFile' = None
    /\ survivors' = survivors \cup {None}
    /\ Goes("deleted")
    /\ UNCHANGED <<evidence, log, index, announced, pin>>

\* Mutant of SyncDeleted: Delete returns without the directory sync.
DeletedUnsynced ==
    /\ holder.pc = "deleted"
    /\ Goes("farewell")
    /\ UNCHANGED <<keys, evidence, log, index, announced, pin>>

\* ... and the directory synced.
SyncDeleted ==
    /\ holder.pc = "deleted"
    /\ survivors' = {keyFile}
    /\ Goes("farewell")
    /\ UNCHANGED <<keyFile, evidence, log, index, announced, pin>>

RecordRevoked ==
    /\ holder.pc = "farewell"
    /\ CanAppend
    /\ log' = Append(log, Revoked(holder.key))
    /\ Leave
    /\ UNCHANGED <<keys, evidence, announced, pin>>

-----------------------------------------------------------------------------
(* turnwire serve, as far as it signs.                                     *)

\* The deployment is attested under the public key.
Attest ==
    /\ holder.pc = "serve"
    /\ CanAppend
    /\ log' = Append(log, Started(holder.key))
    /\ Goes("replay")
    /\ UNCHANGED <<keys, evidence, index, announced, pin>>

\* New rebuilds the index; a receipt it cannot verify refuses the start.
Replay ==
    /\ holder.pc = "replay"
    /\ ReplayVerifies(holder.key)
    /\ index' = [m \in Msg |-> RebuiltReceived(m, holder.key)]
    /\ announced' = announced \cup {holder.key}
    /\ Goes("serving")
    /\ UNCHANGED <<keys, evidence, log, pin>>

\* Receive accepts a message it has not seen.
Accept(m) ==
    /\ holder.pc = "serving"
    /\ CanAppend
    /\ index[m].seq = 0
    /\ log' = Append(log, Accepted(m))
    /\ index' = [index EXCEPT ![m].seq = Len(log) + 1]
    /\ UNCHANGED <<keys, evidence, holder, announced, pin>>

\* issueAcknowledgement, at once or when the message is delivered again: the
\* original acceptance, signed with the present key.
IssueAck(m) ==
    /\ holder.pc = "serving"
    /\ CanAppend
    /\ index[m].seq > 0 /\ index[m].ack = None
    /\ log' = Append(log, AckIssued(m, holder.key, index[m].seq))
    /\ index' = [index EXCEPT ![m].ack = holder.key]
    /\ UNCHANGED <<keys, evidence, holder, announced, pin>>

-----------------------------------------------------------------------------
(* Failures.                                                               *)

\* What the holder may be appending.
Appending ==
    CASE holder.pc = "record"   -> {Prepared(holder.key, holder.new)}
      [] holder.pc = "conclude" -> {Rotated(holder.new)}
      [] holder.pc = "revoke"   -> {Revoking(holder.key)}
      [] holder.pc = "farewell" -> {Revoked(holder.key)}
      [] holder.pc = "serve"    -> {Started(holder.key)}
      [] holder.pc = "serving"  ->
             {Accepted(m) : m \in {n \in Msg : index[n].seq = 0}}
               \cup {AckIssued(m, holder.key, index[m].seq) :
                        m \in {n \in Msg : index[n].seq > 0 /\ index[n].ack = None}}
      [] OTHER -> {}

\* A service whose append fails keeps running on a log that takes no more.
ServiceAppendFails ==
    /\ holder.pc = "serving"
    /\ CanAppend
    /\ \E e \in Appending : log' \in {log, Append(log, e)}
    /\ holder' = [holder EXCEPT !.failed = TRUE]
    /\ UNCHANGED <<keys, evidence, index, announced, pin>>

\* A command whose append fails returns; so does a service that cannot attest.
CommandAppendFails ==
    /\ holder.pc # "serving"
    /\ CanAppend
    /\ \E e \in Appending : log' = Append(log, e)
    /\ Leave
    /\ UNCHANGED <<keys, evidence, announced, pin>>

\* The process returns with an error, a refused append or a failed sync among
\* them, is stopped or dies.
Exit ==
    /\ holder # Nobody
    /\ Leave
    /\ UNCHANGED <<keys, evidence, log, announced, pin>>

PowerLoss ==
    /\ \E k \in survivors : keyFile' = k /\ survivors' = {k}
    /\ Leave
    /\ UNCHANGED <<evidence, log, announced, pin>>

-----------------------------------------------------------------------------
(* The peer's operator, who is handed the certificate of a key that the    *)
(* endpoint has announced, and commands of the peer's own.                 *)

\* writeUpdatedConfig replaces the peer's configuration file.
WritePin(p) ==
    /\ pin' = p
    /\ UNCHANGED <<keys, evidence, log, holder, index, announced>>

\* turnwire peer rotate: VerifyRotation, against the key pinned now.
PeerRotate(c) ==
    /\ c.new \in announced
    /\ c.prev = pin /\ c.new # c.prev
    /\ WritePin(c.new)

PeerAdd(k) == pin = None /\ WritePin(k)

PeerRemove == pin # None /\ WritePin(None)

Init ==
    /\ keyFile = FirstKey
    /\ survivors = {FirstKey}
    /\ certs = {}
    /\ bundles = {}
    /\ log = << >>
    /\ holder = Nobody
    /\ index = NoIndex
    /\ announced = {FirstKey}
    /\ pin = FirstKey

Next ==
    \/ \E pc \in {"rotate", "revoke", "serve"} : Open(pc)
    \/ OpenFails
    \/ Checkpoint
    \/ PrepareRotation
    \/ WriteCertificate
    \/ WriteCertificateFails
    \/ RecordPrepared
    \/ ReplaceKey
    \/ SyncReplaced
    \/ RecordRotated
    \/ RecordRevoking
    \/ WriteBundle
    \/ WriteBundleFails
    \/ DeleteKey
    \/ SyncDeleted
    \/ RecordRevoked
    \/ Attest
    \/ Replay
    \/ \E m \in Msg : Accept(m) \/ IssueAck(m)
    \/ ServiceAppendFails
    \/ CommandAppendFails
    \/ Exit
    \/ PowerLoss
    \/ \E c \in certs : PeerRotate(c)
    \/ \E k \in announced : PeerAdd(k)
    \/ PeerRemove

Spec == Init /\ [][Next]_vars

-----------------------------------------------------------------------------
(* Properties.                                                             *)

EntryType == {"identity_rotation_prepared", "identity_rotated", "identity_revoked",
              "identity_revocation_prepared", "service_started", "inbound_accepted",
              "acknowledgement_issued"}
Entry == [type : EntryType, key : Key \cup {None}, prev : Key \cup {None},
          msg : Msg \cup {None}, seq : Nat]
Transition == [prev : Key, new : Key]
Pc == {"none", "rotate", "certify", "record", "replace", "replaced", "conclude",
       "revoke", "bundle", "delete", "deleted", "farewell", "serve", "replay", "serving"}
Holder == [pc : Pc, key : Key \cup {None}, new : Key \cup {None}, failed : BOOLEAN]

TypeOK ==
    /\ keyFile \in Key \cup {None}
    /\ survivors \subseteq Key \cup {None} /\ keyFile \in survivors
    /\ certs \subseteq Transition
    /\ bundles \subseteq [key : Key, seq : Nat]
    /\ log \in Seq(Entry)
    /\ holder \in Holder
    /\ index \in [Msg -> [seq : Nat, ack : Key \cup {None}]]
    /\ announced \subseteq Key
    /\ pin \in Key \cup {None}

\* Wherever a rotation or revocation fails, dies or loses power, a key that is
\* left can start the service: the receipts in the log verify under the keys the
\* log proves it continues, and every key ever announced is one of them.
NeverLockedOut ==
    \A k \in survivors \ {None} :
        /\ ReplayVerifies(k)
        /\ announced \subseteq LocalSigningKeys(k)

\* The certificates in hand lead every peer from whatever announced key it has
\* pinned, however long ago, to whatever key the endpoint is left with.
PinReachable ==
    \A k \in survivors \ {None} : announced \cup ({pin} \ {None}) \subseteq Chain(certs, k)

\* A service hands out receipts of its present key only, for the original
\* acceptance: what a peer that has followed the rotation can confirm.
ReceiptsCurrent ==
    holder.pc = "serving" =>
        \A m \in Msg :
            /\ index[m].ack \in {None, keyFile}
            /\ index[m].seq > 0 => AcceptedAt(m) = {index[m].seq}
            /\ \A i \in LastAck(m) : log[i].seq \in AcceptedAt(m)

\* A recorded revocation is final: no crash or power loss brings the key back,
\* and no later entry is signed or attested with it.
RevocationFinal ==
    \A i \in Types({"identity_revoked"}) :
        /\ log[i].key \notin survivors
        /\ \A j \in i+1 .. Len(log) : log[j].key # log[i].key

\* The key is never gone without a revocation bundle of the last key the
\* endpoint announced, whose checkpoint covers its prepared audit event.
DestructionEvidenced ==
    None \in survivors =>
        \E b \in bundles :
            /\ announced \subseteq LocalSigningKeys(b.key)
            /\ \E i \in 1..b.seq : log[i] = Revoking(b.key)
=============================================================================
