------------------------- MODULE KeyRotationProofs -------------------------
(***************************************************************************)
(* Theorems about KeyRotation, for every set of keys and of messages, any  *)
(* number of rotations and any quota.                                      *)
(*                                                                         *)
(* Which keys a key continues is a closure, so the argument is about Chain *)
(* alone: it grows with the transitions, and a recorded transition carries *)
(* everything its old key continues over to the new one.  Stages and       *)
(* Evidence say what is on the disk at each stage of a command; with them  *)
(* a new key is only ever put in place behind its certificate and its      *)
(* entry, and the last one only removed behind its bundle.                 *)
(***************************************************************************)
EXTENDS KeyRotation, TLAPS

\* Where the key file is at each stage of the process that holds the lock.
Stages ==
    /\ holder.pc # "none" => holder.key \in Key
    /\ holder.pc \in Pc \ {"none", "replaced", "conclude", "deleted", "farewell"}
           => keyFile = holder.key /\ survivors = {holder.key}
    /\ holder.pc \in {"certify", "record", "replace", "replaced", "conclude"}
           => holder.new \in Key
    /\ holder.pc = "replaced"
           => keyFile = holder.new /\ survivors = {holder.key, holder.new}
    /\ holder.pc = "conclude" => keyFile = holder.new /\ survivors = {holder.new}
    /\ holder.pc = "deleted" => keyFile = None /\ survivors = {holder.key, None}
    /\ holder.pc = "farewell" => keyFile = None /\ survivors = {None}

\* The prepared entry a bundle covers.
Covers(b) == \E i \in 1..b.seq : log[i] = Revoking(b.key)

\* What has been written before the key file is touched.
Evidence ==
    /\ holder.pc \in {"record", "replace"} => Certificate \in certs
    /\ holder.pc = "replace" => Certificate \in Transitions
    /\ holder.pc = "bundle" => Len(log) > 0 /\ log[Len(log)] = Revoking(holder.key)
    /\ holder.pc = "delete" => \E b \in bundles : b.key = holder.key /\ Covers(b)
    /\ \A b \in bundles : b.seq <= Len(log)

\* A recorded revocation is the last entry, and nothing can be opened after it.
Ended ==
    \A i \in 1..Len(log) : log[i].type = "identity_revoked" =>
        /\ i = Len(log) /\ log[i].key \in Key
        /\ keyFile = None /\ survivors = {None}
        /\ holder.pc = "none"

IInv == /\ TypeOK /\ Stages /\ Evidence /\ Ended
        /\ NeverLockedOut /\ PinReachable /\ DestructionEvidenced

-----------------------------------------------------------------------------
(* Chain.                                                                  *)

LEMMA ChainSelf == ASSUME NEW T, NEW k \in Key PROVE k \in Chain(T, k)
BY DEF Chain

LEMMA ChainMonotone ==
    ASSUME NEW T, NEW U, T \subseteq U, NEW k
    PROVE  Chain(T, k) \subseteq Chain(U, k)
BY DEF Chain

\* A transition to k carries over what its old key continues.
LEMMA ChainExtends ==
    ASSUME NEW T, NEW t \in T, t.prev \in Key
    PROVE  Chain(T, t.prev) \subseteq Chain(T, t.new)
<1> SUFFICES ASSUME NEW a \in Chain(T, t.prev), NEW S \in SUBSET Key,
                    t.new \in S, \A u \in T : u.new \in S => u.prev \in S
             PROVE  a \in S
    BY DEF Chain
<1>1. t.prev \in S
    OBVIOUS
<1> QED BY <1>1 DEF Chain

-----------------------------------------------------------------------------
(* Entries.                                                                *)

LEMMA EntriesTyped ==
    ASSUME NEW k \in Key \cup {None}, NEW p \in Key \cup {None}
    PROVE  /\ Prepared(p, k) \in Entry /\ Rotated(k) \in Entry
           /\ Revoking(k) \in Entry /\ Revoked(k) \in Entry
           /\ Started(k) \in Entry
           /\ \A m \in Msg : Accepted(m) \in Entry
           /\ \A m \in Msg, n \in Nat : AckIssued(m, k, n) \in Entry
BY DEF Prepared, Rotated, Revoking, Revoked, Started, Accepted, AckIssued,
       EntryOf, Entry, EntryType

LEMMA Appended ==
    ASSUME TypeOK, NEW e \in Entry, log' = Append(log, e)
    PROVE  /\ log' \in Seq(Entry)
           /\ Len(log') = Len(log) + 1 /\ Len(log) \in Nat
           /\ \A i \in 1..Len(log) : log'[i] = log[i] /\ i \in 1..Len(log')
           /\ log'[Len(log')] = e
           /\ Transitions \subseteq Transitions'
           /\ e.type = "identity_rotation_prepared"
                  => [prev |-> e.prev, new |-> e.key] \in Transitions'
<1>1. /\ log' \in Seq(Entry)
      /\ Len(log') = Len(log) + 1 /\ Len(log) \in Nat
      /\ \A i \in 1..Len(log) : log'[i] = log[i] /\ i \in 1..Len(log')
      /\ log'[Len(log')] = e
    BY DEF TypeOK
<1>2. Transitions \subseteq Transitions'
    BY <1>1 DEF Transitions, Types
<1>3. e.type = "identity_rotation_prepared"
          => [prev |-> e.prev, new |-> e.key] \in Transitions'
    BY <1>1 DEF Transitions, Types
<1> QED BY <1>1, <1>2, <1>3

-----------------------------------------------------------------------------
(* Everything but putting a key in place and removing it.                  *)

\* The log takes one entry more at most, and no receipt but of the only key left.
LogStep ==
    \/ UNCHANGED log
    \/ \E e \in Entry :
           /\ log' = Append(log, e)
           /\ e.type = "acknowledgement_issued" => survivors \subseteq {e.key}

\* Nothing is announced but the only key left.
Announces ==
    \/ announced' = announced
    \/ \E k \in Key : survivors' = {k} /\ announced' = announced \cup {k}

LEMMA LogKept ==
    ASSUME TypeOK, LogStep
    PROVE  /\ Transitions \subseteq Transitions'
           /\ Len(log) \in Nat /\ Len(log') \in Nat /\ Len(log) <= Len(log')
           /\ \A i \in 1..Len(log) : log'[i] = log[i]
           /\ log' \in Seq(Entry)
<1>1. CASE UNCHANGED log
    BY <1>1 DEF Transitions, Types, TypeOK
<1>2. CASE \E e \in Entry : log' = Append(log, e)
    <2>1. PICK e \in Entry : log' = Append(log, e)
        BY <1>2
    <2>2. /\ Len(log') = Len(log) + 1 /\ Len(log) \in Nat
          /\ \A i \in 1..Len(log) : log'[i] = log[i]
          /\ log' \in Seq(Entry) /\ Transitions \subseteq Transitions'
        BY <2>1, Appended
    <2> QED BY <2>2
<1> QED BY <1>1, <1>2 DEF LogStep

LEMMA Growing ==
    ASSUME IInv, LogStep, Announces,
           survivors' \subseteq survivors,
           certs \subseteq certs', bundles \subseteq bundles',
           pin' \in announced \cup {None, pin}
    PROVE  NeverLockedOut' /\ PinReachable' /\ DestructionEvidenced'
<1> USE RotationAssumption
<1>0. /\ TypeOK /\ NeverLockedOut /\ PinReachable /\ DestructionEvidenced /\ Evidence
      /\ survivors \subseteq Key \cup {None}
    BY DEF IInv, TypeOK
<1>1. ASSUME NEW k \in survivors' \ {None}
      PROVE  /\ k \in Key /\ k \in survivors \ {None}
             /\ LocalSigningKeys(k) \subseteq LocalSigningKeys(k)'
             /\ Chain(certs, k) \subseteq Chain(certs', k)
             /\ k \in LocalSigningKeys(k)' /\ k \in Chain(certs', k)
             /\ announced' \subseteq announced \cup {k}
    <2>1. k \in Key /\ k \in survivors \ {None}
        BY <1>0, <1>1
    <2>2. Transitions \subseteq Transitions'
        BY <1>0, LogKept
    <2>3. Chain(Transitions, k) \subseteq Chain(Transitions', k)
        BY <2>2, ChainMonotone
    <2>4. Chain(certs, k) \subseteq Chain(certs', k)
        BY ChainMonotone
    <2>5. k \in Chain(Transitions', k) /\ k \in Chain(certs', k)
        BY <2>1, ChainSelf
    <2>6. announced' \subseteq announced \cup {k}
        BY <1>1 DEF Announces
    <2> QED BY <2>1, <2>3, <2>4, <2>5, <2>6 DEF LocalSigningKeys
<1>2. NeverLockedOut'
    <2> SUFFICES ASSUME NEW k \in survivors' \ {None}
                 PROVE  /\ ReplayVerifies(k)'
                        /\ announced' \subseteq LocalSigningKeys(k)'
        BY DEF NeverLockedOut
    <2>1. /\ ReplayVerifies(k) /\ announced \subseteq LocalSigningKeys(k)
        BY <1>0, <1>1 DEF NeverLockedOut
    <2>2. announced' \subseteq LocalSigningKeys(k)'
        BY <1>1, <2>1
    <2>3. ASSUME NEW i \in 1..Len(log'), log'[i].type = "acknowledgement_issued"
          PROVE  log'[i].key \in LocalSigningKeys(k)'
        <3>1. CASE i \in 1..Len(log)
            <4>1. log[i] = log'[i]
                BY <1>0, <3>1, LogKept
            <4>2. log[i].key \in LocalSigningKeys(k)
                BY <2>1, <2>3, <3>1, <4>1 DEF ReplayVerifies, Types
            <4> QED BY <1>1, <4>1, <4>2
        <3>2. CASE i \notin 1..Len(log)
            <4>1. PICK e \in Entry :
                      /\ log' = Append(log, e)
                      /\ e.type = "acknowledgement_issued" => survivors \subseteq {e.key}
                BY <2>3, <3>2 DEF LogStep
            <4>2. i = Len(log')
                BY <1>0, <2>3, <3>2, <4>1, Appended
            <4>3. log'[i] = e
                BY <1>0, <4>1, <4>2, Appended
            <4>4. k = e.key
                BY <1>1, <2>3, <4>1, <4>3
            <4> QED BY <1>1, <4>3, <4>4
        <3> QED BY <3>1, <3>2
    <2> QED BY <2>2, <2>3 DEF ReplayVerifies, Types
<1>3. PinReachable'
    <2> SUFFICES ASSUME NEW k \in survivors' \ {None}
                 PROVE  announced' \cup ({pin'} \ {None}) \subseteq Chain(certs', k)
        BY DEF PinReachable
    <2>1. announced \cup ({pin} \ {None}) \subseteq Chain(certs, k)
        BY <1>0, <1>1 DEF PinReachable
    <2> QED BY <1>1, <2>1
<1>4. DestructionEvidenced'
    <2> SUFFICES ASSUME None \in survivors'
                 PROVE  \E b \in bundles' :
                            /\ announced' \subseteq LocalSigningKeys(b.key)'
                            /\ \E i \in 1..b.seq : log'[i] = Revoking(b.key)
        BY DEF DestructionEvidenced, Revoking, EntryOf
    <2>1. PICK b \in bundles : /\ announced \subseteq LocalSigningKeys(b.key)
                               /\ \E i \in 1..b.seq : log[i] = Revoking(b.key)
        BY <1>0 DEF DestructionEvidenced
    <2>2. announced' = announced
        BY DEF Announces
    <2>3. LocalSigningKeys(b.key) \subseteq LocalSigningKeys(b.key)'
        <3>1. Transitions \subseteq Transitions'
            BY <1>0, LogKept
        <3> QED BY <3>1, ChainMonotone DEF LocalSigningKeys
    <2>4. PICK i \in 1..b.seq : log[i] = Revoking(b.key)
        BY <2>1
    <2>5. log'[i] = Revoking(b.key)
        <3>1. b.seq \in Nat /\ b.seq <= Len(log)
            BY <1>0 DEF Evidence, TypeOK
        <3>2. i \in 1..Len(log)
            BY <1>0, <2>4, <3>1, LogKept
        <3> QED BY <1>0, <2>4, <3>2, LogKept
    <2> QED BY <2>1, <2>2, <2>3, <2>4, <2>5
<1> QED BY <1>2, <1>3, <1>4

-----------------------------------------------------------------------------
(* The holder and the index.                                               *)

LEMMA HolderGoes ==
    ASSUME TypeOK, NEW pc \in Pc, Goes(pc)
    PROVE  /\ holder' \in Holder
           /\ holder'.pc = pc /\ holder'.key = holder.key /\ holder'.new = holder.new
BY DEF TypeOK, Goes, Holder

LEMMA HolderLeaves ==
    ASSUME Leave
    PROVE  /\ holder' \in Holder /\ holder'.pc = "none"
           /\ index' \in [Msg -> [seq : Nat, ack : Key \cup {None}]]
BY DEF Leave, Nobody, Holder, Pc, NoIndex, Unknown

LEMMA AppendingTyped ==
    ASSUME TypeOK, Stages, NEW e \in Appending
    PROVE  /\ e \in Entry
           /\ e.type = "acknowledgement_issued" => survivors \subseteq {e.key}
           /\ e.type = "identity_revoked"
                  => holder.pc = "farewell" /\ e.key = holder.key
<1> USE DEF TypeOK, Holder
<1> DEFINE Fits(f) ==
        /\ f \in Entry
        /\ f.type = "acknowledgement_issued" => survivors \subseteq {f.key}
        /\ f.type = "identity_revoked" => holder.pc = "farewell" /\ f.key = holder.key
<1>0. holder.key \in Key \cup {None} /\ holder.new \in Key \cup {None}
    OBVIOUS
<1>1. CASE holder.pc = "record"
    <2>1. e = Prepared(holder.key, holder.new)
        BY <1>1 DEF Appending
    <2> QED BY <1>0, <2>1, EntriesTyped DEF Prepared, EntryOf
<1>2. CASE holder.pc = "conclude"
    <2>1. e = Rotated(holder.new)
        BY <1>2 DEF Appending
    <2> QED BY <1>0, <2>1, EntriesTyped DEF Rotated, EntryOf
<1>3. CASE holder.pc = "revoke"
    <2>1. e = Revoking(holder.key)
        BY <1>3 DEF Appending
    <2> QED BY <1>0, <2>1, EntriesTyped DEF Revoking, EntryOf
<1>4. CASE holder.pc = "farewell"
    <2>1. e = Revoked(holder.key)
        BY <1>4 DEF Appending
    <2> QED BY <1>0, <1>4, <2>1, EntriesTyped DEF Revoked, EntryOf
<1>5. CASE holder.pc = "serve"
    <2>1. e = Started(holder.key)
        BY <1>5 DEF Appending
    <2> QED BY <1>0, <2>1, EntriesTyped DEF Started, EntryOf
<1>6. CASE holder.pc = "serving"
    <2>1. survivors = {holder.key}
        BY <1>6 DEF Stages, Pc
    <2>2. \/ \E m \in Msg : e = Accepted(m)
          \/ \E m \in Msg : e = AckIssued(m, holder.key, index[m].seq)
        BY <1>6 DEF Appending
    <2>3. CASE \E m \in Msg : e = Accepted(m)
        BY <1>0, <2>3, EntriesTyped DEF Accepted, EntryOf
    <2>4. CASE \E m \in Msg : e = AckIssued(m, holder.key, index[m].seq)
        <3>1. PICK m \in Msg : e = AckIssued(m, holder.key, index[m].seq)
            BY <2>4
        <3>2. index[m].seq \in Nat
            OBVIOUS
        <3> QED BY <1>0, <2>1, <3>1, <3>2, EntriesTyped DEF AckIssued, EntryOf
    <2> QED BY <2>2, <2>3, <2>4
<1>7. CASE holder.pc \notin {"record", "conclude", "revoke", "farewell", "serve", "serving"}
    BY <1>7 DEF Appending
<1> QED BY <1>1, <1>2, <1>3, <1>4, <1>5, <1>6, <1>7

-----------------------------------------------------------------------------
(* Initially, and the steps of a rotation.                                 *)

LEMMA InitIInv == Init => IInv
<1> SUFFICES ASSUME Init PROVE IInv
    OBVIOUS
<1> USE RotationAssumption DEF Init
<1>1. TypeOK
    BY DEF TypeOK, Nobody, Holder, Pc, NoIndex, Unknown, Entry
<1>2. Stages /\ Evidence /\ Ended
    BY DEF Stages, Evidence, Ended, Nobody, Pc
<1>3. NeverLockedOut
    BY ChainSelf DEF NeverLockedOut, ReplayVerifies, LocalSigningKeys, Types
<1>4. PinReachable
    BY ChainSelf DEF PinReachable
<1>5. DestructionEvidenced
    BY DEF DestructionEvidenced
<1> QED BY <1>1, <1>2, <1>3, <1>4, <1>5 DEF IInv

LEMMA OpenKeeps ==
    ASSUME IInv, NEW pc \in {"rotate", "revoke", "serve"}, Open(pc)
    PROVE  IInv'
<1> USE RotationAssumption DEF IInv
<1>1. /\ survivors' = {keyFile} /\ keyFile' = keyFile /\ keyFile \in Key
      /\ holder'.pc = pc /\ holder'.key = keyFile /\ holder' \in Holder
      /\ holder.pc = "none"
      /\ UNCHANGED <<certs, bundles, log, index, announced, pin>>
    BY DEF Open, Lock, Nobody, Holder, Pc, TypeOK, evidence
<1>2. TypeOK' /\ Stages'
    BY <1>1 DEF TypeOK, Stages
<1>3. Evidence'
    BY <1>1 DEF Evidence, Covers
<1>4. Ended'
    BY <1>1 DEF Ended, TypeOK
<1>5. NeverLockedOut' /\ PinReachable' /\ DestructionEvidenced'
    BY <1>1, Growing DEF LogStep, Announces, TypeOK
<1> QED BY <1>2, <1>3, <1>4, <1>5

\* Taking the lock and giving up, or signing the head.
LEMMA LockKeeps ==
    ASSUME IInv, OpenFails \/ Checkpoint
    PROVE  IInv'
<1> USE RotationAssumption DEF IInv
<1>1. /\ survivors' = {keyFile} /\ keyFile' = keyFile
      /\ holder.pc = "none" /\ holder' = holder
      /\ UNCHANGED <<certs, bundles, log, index, pin>>
      /\ \/ announced' = announced
         \/ keyFile \in Key /\ announced' = announced \cup {keyFile}
    BY DEF OpenFails, Checkpoint, Lock, Nobody, TypeOK, evidence
<1>2. TypeOK' /\ Stages'
    BY <1>1 DEF TypeOK, Stages
<1>3. Evidence'
    BY <1>1 DEF Evidence, Covers
<1>4. Ended'
    BY <1>1 DEF Ended, TypeOK
<1>5. NeverLockedOut' /\ PinReachable' /\ DestructionEvidenced'
    BY <1>1, Growing DEF LogStep, Announces, TypeOK
<1> QED BY <1>2, <1>3, <1>4, <1>5

\* Steps of the process that touch neither the log nor the key file.
LEMMA QuietKeeps ==
    ASSUME IInv, PrepareRotation \/ WriteCertificate \/ Replay \/ WriteBundle
    PROVE  IInv'
<1> USE RotationAssumption DEF IInv
<1>1. CASE PrepareRotation
    <2>1. PICK new \in FreshKeys : holder' = [holder EXCEPT !.pc = "certify", !.new = new]
        BY <1>1 DEF PrepareRotation
    <2>2. /\ holder.pc = "rotate" /\ holder'.pc = "certify" /\ holder'.key = holder.key
          /\ holder'.new = new /\ new \in Key /\ holder' \in Holder
          /\ UNCHANGED <<keyFile, survivors, certs, bundles, log, index, announced, pin>>
        BY <1>1, <2>1 DEF PrepareRotation, FreshKeys, TypeOK, Holder, Pc, keys, evidence
    <2>3. TypeOK' /\ Stages' /\ Evidence' /\ Ended'
        BY <2>2 DEF TypeOK, Stages, Evidence, Covers, Ended, Pc
    <2>4. NeverLockedOut' /\ PinReachable' /\ DestructionEvidenced'
        BY <2>2, Growing DEF LogStep, Announces
    <2> QED BY <2>3, <2>4
<1>2. CASE WriteCertificate
    <2>1. /\ holder.pc = "certify" /\ holder'.pc = "record" /\ holder'.key = holder.key
          /\ holder'.new = holder.new /\ holder' \in Holder
          /\ certs' = certs \cup {Certificate}
          /\ UNCHANGED <<keyFile, survivors, bundles, log, index, announced, pin>>
        BY <1>2, HolderGoes DEF WriteCertificate, keys, Pc
    <2>2. Certificate \in Transition /\ Certificate' = Certificate
        BY <2>1 DEF Certificate, Transition, Stages
    <2>3. TypeOK' /\ Stages' /\ Ended'
        BY <2>1, <2>2 DEF TypeOK, Stages, Ended, Pc
    <2>4. Evidence'
        BY <2>1, <2>2 DEF Evidence, Covers
    <2>5. NeverLockedOut' /\ PinReachable' /\ DestructionEvidenced'
        BY <2>1, Growing DEF LogStep, Announces
    <2> QED BY <2>3, <2>4, <2>5
<1>3. CASE Replay
    <2>1. /\ holder.pc = "replay" /\ holder'.pc = "serving" /\ holder'.key = holder.key
          /\ holder'.new = holder.new /\ holder' \in Holder
          /\ announced' = announced \cup {holder.key}
          /\ UNCHANGED <<keyFile, survivors, certs, bundles, log, pin>>
        BY <1>3, HolderGoes DEF Replay, keys, evidence, Pc
    <2>2. holder.key \in Key /\ survivors = {holder.key}
        BY <2>1 DEF Stages, Pc
    <2>3. index' \in [Msg -> [seq : Nat, ack : Key \cup {None}]]
        <3>1. \A m \in Msg : RebuiltReceived(m, holder.key) \in [seq : Nat, ack : Key \cup {None}]
            <4> TAKE m \in Msg
            <4>1. \A i \in AcceptedAt(m) : i \in Nat
                BY DEF AcceptedAt, Types, TypeOK
            <4>2. AcceptedAt(m) # {} => (CHOOSE i \in AcceptedAt(m) : TRUE) \in AcceptedAt(m)
                OBVIOUS
            <4> QED BY <2>2, <4>1, <4>2 DEF RebuiltReceived, Unknown
        <3>2. index' = [m \in Msg |-> RebuiltReceived(m, holder.key)]
            BY <1>3 DEF Replay
        <3> QED BY <3>1, <3>2
    <2>4. TypeOK' /\ Stages' /\ Ended'
        BY <2>1, <2>2, <2>3 DEF TypeOK, Stages, Ended, Pc
    <2>5. Evidence'
        BY <2>1 DEF Evidence, Covers
    <2>6. NeverLockedOut' /\ PinReachable' /\ DestructionEvidenced'
        BY <2>1, <2>2, Growing DEF LogStep, Announces
    <2> QED BY <2>4, <2>5, <2>6
<1>4. CASE WriteBundle
    <2>1. /\ holder.pc = "bundle" /\ holder'.pc = "delete" /\ holder'.key = holder.key
          /\ holder'.new = holder.new /\ holder' \in Holder
          /\ bundles' = bundles \cup {Bundle}
          /\ UNCHANGED <<keyFile, survivors, certs, log, index, announced, pin>>
        BY <1>4, HolderGoes DEF WriteBundle, keys, Pc
    <2>2. /\ Bundle \in [key : Key, seq : Nat] /\ Bundle.key = holder.key
          /\ Bundle.seq = Len(log) /\ Len(log) \in Nat
        BY <2>1 DEF Bundle, Stages, TypeOK
    <2>3. TypeOK' /\ Stages' /\ Ended'
        BY <2>1, <2>2 DEF TypeOK, Stages, Ended, Pc
    <2>4. log[Bundle.seq] = Revoking(Bundle.key) /\ Bundle.seq \in 1..Bundle.seq
        BY <2>1, <2>2 DEF Evidence
    <2>5. Evidence'
        BY <2>1, <2>2, <2>4 DEF Evidence, Covers, Revoking, EntryOf
    <2>6. NeverLockedOut' /\ PinReachable' /\ DestructionEvidenced'
        BY <2>1, Growing DEF LogStep, Announces
    <2> QED BY <2>3, <2>5, <2>6
<1> QED BY <1>1, <1>2, <1>3, <1>4

-----------------------------------------------------------------------------
(* Steps that append.                                                      *)

\* An entry e of the process that holds the lock: what the log is then.
LEMMA AppendSafe ==
    ASSUME IInv, NEW e \in Entry, log' = Append(log, e),
           holder.pc # "none",
           e.type = "identity_revoked" => holder.pc = "farewell" /\ e.key = holder.key,
           UNCHANGED <<keyFile, survivors>>
    PROVE  /\ \A i \in 1..Len(log) : log[i].type # "identity_revoked"
           /\ holder'.pc = "none" \/ e.type # "identity_revoked" => Ended'
<1> USE DEF IInv
<1>1. \A i \in 1..Len(log) : log[i].type # "identity_revoked"
    BY DEF Ended
<1>2. ASSUME NEW i \in 1..Len(log'), log'[i].type = "identity_revoked",
             holder'.pc = "none" \/ e.type # "identity_revoked"
      PROVE  /\ i = Len(log') /\ log'[i].key \in Key
             /\ keyFile' = None /\ survivors' = {None} /\ holder'.pc = "none"
    <2>1. /\ Len(log') = Len(log) + 1 /\ Len(log) \in Nat /\ log'[Len(log')] = e
          /\ \A j \in 1..Len(log) : log'[j] = log[j]
        BY Appended
    <2>2. i = Len(log')
        BY <1>1, <1>2, <2>1
    <2> QED BY <1>2, <2>1, <2>2 DEF Stages
<1> QED BY <1>1, <1>2 DEF Ended

\* The process goes on after its append.
LEMMA RecordKeeps ==
    ASSUME IInv,
           RecordPrepared \/ RecordRevoking \/ Attest \/ ServiceAppendFails
             \/ \E m \in Msg : Accept(m) \/ IssueAck(m)
    PROVE  IInv'
<1> USE RotationAssumption DEF IInv
<1>1. CASE RecordPrepared
    <2> DEFINE e == Prepared(holder.key, holder.new)
    <2>1. /\ holder.pc = "record" /\ holder'.pc = "replace" /\ holder'.key = holder.key
          /\ holder'.new = holder.new /\ holder' \in Holder
          /\ log' = Append(log, e)
          /\ UNCHANGED <<keyFile, survivors, certs, bundles, index, announced, pin>>
        BY <1>1, HolderGoes DEF RecordPrepared, keys, evidence, Pc
    <2>2. /\ e \in Entry /\ e.type = "identity_rotation_prepared"
          /\ e.prev = holder.key /\ e.key = holder.new
        BY <2>1, EntriesTyped DEF Stages, Prepared, EntryOf
    <2> HIDE DEF e
    <2>3. Ended'
        BY <2>1, <2>2, AppendSafe
    <2>4. TypeOK' /\ Stages'
        BY <2>1, <2>2, Appended DEF TypeOK, Stages, Pc
    <2>5. Evidence'
        <3>1. Certificate' = Certificate /\ Certificate \in Transitions'
            BY <2>1, <2>2, Appended DEF Certificate
        <3>2. Len(log) <= Len(log') /\ Len(log) \in Nat
            BY <2>1, <2>2, Appended
        <3>3. \A b \in bundles' : b.seq <= Len(log')
            BY <2>1, <2>2, <3>2 DEF Evidence, TypeOK
        <3> QED BY <2>1, <3>1, <3>3 DEF Evidence
    <2>6. NeverLockedOut' /\ PinReachable' /\ DestructionEvidenced'
        BY <2>1, <2>2, Growing DEF LogStep, Announces
    <2> QED BY <2>3, <2>4, <2>5, <2>6
<1>2. CASE RecordRevoking
    <2> DEFINE e == Revoking(holder.key)
    <2>1. /\ holder.pc = "revoke" /\ holder'.pc = "bundle" /\ holder'.key = holder.key
          /\ holder'.new = holder.new /\ holder' \in Holder
          /\ log' = Append(log, e)
          /\ UNCHANGED <<keyFile, survivors, certs, bundles, index, announced, pin>>
        BY <1>2, HolderGoes DEF RecordRevoking, keys, evidence, Pc
    <2>2. /\ e \in Entry /\ e.type = "identity_revocation_prepared"
          /\ e = Revoking(holder'.key)
        BY <2>1, EntriesTyped DEF Stages, Revoking, EntryOf
    <2> HIDE DEF e
    <2>3. Ended'
        BY <2>1, <2>2, AppendSafe
    <2>4. TypeOK' /\ Stages'
        BY <2>1, <2>2, Appended DEF TypeOK, Stages, Pc
    <2>5. Evidence'
        <3>1. Len(log) <= Len(log') /\ Len(log) \in Nat /\ Len(log') > 0 /\ log'[Len(log')] = e
            BY <2>1, <2>2, Appended
        <3>2. \A b \in bundles' : b.seq <= Len(log')
            BY <2>1, <2>2, <3>1 DEF Evidence, TypeOK
        <3>3. Revoking(holder.key)' = Revoking(holder'.key)
            BY DEF Revoking, EntryOf
        <3> QED BY <2>1, <2>2, <3>1, <3>2, <3>3 DEF Evidence
    <2>6. NeverLockedOut' /\ PinReachable' /\ DestructionEvidenced'
        BY <2>1, <2>2, Growing DEF LogStep, Announces
    <2> QED BY <2>3, <2>4, <2>5, <2>6
<1>3. ASSUME NEW e \in Entry, log' = Append(log, e),
             e.type # "identity_revoked",
             e.type = "acknowledgement_issued" => survivors \subseteq {e.key},
             holder.pc \in {"serve", "serving"}, holder'.pc \in {"replay", "serving"},
             holder' \in Holder, holder'.key = holder.key,
             index' \in [Msg -> [seq : Nat, ack : Key \cup {None}]],
             UNCHANGED <<keyFile, survivors, certs, bundles, announced, pin>>
      PROVE  IInv'
    <2>1. Ended'
        BY <1>3, AppendSafe
    <2>2. TypeOK' /\ Stages'
        BY <1>3, Appended DEF TypeOK, Stages, Pc
    <2>3. Evidence'
        <3>1. Len(log) <= Len(log') /\ Len(log) \in Nat
            BY <1>3, Appended
        <3>2. \A b \in bundles' : b.seq <= Len(log')
            BY <1>3, <3>1 DEF Evidence, TypeOK
        <3> QED BY <1>3, <3>2 DEF Evidence
    <2>4. NeverLockedOut' /\ PinReachable' /\ DestructionEvidenced'
        BY <1>3, Growing DEF LogStep, Announces
    <2> QED BY <2>1, <2>2, <2>3, <2>4
<1>4. CASE Attest
    <2>1. /\ holder.pc = "serve" /\ holder'.pc = "replay" /\ holder'.key = holder.key
          /\ holder' \in Holder
          /\ log' = Append(log, Started(holder.key))
          /\ UNCHANGED <<keyFile, survivors, certs, bundles, index, announced, pin>>
        BY <1>4, HolderGoes DEF Attest, keys, evidence, Pc
    <2>2. Started(holder.key) \in Entry /\ Started(holder.key).type = "service_started"
        BY <2>1, EntriesTyped DEF Stages, Started, EntryOf
    <2> QED BY <1>3, <2>1, <2>2 DEF TypeOK
<1>5. ASSUME NEW m \in Msg, Accept(m)
      PROVE  IInv'
    <2>1. /\ holder.pc = "serving" /\ holder' = holder
          /\ log' = Append(log, Accepted(m))
          /\ index' = [index EXCEPT ![m].seq = Len(log) + 1]
          /\ UNCHANGED <<keyFile, survivors, certs, bundles, announced, pin>>
        BY <1>5 DEF Accept, keys, evidence
    <2>2. Accepted(m) \in Entry /\ Accepted(m).type = "inbound_accepted"
        BY <2>1, EntriesTyped DEF Accepted, EntryOf
    <2>3. index' \in [Msg -> [seq : Nat, ack : Key \cup {None}]]
        <3>1. Len(log) + 1 \in Nat /\ index \in [Msg -> [seq : Nat, ack : Key \cup {None}]]
            BY DEF TypeOK
        <3> HIDE DEF IInv
        <3> DEFINE n == Len(log) + 1
        <3>2. index' = [index EXCEPT ![m].seq = n] /\ n \in Nat
            BY <2>1, <3>1
        <3> HIDE DEF n
        <3> QED BY <3>1, <3>2
    <2> QED BY <1>3, <2>1, <2>2, <2>3 DEF TypeOK
<1>6. ASSUME NEW m \in Msg, IssueAck(m)
      PROVE  IInv'
    <2>1. /\ holder.pc = "serving" /\ holder' = holder
          /\ log' = Append(log, AckIssued(m, holder.key, index[m].seq))
          /\ index' = [index EXCEPT ![m].ack = holder.key]
          /\ UNCHANGED <<keyFile, survivors, certs, bundles, announced, pin>>
        BY <1>6 DEF IssueAck, keys, evidence
    <2>2. holder.key \in Key /\ survivors = {holder.key} /\ index[m].seq \in Nat
        BY <2>1 DEF Stages, TypeOK, Pc
    <2>3. /\ AckIssued(m, holder.key, index[m].seq) \in Entry
          /\ AckIssued(m, holder.key, index[m].seq).type = "acknowledgement_issued"
          /\ AckIssued(m, holder.key, index[m].seq).key = holder.key
        BY <2>2, EntriesTyped DEF AckIssued
    <2>4. index' \in [Msg -> [seq : Nat, ack : Key \cup {None}]]
        BY <2>1, <2>2 DEF TypeOK
    <2> QED BY <1>3, <2>1, <2>2, <2>3, <2>4 DEF TypeOK
<1>7. CASE ServiceAppendFails
    <2>1. /\ holder.pc = "serving" /\ holder' = [holder EXCEPT !.failed = TRUE]
          /\ UNCHANGED <<keyFile, survivors, certs, bundles, index, announced, pin>>
        BY <1>7 DEF ServiceAppendFails, keys, evidence
    <2>2. holder' \in Holder /\ holder'.pc = "serving" /\ holder'.key = holder.key
        BY <2>1 DEF TypeOK, Holder
    <2>3. PICK e \in Appending : log' \in {log, Append(log, e)}
        BY <1>7 DEF ServiceAppendFails
    <2>4. CASE log' = log
        <3>1. TypeOK' /\ Stages' /\ Ended'
            BY <2>1, <2>2, <2>4 DEF TypeOK, Stages, Ended, Pc
        <3>2. Evidence'
            BY <2>1, <2>2, <2>4 DEF Evidence
        <3>3. NeverLockedOut' /\ PinReachable' /\ DestructionEvidenced'
            BY <2>1, <2>4, Growing DEF LogStep, Announces
        <3> QED BY <3>1, <3>2, <3>3
    <2>5. CASE log' = Append(log, e)
        <3>1. /\ e \in Entry /\ e.type # "identity_revoked"
              /\ e.type = "acknowledgement_issued" => survivors \subseteq {e.key}
            BY <2>1, AppendingTyped
        <3>2. index' \in [Msg -> [seq : Nat, ack : Key \cup {None}]]
            BY <2>1 DEF TypeOK
        <3> QED BY <1>3, <2>1, <2>2, <2>5, <3>1, <3>2
    <2> QED BY <2>3, <2>4, <2>5
<1> QED BY <1>1, <1>2, <1>4, <1>5, <1>6, <1>7

-----------------------------------------------------------------------------
(* Steps that end the process.                                             *)

\* The process is gone, and has written an entry and some evidence at most.
LEMMA LeavingKeeps ==
    ASSUME IInv, Leave, Announces,
           UNCHANGED <<keyFile, survivors, pin>>,
           \/ UNCHANGED log
           \/ \E e \in Entry :
                  /\ log' = Append(log, e) /\ holder.pc # "none"
                  /\ e.type = "acknowledgement_issued" => survivors \subseteq {e.key}
                  /\ e.type = "identity_revoked"
                         => holder.pc = "farewell" /\ e.key = holder.key,
           certs \subseteq certs', certs' \subseteq Transition,
           \/ UNCHANGED bundles
           \/ Bundle \in [key : Key, seq : Nat] /\ bundles' = bundles \cup {Bundle},
           announced' \subseteq Key
    PROVE  IInv'
<1> USE RotationAssumption DEF IInv
<1>1. LogStep
    BY DEF LogStep
<1>2. /\ holder' \in Holder /\ holder'.pc = "none"
      /\ index' \in [Msg -> [seq : Nat, ack : Key \cup {None}]]
    BY HolderLeaves
<1>3. Len(log) \in Nat /\ Len(log') \in Nat /\ Len(log) <= Len(log') /\ log' \in Seq(Entry)
    BY <1>1, LogKept
<1>4. TypeOK' /\ Stages'
    BY <1>2, <1>3 DEF TypeOK, Stages, Pc
<1>5. Evidence'
    <2>1. \A b \in bundles' : b.seq <= Len(log')
        BY <1>3 DEF Evidence, Bundle, TypeOK
    <2> QED BY <1>2, <2>1 DEF Evidence
<1>6. Ended'
    <2>1. CASE UNCHANGED log
        BY <1>2, <2>1 DEF Ended
    <2>2. CASE ~ UNCHANGED log
        BY <1>2, <2>2, AppendSafe
    <2> QED BY <2>1, <2>2
<1>7. NeverLockedOut' /\ PinReachable' /\ DestructionEvidenced'
    BY <1>1, Growing
<1> QED BY <1>4, <1>5, <1>6, <1>7

LEMMA EndKeeps ==
    ASSUME IInv,
           WriteCertificateFails \/ WriteBundleFails \/ RecordRotated \/ RecordRevoked
             \/ CommandAppendFails \/ Exit
    PROVE  IInv'
<1>0. TypeOK /\ Stages
    BY DEF IInv
<1>1. CASE WriteCertificateFails
    <2>1. Certificate \in Transition
        BY <1>0, <1>1 DEF WriteCertificateFails, Certificate, Transition, Stages, Pc
    <2>2. certs \subseteq certs' /\ certs' \subseteq Transition
        BY <1>0, <1>1, <2>1 DEF WriteCertificateFails, TypeOK
    <2>3. /\ Leave /\ UNCHANGED <<keyFile, survivors, pin>> /\ log' = log
          /\ bundles' = bundles /\ announced' = announced /\ announced \subseteq Key
        BY <1>0, <1>1 DEF WriteCertificateFails, keys, TypeOK
    <2> QED BY <2>2, <2>3, LeavingKeeps DEF Announces
<1>2. CASE WriteBundleFails
    <2>1. Bundle \in [key : Key, seq : Nat]
        BY <1>0, <1>2 DEF WriteBundleFails, Bundle, Stages, TypeOK
    <2>2. /\ Leave /\ UNCHANGED <<keyFile, survivors, pin>> /\ log' = log
          /\ bundles' = bundles \/ bundles' = bundles \cup {Bundle}
          /\ announced' = announced /\ announced \subseteq Key
          /\ certs' = certs /\ certs \subseteq Transition
        BY <1>0, <1>2 DEF WriteBundleFails, keys, TypeOK
    <2> QED BY <2>1, <2>2, LeavingKeeps DEF Announces
<1>3. CASE RecordRotated
    <2>1. holder.pc = "conclude" /\ holder.new \in Key /\ survivors = {holder.new}
        BY <1>0, <1>3 DEF RecordRotated, Stages
    <2>2. /\ Rotated(holder.new) \in Entry
          /\ Rotated(holder.new).type = "identity_rotated"
        BY <2>1, EntriesTyped DEF Rotated, EntryOf
    <2>3. /\ Leave /\ UNCHANGED <<keyFile, survivors, pin>>
          /\ log' = Append(log, Rotated(holder.new))
          /\ bundles' = bundles /\ certs' = certs /\ certs \subseteq Transition
          /\ announced' = announced \cup {holder.new} /\ announced' \subseteq Key
        BY <1>0, <1>3, <2>1 DEF RecordRotated, keys, evidence, TypeOK
    <2>4. Announces
        BY <2>1, <2>3 DEF Announces
    <2> QED BY <2>1, <2>2, <2>3, <2>4, LeavingKeeps
<1>4. CASE RecordRevoked
    <2>1. holder.pc = "farewell" /\ holder.key \in Key
        BY <1>0, <1>4 DEF RecordRevoked, Stages
    <2>2. /\ Revoked(holder.key) \in Entry /\ Revoked(holder.key).key = holder.key
          /\ Revoked(holder.key).type = "identity_revoked"
        BY <2>1, EntriesTyped DEF Revoked, EntryOf
    <2>3. /\ Leave /\ UNCHANGED <<keyFile, survivors, pin>>
          /\ log' = Append(log, Revoked(holder.key))
          /\ bundles' = bundles /\ certs' = certs /\ certs \subseteq Transition
          /\ announced' = announced /\ announced \subseteq Key
        BY <1>0, <1>4 DEF RecordRevoked, keys, evidence, TypeOK
    <2> QED BY <2>1, <2>2, <2>3, LeavingKeeps DEF Announces
<1>5. CASE CommandAppendFails
    <2>1. PICK e \in Appending : log' = Append(log, e)
        BY <1>5 DEF CommandAppendFails
    <2>2. holder.pc # "none"
        BY <2>1 DEF Appending
    <2>3. /\ e \in Entry
          /\ e.type = "acknowledgement_issued" => survivors \subseteq {e.key}
          /\ e.type = "identity_revoked" => holder.pc = "farewell" /\ e.key = holder.key
        BY <1>0, AppendingTyped
    <2>4. /\ Leave /\ UNCHANGED <<keyFile, survivors, pin>>
          /\ bundles' = bundles /\ certs' = certs /\ certs \subseteq Transition
          /\ announced' = announced /\ announced \subseteq Key
        BY <1>0, <1>5 DEF CommandAppendFails, keys, evidence, TypeOK
    <2> QED BY <2>1, <2>2, <2>3, <2>4, LeavingKeeps DEF Announces
<1>6. CASE Exit
    <2>1. /\ Leave /\ UNCHANGED <<keyFile, survivors, pin>> /\ log' = log
          /\ bundles' = bundles /\ certs' = certs /\ certs \subseteq Transition
          /\ announced' = announced /\ announced \subseteq Key
        BY <1>0, <1>6 DEF Exit, keys, evidence, TypeOK
    <2> QED BY <2>1, LeavingKeeps DEF Announces
<1> QED BY <1>1, <1>2, <1>3, <1>4, <1>5, <1>6

-----------------------------------------------------------------------------
(* Steps that change the key file.                                         *)

\* The rename: whatever the old key continues, the new one does, for its
\* certificate and its prepared entry have been written.
LEMMA ReplaceKeeps == ASSUME IInv, ReplaceKey PROVE IInv'
<1> USE RotationAssumption DEF IInv
<1>1. /\ holder.pc = "replace" /\ holder'.pc = "replaced" /\ holder'.key = holder.key
      /\ holder'.new = holder.new /\ holder' \in Holder
      /\ keyFile' = holder.new /\ survivors' = survivors \cup {holder.new}
      /\ UNCHANGED <<certs, bundles, log, index, announced, pin>>
    BY HolderGoes DEF ReplaceKey, evidence, Pc
<1>2. /\ holder.key \in Key /\ holder.new \in Key /\ survivors = {holder.key}
    BY <1>1 DEF Stages, Pc
<1>3. TypeOK' /\ Stages' /\ Evidence' /\ Ended'
    BY <1>1, <1>2 DEF TypeOK, Stages, Evidence, Ended, Pc
<1>4. /\ Transitions' = Transitions
      /\ Chain(Transitions, holder.key) \subseteq Chain(Transitions, holder.new)
      /\ Chain(certs, holder.key) \subseteq Chain(certs, holder.new)
    <2>1. Certificate \in Transitions /\ Certificate \in certs
        BY <1>1 DEF Evidence
    <2>2. Certificate.prev = holder.key /\ Certificate.new = holder.new
        BY DEF Certificate
    <2> QED BY <1>1, <1>2, <2>1, <2>2, ChainExtends DEF Transitions, Types
<1>5. NeverLockedOut'
    <2> SUFFICES ASSUME NEW k \in {holder.key, holder.new}
                 PROVE  ReplayVerifies(k)' /\ announced' \subseteq LocalSigningKeys(k)'
        BY <1>1, <1>2 DEF NeverLockedOut
    <2>1. ReplayVerifies(holder.key) /\ announced \subseteq Chain(Transitions, holder.key)
        BY <1>2 DEF NeverLockedOut, LocalSigningKeys
    <2>2. Chain(Transitions, holder.key) \subseteq Chain(Transitions', k)
        BY <1>4
    <2> QED BY <1>1, <2>1, <2>2 DEF ReplayVerifies, LocalSigningKeys, Types
<1>6. PinReachable'
    BY <1>1, <1>2, <1>4 DEF PinReachable
<1>7. DestructionEvidenced'
    BY <1>1, <1>2 DEF DestructionEvidenced
<1> QED BY <1>3, <1>5, <1>6, <1>7

\* The unlink: a bundle of the only key left has been written.
LEMMA DeleteKeeps == ASSUME IInv, DeleteKey PROVE IInv'
<1> USE RotationAssumption DEF IInv
<1>1. /\ holder.pc = "delete" /\ holder'.pc = "deleted" /\ holder'.key = holder.key
      /\ holder'.new = holder.new /\ holder' \in Holder
      /\ keyFile' = None /\ survivors' = survivors \cup {None}
      /\ UNCHANGED <<certs, bundles, log, index, announced, pin>>
    BY HolderGoes DEF DeleteKey, evidence, Pc
<1>2. holder.key \in Key /\ survivors = {holder.key}
    BY <1>1 DEF Stages, Pc
<1>3. TypeOK' /\ Stages' /\ Evidence' /\ Ended'
    BY <1>1, <1>2 DEF TypeOK, Stages, Evidence, Ended, Pc
<1>4. Transitions' = Transitions
    BY <1>1 DEF Transitions, Types
<1>5. NeverLockedOut' /\ PinReachable'
    BY <1>1, <1>2, <1>4 DEF NeverLockedOut, PinReachable, ReplayVerifies,
                            LocalSigningKeys, Types
<1>6. DestructionEvidenced'
    <2>1. PICK b \in bundles : b.key = holder.key /\ Covers(b)
        BY <1>1 DEF Evidence
    <2>2. announced \subseteq LocalSigningKeys(b.key)
        BY <1>2, <2>1 DEF NeverLockedOut
    <2>3. announced' \subseteq LocalSigningKeys(b.key)'
        BY <1>1, <1>4, <2>2 DEF LocalSigningKeys
    <2>4. \E i \in 1..b.seq : log'[i] = Revoking(b.key)
        BY <1>1, <2>1 DEF Covers
    <2> QED BY <1>1, <2>1, <2>3, <2>4 DEF DestructionEvidenced
<1> QED BY <1>3, <1>5, <1>6

\* The directory syncs, and a power loss.
LEMMA SettleKeeps == ASSUME IInv, SyncReplaced \/ SyncDeleted \/ PowerLoss PROVE IInv'
<1> USE RotationAssumption DEF IInv
<1>1. CASE SyncReplaced \/ SyncDeleted
    <2>1. /\ \/ holder.pc = "replaced" /\ holder'.pc = "conclude"
             \/ holder.pc = "deleted" /\ holder'.pc = "farewell"
          /\ holder'.key = holder.key /\ holder'.new = holder.new /\ holder' \in Holder
          /\ survivors' = {keyFile} /\ keyFile' = keyFile
          /\ UNCHANGED <<certs, bundles, log, index, announced, pin>>
        BY <1>1, HolderGoes DEF SyncReplaced, SyncDeleted, evidence, Pc
    <2>2. TypeOK' /\ Stages' /\ Evidence' /\ Ended'
        BY <2>1 DEF TypeOK, Stages, Evidence, Ended, Pc
    <2>3. NeverLockedOut' /\ PinReachable' /\ DestructionEvidenced'
        BY <2>1, Growing DEF LogStep, Announces, TypeOK
    <2> QED BY <2>2, <2>3
<1>2. CASE PowerLoss
    <2>1. PICK k \in survivors : keyFile' = k /\ survivors' = {k}
        BY <1>2 DEF PowerLoss
    <2>2. /\ holder' \in Holder /\ holder'.pc = "none"
          /\ index' \in [Msg -> [seq : Nat, ack : Key \cup {None}]]
          /\ UNCHANGED <<certs, bundles, log, announced, pin>>
        BY <1>2, HolderLeaves DEF PowerLoss, evidence
    <2>3. TypeOK' /\ Stages' /\ Evidence' /\ Ended'
        BY <2>1, <2>2 DEF TypeOK, Stages, Evidence, Ended, Pc
    <2>4. NeverLockedOut' /\ PinReachable' /\ DestructionEvidenced'
        BY <2>1, <2>2, Growing DEF LogStep, Announces
    <2> QED BY <2>3, <2>4
<1> QED BY <1>1, <1>2

\* The peer's operator pins announced keys only.
LEMMA PinKeeps ==
    ASSUME IInv, (\E c \in certs : PeerRotate(c)) \/ (\E k \in announced : PeerAdd(k))
                   \/ PeerRemove
    PROVE  IInv'
<1> USE RotationAssumption DEF IInv
<1>1. /\ pin' \in announced \cup {None}
      /\ UNCHANGED <<keyFile, survivors, certs, bundles, log, holder, index, announced>>
    BY DEF PeerRotate, PeerAdd, PeerRemove, WritePin, keys, evidence
<1>2. TypeOK' /\ Stages' /\ Evidence' /\ Ended'
    BY <1>1 DEF TypeOK, Stages, Evidence, Covers, Ended, Certificate, Transitions, Types
<1>3. NeverLockedOut' /\ PinReachable' /\ DestructionEvidenced'
    BY <1>1, Growing DEF LogStep, Announces
<1> QED BY <1>2, <1>3

-----------------------------------------------------------------------------
(* The theorems.                                                           *)

LEMMA StepIInv == IInv /\ [Next]_vars => IInv'
<1> SUFFICES ASSUME IInv, [Next]_vars PROVE IInv'
    OBVIOUS
<1>1. CASE UNCHANGED vars
    BY <1>1 DEF vars, IInv, TypeOK, Stages, Evidence, Covers, Ended, NeverLockedOut,
                PinReachable, DestructionEvidenced, ReplayVerifies, LocalSigningKeys,
                Transitions, Types, Certificate
<1>2. CASE Next
    BY <1>2, OpenKeeps, LockKeeps, QuietKeeps, RecordKeeps, EndKeeps, ReplaceKeeps,
       DeleteKeeps, SettleKeeps, PinKeeps DEF Next
<1> QED BY <1>1, <1>2

LEMMA Inductive == Spec => []IInv
BY InitIInv, StepIInv, PTL DEF Spec

\* Type correctness of KeyRotation.
THEOREM TypeCorrect == Spec => []TypeOK
<1>1. IInv => TypeOK
    BY DEF IInv
<1> QED BY <1>1, Inductive, PTL

\* Rotate and revoke, serve and replay: whatever fails, dies or loses power, a
\* key that is left can start the service and continues every announced key.
THEOREM LockoutFree == Spec => []NeverLockedOut
<1>1. IInv => NeverLockedOut
    BY DEF IInv
<1> QED BY <1>1, Inductive, PTL

\* Rotate: the certificates written lead every peer to the key that is left.
THEOREM PinsFollow == Spec => []PinReachable
<1>1. IInv => PinReachable
    BY DEF IInv
<1> QED BY <1>1, Inductive, PTL

\* Revoke: a revoked key is gone for good, and nothing is signed after it.
THEOREM RevocationHolds == Spec => []RevocationFinal
<1>1. IInv => RevocationFinal
  <2> SUFFICES ASSUME IInv, NEW i \in 1..Len(log), log[i].type = "identity_revoked"
               PROVE  /\ log[i].key \notin survivors
                      /\ \A j \in i+1 .. Len(log) : log[j].key # log[i].key
      BY DEF RevocationFinal, Types
  <2>1. i = Len(log) /\ log[i].key \in Key /\ survivors = {None} /\ Len(log) \in Nat
      BY DEF IInv, Ended, TypeOK
  <2> QED BY <2>1, RotationAssumption
<1> QED BY <1>1, Inductive, PTL

\* Revoke: the key is never gone without the evidence that covers it.
THEOREM DestructionCovered == Spec => []DestructionEvidenced
<1>1. IInv => DestructionEvidenced
    BY DEF IInv
<1> QED BY <1>1, Inductive, PTL

-----------------------------------------------------------------------------
(* Receipts.                                                               *)

\* An append of a receipt or an acceptance, and of anything else.
Unreceived(e) == e.type \notin {"inbound_accepted", "acknowledgement_issued"}

\* A message is accepted once, and its receipts all name that acceptance.
AcceptedOnce ==
    \A m \in Msg :
        /\ \A i, j \in AcceptedAt(m) : i = j
        /\ \A i \in Types({"acknowledgement_issued"}) :
               log[i].msg = m => log[i].seq \in AcceptedAt(m)

\* The memory of a service: exact while its log takes entries; after a failed
\* append it may lack an acceptance that was stored.
IndexCurrent ==
    holder.pc = "serving" =>
        \A m \in Msg :
            /\ index[m].ack \in {None, holder.key}
            /\ index[m].seq > 0 => AcceptedAt(m) = {index[m].seq}
            /\ index[m].seq = 0 /\ ~ holder.failed => AcceptedAt(m) = {}

ReceiptInv == AcceptedOnce /\ IndexCurrent

LEMMA AcceptedAppended ==
    ASSUME TypeOK, NEW e \in Entry, log' = Append(log, e), NEW m \in Msg
    PROVE  /\ AcceptedAt(m) \subseteq 1..Len(log)
           /\ AcceptedAt(m)' = IF e.type = "inbound_accepted" /\ e.msg = m
                               THEN AcceptedAt(m) \cup {Len(log) + 1}
                               ELSE AcceptedAt(m)
<1>1. /\ Len(log') = Len(log) + 1 /\ Len(log) \in Nat /\ log'[Len(log) + 1] = e
      /\ \A i \in 1..Len(log) : log'[i] = log[i]
    BY Appended
<1>2. 1..Len(log') = 1..Len(log) \cup {Len(log) + 1}
    BY <1>1
<1> QED BY <1>1, <1>2 DEF AcceptedAt, Types

\* An entry that is neither leaves acceptances and receipts as they are, ...
LEMMA OthersKeep ==
    ASSUME TypeOK, AcceptedOnce,
           UNCHANGED log \/ \E e \in Entry : Unreceived(e) /\ log' = Append(log, e)
    PROVE  AcceptedOnce' /\ \A m \in Msg : AcceptedAt(m)' = AcceptedAt(m)
<1>1. CASE UNCHANGED log
    BY <1>1 DEF AcceptedOnce, AcceptedAt, Types
<1>2. CASE \E e \in Entry : Unreceived(e) /\ log' = Append(log, e)
    <2>1. PICK e \in Entry : Unreceived(e) /\ log' = Append(log, e)
        BY <1>2
    <2>2. \A m \in Msg : AcceptedAt(m)' = AcceptedAt(m)
        BY <2>1, AcceptedAppended DEF Unreceived
    <2>3. \A i \in Types({"acknowledgement_issued"})' :
              i \in Types({"acknowledgement_issued"}) /\ log'[i] = log[i]
        BY <2>1, Appended DEF Types, Unreceived
    <2> QED BY <2>2, <2>3 DEF AcceptedOnce
<1> QED BY <1>1, <1>2

\* ... an acceptance is the first of its message, ...
LEMMA AcceptanceKeeps ==
    ASSUME TypeOK, AcceptedOnce, NEW m \in Msg, log' = Append(log, Accepted(m)),
           AcceptedAt(m) = {}
    PROVE  /\ AcceptedOnce' /\ AcceptedAt(m)' = {Len(log) + 1}
           /\ \A n \in Msg \ {m} : AcceptedAt(n)' = AcceptedAt(n)
<1>1. /\ Accepted(m) \in Entry /\ Accepted(m).type = "inbound_accepted"
      /\ Accepted(m).msg = m
    BY EntriesTyped DEF Accepted, EntryOf
<1>2. /\ AcceptedAt(m)' = {Len(log) + 1}
      /\ \A n \in Msg \ {m} : AcceptedAt(n)' = AcceptedAt(n)
    BY <1>1, AcceptedAppended
<1>3. \A i \in Types({"acknowledgement_issued"})' :
          i \in Types({"acknowledgement_issued"}) /\ log'[i] = log[i]
    BY <1>1, Appended DEF Types
<1>4. \A n \in Msg : AcceptedAt(n) \subseteq AcceptedAt(n)'
    BY <1>2
<1>5. ASSUME NEW n \in Msg, NEW i \in AcceptedAt(n)', NEW j \in AcceptedAt(n)'
      PROVE  i = j
    <2>1. CASE n = m
        BY <1>2, <1>5, <2>1
    <2>2. CASE n # m
        BY <1>2, <1>5, <2>2 DEF AcceptedOnce
    <2> QED BY <2>1, <2>2
<1>6. ASSUME NEW n \in Msg, NEW i \in Types({"acknowledgement_issued"})', log'[i].msg = n
      PROVE  log'[i].seq \in AcceptedAt(n)'
    <2>1. log[i].seq \in AcceptedAt(n)
        BY <1>3, <1>6 DEF AcceptedOnce
    <2> QED BY <1>3, <1>4, <1>6, <2>1
<1> QED BY <1>2, <1>5, <1>6 DEF AcceptedOnce

\* ... and a receipt names it.
LEMMA ReceiptKeeps ==
    ASSUME TypeOK, AcceptedOnce, NEW m \in Msg, NEW k \in Key, NEW s \in AcceptedAt(m),
           log' = Append(log, AckIssued(m, k, s))
    PROVE  AcceptedOnce' /\ \A n \in Msg : AcceptedAt(n)' = AcceptedAt(n)
<1> DEFINE e == AckIssued(m, k, s)
<1>0. s \in Nat
    BY DEF AcceptedAt, Types, TypeOK
<1>1. /\ e \in Entry /\ e.type = "acknowledgement_issued" /\ e.msg = m /\ e.seq = s
      /\ log' = Append(log, e)
    BY <1>0, EntriesTyped DEF AckIssued
<1> HIDE DEF e
<1>2. \A n \in Msg : AcceptedAt(n)' = AcceptedAt(n)
    BY <1>1, AcceptedAppended
<1>3. \A i \in Types({"acknowledgement_issued"})' :
          \/ i \in Types({"acknowledgement_issued"}) /\ log'[i] = log[i]
          \/ log'[i] = e
    BY <1>1, Appended DEF Types
<1>4. ASSUME NEW n \in Msg, NEW i \in Types({"acknowledgement_issued"})', log'[i].msg = n
      PROVE  log'[i].seq \in AcceptedAt(n)
    <2>1. CASE i \in Types({"acknowledgement_issued"}) /\ log'[i] = log[i]
        BY <1>4, <2>1 DEF AcceptedOnce
    <2>2. CASE log'[i] = e
        BY <1>1, <1>4, <2>2
    <2> QED BY <1>3, <2>1, <2>2
<1>5. ASSUME NEW n \in Msg
      PROVE  /\ \A i, j \in AcceptedAt(n)' : i = j
             /\ \A i \in Types({"acknowledgement_issued"})' :
                    log'[i].msg = n => log'[i].seq \in AcceptedAt(n)'
    <2>1. AcceptedAt(n)' = AcceptedAt(n) /\ \A i, j \in AcceptedAt(n) : i = j
        BY <1>2 DEF AcceptedOnce
    <2> QED BY <1>4, <2>1
<1> QED BY <1>2, <1>5 DEF AcceptedOnce

\* What a service whose append failed may have stored.
LEMMA ServingAppends ==
    ASSUME TypeOK, Stages, ReceiptInv, holder.pc = "serving", ~ holder.failed,
           NEW e \in Appending, log' = Append(log, e)
    PROVE  /\ AcceptedOnce'
           /\ \A n \in Msg : index[n].seq > 0 => AcceptedAt(n)' = AcceptedAt(n)
<1>0. holder.key \in Key /\ \A n \in Msg : index[n].seq \in Nat
    BY DEF Stages, TypeOK
<1>1. CASE \E m \in Msg : index[m].seq = 0 /\ e = Accepted(m)
    <2>1. PICK m \in Msg : index[m].seq = 0 /\ e = Accepted(m)
        BY <1>1
    <2>2. AcceptedAt(m) = {}
        BY <2>1 DEF ReceiptInv, IndexCurrent
    <2> QED BY <1>0, <2>1, <2>2, AcceptanceKeeps DEF ReceiptInv
<1>2. CASE \E m \in Msg : index[m].seq > 0 /\ e = AckIssued(m, holder.key, index[m].seq)
    <2>1. PICK m \in Msg : index[m].seq > 0 /\ e = AckIssued(m, holder.key, index[m].seq)
        BY <1>2
    <2>2. index[m].seq \in AcceptedAt(m)
        BY <2>1 DEF ReceiptInv, IndexCurrent
    <2> QED BY <1>0, <2>1, <2>2, ReceiptKeeps DEF ReceiptInv
<1> QED BY <1>1, <1>2 DEF Appending

LEMMA CommandAppends ==
    ASSUME TypeOK, Stages, holder.pc # "serving", NEW e \in Appending
    PROVE  e \in Entry /\ Unreceived(e)
<1>1. e \in Entry
    BY AppendingTyped
<1>2. Unreceived(e)
    BY DEF Appending, Unreceived, Prepared, Rotated, Revoking, Revoked, Started, EntryOf
<1> QED BY <1>1, <1>2

\* Steps that leave no service serving, or leave it and its index alone.
LEMMA StillCurrent ==
    ASSUME IInv, ReceiptInv,
           UNCHANGED log \/ \E e \in Entry : Unreceived(e) /\ log' = Append(log, e),
           holder'.pc # "serving" \/ UNCHANGED <<holder, index>>
    PROVE  ReceiptInv'
<1>1. AcceptedOnce' /\ \A m \in Msg : AcceptedAt(m)' = AcceptedAt(m)
    BY OthersKeep DEF IInv, ReceiptInv
<1> QED BY <1>1 DEF ReceiptInv, IndexCurrent

LEMMA StepReceiptInv == IInv /\ ReceiptInv /\ [Next]_vars => ReceiptInv'
<1> SUFFICES ASSUME IInv, ReceiptInv, [Next]_vars PROVE ReceiptInv'
    OBVIOUS
<1> USE RotationAssumption
<1>0. TypeOK /\ Stages /\ AcceptedOnce
    BY DEF IInv, ReceiptInv
<1>1. CASE \/ PowerLoss \/ Exit \/ WriteCertificateFails \/ WriteBundleFails
    <2>1. UNCHANGED log /\ holder'.pc # "serving"
        BY <1>1 DEF PowerLoss, Exit, WriteCertificateFails, WriteBundleFails, Leave, Nobody
    <2> QED BY <2>1, StillCurrent
<1>2. CASE WriteCertificate \/ ReplaceKey \/ SyncReplaced \/ WriteBundle \/ DeleteKey
           \/ SyncDeleted \/ PrepareRotation
    <2>1. UNCHANGED log
        BY <1>2 DEF WriteCertificate, ReplaceKey, SyncReplaced, WriteBundle, DeleteKey,
                    SyncDeleted, PrepareRotation
    <2>2. holder'.pc # "serving"
        BY <1>0, <1>2 DEF WriteCertificate, ReplaceKey, SyncReplaced, WriteBundle,
                    DeleteKey, SyncDeleted, PrepareRotation, Goes, TypeOK, Holder
    <2> QED BY <2>1, <2>2, StillCurrent
<1>9. CASE OpenFails \/ Checkpoint \/ UNCHANGED vars
    BY <1>9, StillCurrent DEF OpenFails, Checkpoint, vars
<1>10. CASE \/ PeerRemove \/ (\E c \in certs : PeerRotate(c))
            \/ (\E k \in announced : PeerAdd(k))
    BY <1>10, StillCurrent DEF PeerRemove, PeerRotate, PeerAdd, WritePin
<1>11. ASSUME NEW pc \in {"rotate", "revoke", "serve"}, Open(pc) PROVE ReceiptInv'
    <2>1. UNCHANGED log /\ holder'.pc # "serving"
        BY <1>11 DEF Open, Nobody, Goes
    <2> QED BY <2>1, StillCurrent
<1>3. CASE RecordPrepared \/ RecordRotated \/ RecordRevoking \/ RecordRevoked \/ Attest
    <2>1. holder'.pc # "serving" /\ holder.pc # "serving"
        BY <1>0, <1>3 DEF RecordPrepared, RecordRotated, RecordRevoking, RecordRevoked,
           Attest, Goes, Leave, Nobody, TypeOK, Holder
    <2>2. \E e \in Appending : log' = Append(log, e)
        BY <1>3 DEF RecordPrepared, RecordRotated, RecordRevoking, RecordRevoked, Attest,
           Appending
    <2> QED BY <1>0, <2>1, <2>2, CommandAppends, StillCurrent
<1>4. CASE CommandAppendFails
    <2>1. holder'.pc # "serving" /\ holder.pc # "serving"
          /\ \E e \in Appending : log' = Append(log, e)
        BY <1>4 DEF CommandAppendFails, Leave, Nobody
    <2> QED BY <1>0, <2>1, CommandAppends, StillCurrent
<1>5. CASE ServiceAppendFails
    <2>1. /\ holder.pc = "serving" /\ ~ holder.failed /\ UNCHANGED index
          /\ holder'.failed /\ holder'.key = holder.key
        BY <1>0, <1>5 DEF ServiceAppendFails, CanAppend, TypeOK, Holder
    <2>2. /\ AcceptedOnce'
          /\ \A n \in Msg : index[n].seq > 0 => AcceptedAt(n)' = AcceptedAt(n)
        <3>1. CASE UNCHANGED log
            BY <1>0, <3>1, OthersKeep
        <3>2. CASE \E e \in Appending : log' = Append(log, e)
            BY <1>0, <2>1, <3>2, ServingAppends
        <3> QED BY <1>5, <3>1, <3>2 DEF ServiceAppendFails
    <2> QED BY <2>1, <2>2 DEF ReceiptInv, IndexCurrent
<1>6. CASE Replay
    <2>1. /\ UNCHANGED log /\ holder'.key = holder.key
          /\ index' = [m \in Msg |-> RebuiltReceived(m, holder.key)]
        BY <1>0, <1>6 DEF Replay, Goes, TypeOK, Holder
    <2>2. AcceptedOnce' /\ \A m \in Msg : AcceptedAt(m)' = AcceptedAt(m)
        BY <1>0, <2>1, OthersKeep
    <2>3. ASSUME NEW m \in Msg
          PROVE  /\ index'[m].ack \in {None, holder.key}
                 /\ index'[m].seq > 0 => AcceptedAt(m) = {index'[m].seq}
                 /\ index'[m].seq = 0 => AcceptedAt(m) = {}
        <3>1. index'[m] = RebuiltReceived(m, holder.key)
            BY <2>1
        <3>2. CASE AcceptedAt(m) = {}
            BY <3>1, <3>2 DEF RebuiltReceived, Unknown
        <3>3. CASE AcceptedAt(m) # {}
            <4>1. PICK i \in AcceptedAt(m) : AcceptedAt(m) = {i}
                BY <1>0, <3>3 DEF AcceptedOnce
            <4>2. (CHOOSE j \in AcceptedAt(m) : TRUE) = i
                BY <4>1
            <4>3. i \in 1..Len(log) /\ Len(log) \in Nat
                BY <1>0, <4>1 DEF AcceptedAt, Types, TypeOK
            <4> QED BY <3>1, <3>3, <4>1, <4>2, <4>3 DEF RebuiltReceived
        <3> QED BY <3>2, <3>3
    <2> QED BY <2>1, <2>2, <2>3 DEF ReceiptInv, IndexCurrent
<1>7. ASSUME NEW m \in Msg, Accept(m) PROVE ReceiptInv'
    <2>1. /\ holder.pc = "serving" /\ ~ holder.failed /\ UNCHANGED holder
          /\ index[m].seq = 0 /\ log' = Append(log, Accepted(m)) /\ Len(log) \in Nat
          /\ index'[m] = [index[m] EXCEPT !.seq = Len(log) + 1]
          /\ \A n \in Msg \ {m} : index'[n] = index[n]
        BY <1>0, <1>7 DEF Accept, CanAppend, TypeOK
    <2>2. index'[m].seq = Len(log) + 1 /\ index'[m].ack = index[m].ack
        BY <1>0, <2>1 DEF TypeOK
    <2>3. AcceptedAt(m) = {}
        BY <2>1 DEF ReceiptInv, IndexCurrent
    <2>4. /\ AcceptedOnce' /\ AcceptedAt(m)' = {Len(log) + 1}
          /\ \A n \in Msg \ {m} : AcceptedAt(n)' = AcceptedAt(n)
        BY <1>0, <2>1, <2>3, AcceptanceKeeps
    <2>5. ASSUME NEW n \in Msg
          PROVE  /\ index'[n].ack \in {None, holder.key}
                 /\ index'[n].seq > 0 => AcceptedAt(n)' = {index'[n].seq}
                 /\ index'[n].seq = 0 => AcceptedAt(n)' = {}
        <3>1. CASE n = m
            <4>1. index[m].ack \in {None, holder.key}
                BY <2>1 DEF ReceiptInv, IndexCurrent
            <4>2. index'[m].seq = Len(log) + 1 /\ index'[m].seq # 0
                BY <2>1, <2>2
            <4>3. AcceptedAt(m)' = {index'[m].seq}
                BY <2>4, <4>2
            <4> QED BY <2>2, <3>1, <4>1, <4>2, <4>3
        <3>2. CASE n # m
            BY <2>1, <2>4, <3>2 DEF ReceiptInv, IndexCurrent
        <3> QED BY <3>1, <3>2
    <2> QED BY <2>1, <2>4, <2>5 DEF ReceiptInv, IndexCurrent
<1>8. ASSUME NEW m \in Msg, IssueAck(m) PROVE ReceiptInv'
    <2>1. /\ holder.pc = "serving" /\ UNCHANGED holder /\ holder.key \in Key
          /\ index[m].seq > 0
          /\ log' = Append(log, AckIssued(m, holder.key, index[m].seq))
          /\ index'[m] = [index[m] EXCEPT !.ack = holder.key]
          /\ \A n \in Msg \ {m} : index'[n] = index[n]
        BY <1>0, <1>8 DEF IssueAck, TypeOK, Stages
    <2>2. index'[m].seq = index[m].seq /\ index'[m].ack = holder.key
        BY <1>0, <2>1 DEF TypeOK
    <2>3. index[m].seq \in AcceptedAt(m)
        BY <2>1 DEF ReceiptInv, IndexCurrent
    <2>4. AcceptedOnce' /\ \A n \in Msg : AcceptedAt(n)' = AcceptedAt(n)
        BY <1>0, <2>1, <2>3, ReceiptKeeps
    <2> QED BY <2>1, <2>2, <2>4 DEF ReceiptInv, IndexCurrent
<1> QED BY <1>1, <1>2, <1>3, <1>4, <1>5, <1>6, <1>7, <1>8, <1>9,
       <1>10, <1>11 DEF Next

\* Serve and receive: a service that has been rotated, restarted, or has lost an
\* append hands out receipts of its present key only, and every receipt there is
\* names the one acceptance of its message.
THEOREM ReceiptsFollow == Spec => []ReceiptsCurrent
<1>1. Init => ReceiptInv
    BY DEF Init, ReceiptInv, AcceptedOnce, IndexCurrent, AcceptedAt, Types, Nobody
<1>2. Spec => []ReceiptInv
    BY <1>1, StepReceiptInv, Inductive, PTL DEF Spec
<1>3. IInv /\ ReceiptInv => ReceiptsCurrent
    <2> SUFFICES ASSUME IInv, ReceiptInv, holder.pc = "serving", NEW m \in Msg
                 PROVE  /\ index[m].ack \in {None, keyFile}
                        /\ index[m].seq > 0 => AcceptedAt(m) = {index[m].seq}
                        /\ \A i \in LastAck(m) : log[i].seq \in AcceptedAt(m)
        BY DEF ReceiptsCurrent
    <2>1. keyFile = holder.key
        BY DEF IInv, Stages, Pc
    <2>2. \A i \in LastAck(m) : i \in Types({"acknowledgement_issued"}) /\ log[i].msg = m
        BY DEF LastAck
    <2> QED BY <2>1, <2>2 DEF ReceiptInv, AcceptedOnce, IndexCurrent
<1> QED BY <1>2, <1>3, Inductive, PTL
=============================================================================
