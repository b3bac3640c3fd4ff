---------------------------- MODULE ChannelProofs ----------------------------
(***************************************************************************)
(* Theorems about Channel, for any messages, clocks, ages and any number   *)
(* of faults and rotations.                                                *)
(*                                                                         *)
(* Papers are trusted by both endpoints although they outlive the calls    *)
(* that wrote them, so the invariant says of each paper at large which log *)
(* entry it repeats, of each call under way what the log says of its       *)
(* message, and of the time stamps in which order they were taken.         *)
(***************************************************************************)
EXTENDS Channel, FiniteSetTheorems, TLAPS

Paper == [kind : {"envelope", "receipt"}, id : Msg, key : Nat, at : Int, seq : Nat]

TypeOK ==
    /\ now \in Int
    /\ skew \in Skews
    /\ created \in [Msg -> Int \cup {None}]
    /\ signed \in [Msg -> Nat \cup {None}]
    /\ confirmed \in [Msg -> Stamp \cup {None}]
    /\ accepted \in [Msg -> Stamp \cup {None}]
    /\ issued \in [Msg -> Nat \cup {None}]
    /\ call \in [Msg -> {"none", "guard", "ack"}]
    /\ key \in [Endpoint -> Nat]
    /\ papers \subseteq Paper

Accepted == {m \in Msg : accepted[m] # None}

\* An envelope repeats the sender's entry, a receipt the acceptance.
PapersTrue ==
    \A p \in papers :
        /\ signed[p.id] # None
        /\ p.kind = "envelope" => p.at = created[p.id]
        /\ p.kind = "receipt" => accepted[p.id] = [at |-> p.at, seq |-> p.seq]

\* A call is where the log says its message is.
CallsTrue ==
    \A m \in Msg :
        /\ call[m] = "guard" => signed[m] # None /\ accepted[m] = None
        /\ call[m] = "ack" => accepted[m] # None

\* Proposed, released, accepted, in this order and at these times.
Ordered ==
    \A m \in Msg :
        /\ signed[m] # None => created[m] # None
        /\ created[m] # None => created[m] <= SrcNow
        /\ accepted[m] # None =>
               /\ signed[m] # None
               /\ accepted[m].at <= DstNow
               /\ created[m] - skew <= accepted[m].at

\* No acceptance has a number the log has not reached.
Numbered == \A m \in Accepted : accepted[m].seq <= Cardinality(Accepted)

IInv == TypeOK /\ PapersTrue /\ CallsTrue /\ Ordered /\ Numbered

-----------------------------------------------------------------------------
LEMMA Skewed ==
    ASSUME skew \in Skews
    PROVE  skew \in Int
BY ChannelAssumption

\* What the log says of no message has changed.
LEMMA LogsKept ==
    ASSUME IInv, UNCHANGED <<clock, srcLog, dstLog>>,
           TypeOK', PapersTrue', CallsTrue'
    PROVE  IInv'
BY DEF IInv, clock, srcLog, dstLog, Ordered, Numbered, Accepted, SrcNow, DstNow

LEMMA InitInv == Init => IInv
<1> SUFFICES ASSUME Init PROVE IInv
    OBVIOUS
<1> USE ChannelAssumption DEF Init
<1>1. TypeOK
    BY DEF TypeOK, Paper
<1>2. PapersTrue /\ CallsTrue /\ Ordered /\ Numbered
    BY DEF PapersTrue, CallsTrue, Ordered, Numbered, Accepted
<1> QED BY <1>1, <1>2 DEF IInv

LEMMA TickInv == IInv /\ Tick => IInv'
<1> SUFFICES ASSUME IInv, Tick PROVE IInv'
    OBVIOUS
<1> USE DEF Tick, srcLog, dstLog, keys
<1>1. TypeOK' /\ PapersTrue' /\ CallsTrue'
    BY DEF IInv, TypeOK, PapersTrue, CallsTrue
<1>2. SrcNow <= SrcNow' /\ DstNow <= DstNow' /\ SrcNow \in Int /\ SrcNow' \in Int
    BY Skewed DEF IInv, TypeOK, SrcNow, DstNow
<1>3. Ordered'
    BY <1>2, ChannelAssumption DEF IInv, TypeOK, Ordered, SrcNow, DstNow, Stamp
<1>4. Numbered'
    BY DEF IInv, Numbered, Accepted
<1> QED BY <1>1, <1>3, <1>4 DEF IInv

LEMMA ProposeInv ==
    ASSUME IInv, NEW m \in Msg, Propose(m)
    PROVE  IInv'
<1> USE DEF Propose, clock, dstLog, keys
<1>1. SrcNow \in Int /\ SrcNow' = SrcNow
    BY Skewed DEF IInv, TypeOK, SrcNow
<1>2. created' = [created EXCEPT ![m] = SrcNow] /\ created[m] = None /\ signed[m] = None
    BY DEF IInv, Ordered
<1>3. TypeOK'
    BY <1>1, <1>2 DEF IInv, TypeOK
<1>4. PapersTrue'
    BY <1>2 DEF IInv, TypeOK, PapersTrue, Paper
<1>5. CallsTrue'
    BY DEF IInv, CallsTrue
<1>6. accepted[m] = None
    BY <1>2 DEF IInv, Ordered
<1>7. Ordered'
    BY <1>1, <1>2, <1>6, ChannelAssumption DEF IInv, TypeOK, Ordered, DstNow
<1>8. Numbered'
    BY DEF IInv, Numbered, Accepted
<1> QED BY <1>3, <1>4, <1>5, <1>7, <1>8 DEF IInv

LEMMA ReleaseInv ==
    ASSUME IInv, NEW m \in Msg, Release(m)
    PROVE  IInv'
<1> USE DEF Release, clock, dstLog, keys
<1>1. key["src"] \in Nat /\ key["src"] # None
    BY ChannelAssumption DEF IInv, TypeOK, Endpoint
<1>2. TypeOK'
    BY <1>1 DEF IInv, TypeOK
<1>3. PapersTrue' /\ CallsTrue' /\ Ordered'
    BY <1>1 DEF IInv, TypeOK, PapersTrue, CallsTrue, Ordered, SrcNow, DstNow
<1>4. Numbered'
    BY DEF IInv, Numbered, Accepted
<1> QED BY <1>2, <1>3, <1>4 DEF IInv

LEMMA OfferInv ==
    ASSUME IInv, NEW m \in Msg, Offer(m)
    PROVE  IInv'
<1> USE DEF Offer, keys
<1>1. SignedEnvelope(m) \in Paper
    BY DEF IInv, TypeOK, Ordered, SignedEnvelope, Paper
<1>2. TypeOK'
    BY <1>1 DEF IInv, TypeOK, clock, srcLog, dstLog
<1>3. PapersTrue' /\ CallsTrue'
    BY DEF IInv, TypeOK, PapersTrue, CallsTrue, SignedEnvelope, clock, srcLog, dstLog
<1> QED BY <1>2, <1>3, LogsKept

LEMMA ConfirmInv ==
    ASSUME IInv, NEW r \in papers, Confirm(r)
    PROVE  IInv'
<1> USE DEF Confirm, clock, dstLog, keys
<1>1. [at |-> r.at, seq |-> r.seq] \in Stamp /\ r.id \in Msg
    BY DEF IInv, TypeOK, Paper, Stamp
<1>2. TypeOK'
    BY <1>1 DEF IInv, TypeOK
<1>3. PapersTrue' /\ CallsTrue' /\ Ordered' /\ Numbered'
    BY DEF IInv, PapersTrue, CallsTrue, Ordered, Numbered, Accepted, SrcNow, DstNow
<1> QED BY <1>2, <1>3 DEF IInv

\* The receipt of an acceptance is a paper that repeats it.
LEMMA ReceiptTrue ==
    ASSUME IInv, NEW m \in Msg, accepted[m] # None
    PROVE  /\ SignedReceipt(m) \in Paper
           /\ SignedReceipt(m).kind = "receipt" /\ SignedReceipt(m).id = m
           /\ accepted[m] = [at |-> SignedReceipt(m).at, seq |-> SignedReceipt(m).seq]
           /\ signed[m] # None
BY DEF IInv, TypeOK, Ordered, SignedReceipt, Paper, Stamp, Endpoint

LEMMA ReceiptKeepsPapersTrue ==
    ASSUME IInv, NEW m \in Msg, accepted[m] # None,
           UNCHANGED <<created, signed, accepted>>,
           papers' = papers \cup {SignedReceipt(m)}
    PROVE  PapersTrue'
<1> SUFFICES ASSUME NEW p \in papers'
             PROVE  /\ signed[p.id] # None
                    /\ p.kind = "envelope" => p.at = created[p.id]
                    /\ p.kind = "receipt" => accepted[p.id] = [at |-> p.at, seq |-> p.seq]
    BY DEF PapersTrue
<1>1. CASE p \in papers
    BY <1>1 DEF IInv, PapersTrue
<1>2. CASE p = SignedReceipt(m)
    BY <1>2, ReceiptTrue
<1> QED BY <1>1, <1>2

LEMMA ReceiveInv ==
    ASSUME IInv, NEW e \in papers, Receive(e)
    PROVE  IInv'
<1> USE DEF Receive, keys
<1>1. e.id \in Msg /\ signed[e.id] # None
    BY DEF IInv, TypeOK, Paper, PapersTrue
<1>2. CASE accepted[e.id] # None /\ issued[e.id] = key["dst"]
  <2>1. papers' = papers \cup {SignedReceipt(e.id)} /\ UNCHANGED call
      BY <1>2
  <2>2. TypeOK'
      BY <1>1, <1>2, <2>1, ReceiptTrue DEF IInv, TypeOK, clock, srcLog, dstLog
  <2>3. PapersTrue'
      BY <1>1, <1>2, <2>1, ReceiptKeepsPapersTrue DEF srcLog, dstLog
  <2>4. CallsTrue'
      BY <2>1 DEF IInv, CallsTrue, srcLog, dstLog
  <2> QED BY <2>2, <2>3, <2>4, LogsKept
<1>3. CASE ~ (accepted[e.id] # None /\ issued[e.id] = key["dst"])
  <2>1. /\ call' = [call EXCEPT ![e.id] = IF accepted[e.id] = None THEN "guard" ELSE "ack"]
        /\ UNCHANGED papers
      BY <1>3
  <2>2. TypeOK'
      BY <2>1 DEF IInv, TypeOK, clock, srcLog, dstLog
  <2>3. PapersTrue'
      BY <2>1 DEF IInv, PapersTrue, srcLog, dstLog
  <2>4. CallsTrue'
      BY <1>1, <2>1 DEF IInv, TypeOK, CallsTrue, srcLog, dstLog
  <2> QED BY <2>2, <2>3, <2>4, LogsKept
<1> QED BY <1>2, <1>3

\* What Accept does to the acceptances, for the invariant and the refinement.
LEMMA AcceptFacts ==
    ASSUME IInv, NEW m \in Msg, Accept(m)
    PROVE  /\ m \notin Accepted /\ accepted[m] = None /\ signed[m] # None
           /\ accepted' = [accepted EXCEPT ![m] =
                               [at |-> DstNow, seq |-> Cardinality(Accepted) + 1]]
           /\ [at |-> DstNow, seq |-> Cardinality(Accepted) + 1] \in Stamp
           /\ [at |-> DstNow, seq |-> Cardinality(Accepted) + 1] # None
           /\ IsFiniteSet(Accepted) /\ Cardinality(Accepted) \in Nat
<1>1. accepted[m] = None /\ signed[m] # None
    BY DEF IInv, CallsTrue, Accept
<1>2. IsFiniteSet(Accepted) /\ Cardinality(Accepted) \in Nat
  <2>1. Accepted \subseteq Msg
      BY DEF Accepted
  <2> QED BY <2>1, ChannelAssumption, FS_Subset, FS_CardinalityType
<1>3. [at |-> DstNow, seq |-> Cardinality(Accepted) + 1] \in Stamp
    BY <1>2 DEF IInv, TypeOK, Stamp, DstNow
<1>4. accepted' = [accepted EXCEPT ![m] =
                       [at |-> DstNow, seq |-> Cardinality(Accepted) + 1]]
    BY DEF Accept, Accepted
<1> QED BY <1>1, <1>2, <1>3, <1>4, ChannelAssumption DEF Accepted

LEMMA AcceptInv ==
    ASSUME IInv, NEW m \in Msg, Accept(m)
    PROVE  IInv'
<1> DEFINE stamp == [at |-> DstNow, seq |-> Cardinality(Accepted) + 1]
<1>1. /\ m \notin Accepted /\ accepted[m] = None /\ signed[m] # None
      /\ accepted' = [accepted EXCEPT ![m] = stamp]
      /\ stamp \in Stamp /\ stamp # None
      /\ IsFiniteSet(Accepted) /\ Cardinality(Accepted) \in Nat
    BY AcceptFacts
<1>2. stamp.at = DstNow /\ stamp.seq = Cardinality(Accepted) + 1
    OBVIOUS
<1>3. UNCHANGED <<now, skew, created, signed, confirmed, issued, up, key, papers>>
    BY DEF Accept, clock, srcLog, keys
<1>4. call' = [call EXCEPT ![m] = "ack"]
    BY DEF Accept
<1> HIDE DEF stamp
<1>5. TypeOK'
    BY <1>1, <1>3, <1>4 DEF IInv, TypeOK
<1>6. PapersTrue'
  <2> SUFFICES ASSUME NEW p \in papers
               PROVE  /\ signed[p.id] # None
                      /\ p.kind = "envelope" => p.at = created[p.id]
                      /\ p.kind = "receipt" => accepted'[p.id] = [at |-> p.at, seq |-> p.seq]
      BY <1>3 DEF PapersTrue
  <2>1. p.id \in Msg /\ [at |-> p.at, seq |-> p.seq] # None
      BY ChannelAssumption DEF IInv, TypeOK, Paper, Stamp
  <2>2. /\ signed[p.id] # None
        /\ p.kind = "envelope" => p.at = created[p.id]
        /\ p.kind = "receipt" => accepted[p.id] = [at |-> p.at, seq |-> p.seq]
      BY DEF IInv, PapersTrue
  <2>3. p.kind = "receipt" => p.id # m
      BY <1>1, <2>1, <2>2
  <2> QED BY <1>1, <2>1, <2>2, <2>3 DEF IInv, TypeOK
<1>7. CallsTrue'
    BY <1>1, <1>3, <1>4 DEF IInv, TypeOK, CallsTrue
<1>8. Ordered'
  <2>1. created[m] # None /\ created[m] \in Int /\ created[m] <= SrcNow
      BY <1>1 DEF IInv, TypeOK, Ordered
  <2>2. created[m] - skew <= DstNow
      BY <2>1, Skewed DEF IInv, TypeOK, SrcNow, DstNow
  <2> QED BY <1>1, <1>2, <1>3, <2>1, <2>2 DEF IInv, TypeOK, Ordered, SrcNow, DstNow
<1>9. Numbered'
  <2>1. Accepted' = Accepted \cup {m}
      BY <1>1 DEF IInv, TypeOK, Accepted
  <2>2. Cardinality(Accepted') = Cardinality(Accepted) + 1
      BY <1>1, <2>1, FS_AddElement
  <2>3. ASSUME NEW n \in Accepted' PROVE accepted'[n].seq <= Cardinality(Accepted')
    <3>1. CASE n = m
        BY <1>1, <1>2, <2>2, <3>1 DEF IInv, TypeOK
    <3>2. CASE n # m
      <4>1. n \in Accepted /\ accepted'[n] = accepted[n] /\ accepted[n].seq \in Nat
          BY <1>1, <2>1, <3>2 DEF IInv, TypeOK, Accepted, Stamp
      <4> QED BY <1>1, <2>2, <4>1 DEF IInv, Numbered
    <3> QED BY <3>1, <3>2
  <2> QED BY <2>3 DEF Numbered
<1> QED BY <1>5, <1>6, <1>7, <1>8, <1>9 DEF IInv

LEMMA IssueAckInv ==
    ASSUME IInv, NEW m \in Msg, IssueAck(m)
    PROVE  IInv'
<1> USE DEF IssueAck, clock, srcLog, keys
<1>1. accepted[m] # None
    BY DEF IInv, CallsTrue
<1>2. TypeOK'
    BY <1>1, ReceiptTrue DEF IInv, TypeOK, Endpoint
<1>3. PapersTrue'
    BY <1>1, ReceiptKeepsPapersTrue
<1>4. CallsTrue'
    BY DEF IInv, TypeOK, CallsTrue
<1>5. Ordered' /\ Numbered'
    BY DEF IInv, Ordered, Numbered, Accepted, SrcNow, DstNow
<1> QED BY <1>2, <1>3, <1>4, <1>5 DEF IInv

\* Servers, operators and faults: papers disappear, calls end, keys change.
LEMMA OperatorsInv ==
    ASSUME IInv, UNCHANGED <<clock, srcLog, dstLog>>,
           papers' \subseteq papers,
           key' \in [Endpoint -> Nat],
           call' \in [Msg -> {"none", "guard", "ack"}],
           \A m \in Msg : call'[m] \in {"none", call[m]}
    PROVE  IInv'
<1>1. TypeOK'
    BY DEF IInv, TypeOK, clock, srcLog, dstLog
<1>2. PapersTrue'
    BY DEF IInv, PapersTrue, srcLog, dstLog
<1>3. CallsTrue'
    BY DEF IInv, CallsTrue, srcLog, dstLog
<1> QED BY <1>1, <1>2, <1>3, LogsKept

LEMMA StepInv == IInv /\ [Next]_vars => IInv'
<1> SUFFICES ASSUME IInv, [Next]_vars PROVE IInv'
    OBVIOUS
<1>0. key \in [Endpoint -> Nat] /\ call \in [Msg -> {"none", "guard", "ack"}]
    BY DEF IInv, TypeOK
<1>1. CASE Tick
    BY <1>1, TickInv
<1>2. ASSUME NEW m \in Msg, Propose(m) \/ Release(m) \/ Offer(m) PROVE IInv'
    BY <1>2, ProposeInv, ReleaseInv, OfferInv
<1>3. ASSUME NEW p \in papers, Receive(p) \/ Confirm(p) PROVE IInv'
    BY <1>3, ReceiveInv, ConfirmInv
<1>4. ASSUME NEW p \in papers, Lose(p) PROVE IInv'
    BY <1>0, <1>4, OperatorsInv DEF Lose, keys
<1>5. ASSUME NEW m \in Msg, Accept(m) \/ IssueAck(m) PROVE IInv'
    BY <1>5, AcceptInv, IssueAckInv
<1>6. ASSUME NEW m \in Msg, CallFails(m) PROVE IInv'
    BY <1>0, <1>6, OperatorsInv DEF CallFails, keys
<1>7. ASSUME NEW e \in Endpoint, Start(e) \/ RotatePin(e) PROVE IInv'
    BY <1>0, <1>7, OperatorsInv DEF Start, RotatePin
<1>8. ASSUME NEW e \in Endpoint, StopToReload(e) \/ Dies(e) PROVE IInv'
    BY <1>0, <1>8, OperatorsInv DEF StopToReload, Dies, Stops, keys
<1>9. ASSUME NEW e \in Endpoint, RotateIdentity(e) PROVE IInv'
  <2>1. key' \in [Endpoint -> Nat]
      BY <1>0, <1>9 DEF RotateIdentity
  <2> QED BY <1>0, <1>9, <2>1, OperatorsInv DEF RotateIdentity
<1>10. CASE UNCHANGED vars
    BY <1>0, <1>10, OperatorsInv DEF vars, clock, srcLog, dstLog
<1> QED
    BY <1>1, <1>2, <1>3, <1>4, <1>5, <1>6, <1>7, <1>8, <1>9, <1>10 DEF Next

LEMMA Invariance == Spec => []IInv
BY InitInv, StepInv, PTL DEF Spec

-----------------------------------------------------------------------------
\* Both age checks measure from different stamps on different clocks.  Whatever
\* envelope dst would still take again has a receipt that is at most twice the
\* difference of the clocks too old for src, and that src would still confirm if
\* its clock is not ahead and behind by no more than the tolerance; for every
\* maximum age and tolerance and clocks any distance apart.
THEOREM RetriesPay == Spec => []ReceiptOutlivesEnvelope
<1>1. IInv => ReceiptOutlivesEnvelope
  <2> SUFFICES ASSUME IInv, NEW m \in Msg, accepted[m] # None,
                      DstNow - created[m] <= MaxMessageAge
               PROVE  /\ SrcNow - accepted[m].at <= MaxMessageAge + 2 * skew
                      /\ skew \in -Tolerance..0 => Confirmable(accepted[m])
      BY DEF ReceiptOutlivesEnvelope
  <2>1. skew \in Int /\ now \in Int
      BY Skewed DEF IInv, TypeOK
  <2>2. accepted[m].at \in Int /\ created[m] \in Int
      BY DEF IInv, TypeOK, Ordered, Stamp
  <2>3. accepted[m].at <= now /\ created[m] - skew <= accepted[m].at
      BY DEF IInv, Ordered, DstNow
  <2>4. SrcNow - accepted[m].at <= MaxMessageAge + 2 * skew
      BY <2>1, <2>2, <2>3, ChannelAssumption DEF SrcNow, DstNow
  <2>5. skew \in -Tolerance..0 => Confirmable(accepted[m])
      BY <2>1, <2>2, <2>3, <2>4, ChannelAssumption DEF Confirmable, SrcNow
  <2> QED BY <2>4, <2>5
<1> QED BY <1>1, Invariance, PTL

-----------------------------------------------------------------------------
(* Refinement: a step releases, accepts or confirms one message, or nothing *)
(* Delivery sees.                                                           *)

Released == {m \in Msg : signed[m] # None}

LEMMA ReleaseRefines ==
    ASSUME IInv, NEW m \in Msg, Release(m)
    PROVE  D!Next
<1>1. key["src"] # None
    BY ChannelAssumption DEF IInv, TypeOK, Endpoint
<1>2. m \notin Released /\ Released' = Released \cup {m}
    BY <1>1 DEF IInv, TypeOK, Release, Released
<1>3. UNCHANGED <<accepted, confirmed>>
    BY DEF Release, dstLog
<1> QED BY <1>2, <1>3 DEF D!Next, D!Release, Released

LEMMA AcceptRefines ==
    ASSUME IInv, NEW m \in Msg, Accept(m)
    PROVE  D!Next
<1> DEFINE stamp == [at |-> DstNow, seq |-> Cardinality(Accepted) + 1]
<1>1. /\ accepted[m] = None /\ m \in Released
      /\ accepted' = [accepted EXCEPT ![m] = stamp]
      /\ stamp \in Stamp
      /\ Cardinality(Accepted) \in Nat
    BY AcceptFacts DEF Released
<1>2. accepted'[m] = stamp
    BY <1>1 DEF IInv, TypeOK
<1>3. ASSUME NEW n \in Msg PROVE accepted[n] # stamp
  <2>1. CASE accepted[n] = None
      BY <2>1, <1>1, ChannelAssumption
  <2>2. CASE accepted[n] # None
    <3>1. accepted[n].seq <= Cardinality(Accepted) /\ accepted[n].seq \in Nat
        BY <2>2 DEF IInv, TypeOK, Numbered, Accepted, Stamp
    <3> QED BY <1>1, <3>1
  <2> QED BY <2>1, <2>2
<1>4. UNCHANGED <<Released, confirmed>>
    BY DEF Accept, srcLog, Released
<1> HIDE DEF stamp
<1>5. D!Accept(m)
    BY <1>1, <1>2, <1>3, <1>4 DEF D!Accept, Released
<1> QED BY <1>5 DEF D!Next

LEMMA ConfirmRefines ==
    ASSUME IInv, NEW r \in papers, Confirm(r)
    PROVE  D!Next
<1>1. r.id \in Msg /\ accepted[r.id] = [at |-> r.at, seq |-> r.seq]
    BY DEF IInv, TypeOK, Paper, PapersTrue, Confirm
<1>2. accepted[r.id] # None
    BY <1>1, ChannelAssumption DEF IInv, TypeOK, Paper, Stamp
<1>3. D!Confirm(r.id)
    BY <1>1, <1>2 DEF Confirm, dstLog, D!Confirm
<1> QED BY <1>1, <1>3 DEF D!Next

LEMMA NextRefines == IInv /\ [Next]_vars => [D!Next]_(D!vars)
<1> SUFFICES ASSUME IInv, [Next]_vars PROVE [D!Next]_(D!vars)
    OBVIOUS
<1> USE DEF D!vars, clock, srcLog, dstLog
<1>1. CASE Tick
    BY <1>1 DEF Tick
<1>2. ASSUME NEW m \in Msg, Propose(m) \/ Offer(m) PROVE UNCHANGED D!vars
    BY <1>2 DEF Propose, Offer
<1>3. ASSUME NEW m \in Msg, Release(m) PROVE D!Next
    BY <1>3, ReleaseRefines
<1>4. ASSUME NEW p \in papers, Confirm(p) PROVE D!Next
    BY <1>4, ConfirmRefines
<1>5. ASSUME NEW p \in papers, Receive(p) \/ Lose(p) PROVE UNCHANGED D!vars
    BY <1>5 DEF Receive, Lose
<1>6. ASSUME NEW m \in Msg, Accept(m) PROVE D!Next
    BY <1>6, AcceptRefines
<1>7. ASSUME NEW m \in Msg, IssueAck(m) \/ CallFails(m) PROVE UNCHANGED D!vars
    BY <1>7 DEF IssueAck, CallFails
<1>8. ASSUME NEW e \in Endpoint,
             Start(e) \/ StopToReload(e) \/ RotateIdentity(e) \/ RotatePin(e) \/ Dies(e)
      PROVE  UNCHANGED D!vars
    BY <1>8 DEF Start, StopToReload, RotateIdentity, RotatePin, Dies, Stops
<1>9. CASE UNCHANGED vars
    BY <1>9 DEF vars
<1> QED
    BY <1>1, <1>2, <1>3, <1>4, <1>5, <1>6, <1>7, <1>8, <1>9 DEF Next

\* Receive and Confirm implement Delivery: however papers are lost, repeated and
\* delayed, servers die and keys rotate, a message is accepted at most once and
\* confirmed only with the receipt of that acceptance.
THEOREM Refinement == Spec => ImplementsDelivery
<1>1. Init => D!Init
    BY DEF Init, D!Init
<1> QED BY <1>1, NextRefines, Invariance, PTL DEF Spec, ImplementsDelivery, D!Spec
=============================================================================
