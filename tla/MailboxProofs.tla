--------------------------- MODULE MailboxProofs ---------------------------
(***************************************************************************)
(* Proofs about Mailbox, for every number of goroutines, requests, texts,  *)
(* message IDs and envelopes, every bound, and any restarts.               *)
(*                                                                         *)
(* What one more entry changes in the replay comes first, then one         *)
(* invariant after another, each with the ones before it: TInv (types),    *)
(* CInv (claims), SInv (Send), RInv (Receive), KInv (Confirm), GInv        *)
(* (the guards), OInv (the inbox, one call at a time).                     *)
(***************************************************************************)
EXTENDS Mailbox, FiniteSetTheorems, WellFoundedInduction, TLAPS

(***************************************************************************)
(* Positions in the log.                                                   *)
(***************************************************************************)

\* A nonempty set of numbers has a least member.
LEMMA LeastMember ==
    ASSUME NEW T \in SUBSET Nat, T # {}
    PROVE  \E x \in T : \A y \in T : x <= y
<1> DEFINE Less == {p \in Nat \X Nat : p[1] < p[2]}
<1>1. IsWellFoundedOn(Less, Nat)
  BY NatLessThanWellFounded, Zenon DEF OpToRel
<1>2. \E x \in T : \A y \in T : ~ (<<y, x>> \in Less)
  <2> HIDE DEF Less
  <2> QED BY <1>1, WFMin, Zenon
<1>3. \A x, y \in T : ~ (<<y, x>> \in Less) => x <= y
  OBVIOUS
<1> HIDE DEF Less
<1> QED BY <1>2, <1>3

\* The last of a set of positions, 0 when there is none.
Latest(S) == IF S # {} THEN Max(S) ELSE 0

LEMMA LatestIs ==
    ASSUME NEW n \in Nat, NEW S \in SUBSET (1..n)
    PROVE  /\ Latest(S) \in 0..n
           /\ Latest(S) = 0 <=> S = {}
           /\ S # {} => Latest(S) \in S
           /\ \A i \in S : i <= Latest(S)
<1>1. CASE S = {}
  BY <1>1 DEF Latest
<1>2. CASE S # {}
  <2> DEFINE Above == {k \in Nat : \A i \in S : i <= k}
  <2>1. PICK k \in Above : \A j \in Above : k <= j
    <3>1. n \in Above /\ Above \in SUBSET Nat
      OBVIOUS
    <3> HIDE DEF Above
    <3> QED BY <3>1, LeastMember
  <2>2. k \in S
    <3> SUFFICES ASSUME k \notin S PROVE FALSE
      OBVIOUS
    <3>1. PICK i \in S : TRUE
      BY <1>2
    <3>2. k - 1 \in Above
      BY <2>1, <3>1
    <3> QED BY <2>1, <3>2
  <2>3. \A i \in S : i <= k
    BY <2>1
  <2>4. Max(S) = k
    <3>1. /\ \A y \in S : k >= y
          /\ \A x \in S : (\A y \in S : x >= y) => x = k
      BY <2>2, <2>3
    <3> QED BY <2>2, <3>1, Zenon DEF Max
  <2> QED BY <1>2, <2>2, <2>3, <2>4 DEF Latest
<1> QED BY <1>1, <1>2

\* The greatest of some positions and one more number.
LEMMA MaxWithin ==
    ASSUME NEW n \in Nat, NEW S \in SUBSET (1..n), NEW a \in 0..n
    PROVE  /\ Max(S \cup {a}) \in 0..n
           /\ Max(S \cup {a}) \in S \cup {a}
           /\ \A i \in S \cup {a} : i <= Max(S \cup {a})
<1> DEFINE k == IF a > Latest(S) THEN a ELSE Latest(S)
<1>1. /\ Latest(S) \in 0..n /\ (Latest(S) = 0 <=> S = {})
      /\ S # {} => Latest(S) \in S
      /\ \A i \in S : i <= Latest(S)
  BY LatestIs
<1>2. k \in 0..n /\ k \in S \cup {a} /\ \A i \in S \cup {a} : i <= k
  BY <1>1
<1>3. \A x \in S \cup {a} : x \in Nat
  OBVIOUS
<1> HIDE DEF k
<1>4. Max(S \cup {a}) = k
  <2>1. /\ \A y \in S \cup {a} : k >= y
        /\ \A x \in S \cup {a} : (\A y \in S \cup {a} : x >= y) => x = k
    BY <1>2, <1>3
  <2> QED BY <1>2, <2>1, Zenon DEF Max
<1> QED BY <1>2, <1>4

\* The next position becomes the last one.
LEMMA LatestNext ==
    ASSUME NEW n \in Nat, NEW S \in SUBSET (1..n)
    PROVE  Latest(S \cup {n + 1}) = n + 1
<1>1. /\ Latest(S \cup {n + 1}) \in 0..(n + 1)
      /\ \A i \in S \cup {n + 1} : i <= Latest(S \cup {n + 1})
  <2>1. n + 1 \in Nat /\ S \cup {n + 1} \in SUBSET (1..(n + 1))
    OBVIOUS
  <2> QED BY <2>1, LatestIs
<1> QED BY <1>1

\* What an appended entry does to the log.
LEMMA Appended ==
    ASSUME NEW l \in Seq(Entry), NEW e \in Entry
    PROVE  /\ Append(l, e) \in Seq(Entry)
           /\ Len(l) \in Nat
           /\ Len(Append(l, e)) = Len(l) + 1
           /\ DOMAIN l = 1..Len(l)
           /\ DOMAIN Append(l, e) = 1..(Len(l) + 1)
           /\ DOMAIN Append(l, e) = DOMAIN l \cup {Len(l) + 1}
           /\ Len(l) + 1 \notin DOMAIN l
           /\ Append(l, e)[Len(l) + 1] = e
           /\ \A i \in 1..Len(l) : Append(l, e)[i] = l[i]
OBVIOUS

\* Entries of one type about one message, in either direction or in one; and
\* entries of some types about one request.
At(l, type, id) == {i \in 1..Len(l) : l[i].type = type /\ l[i].id = id}
About(l, type, dir, id) ==
    {i \in 1..Len(l) : /\ l[i].type = type
                       /\ l[i].dir = dir /\ l[i].id = id}
Proposals(l, r) ==
    {i \in 1..Len(l) : l[i].type = "message_submitted" /\ l[i].req = r}
Outcomes(l, r) ==
    {i \in 1..Len(l) : /\ l[i].type \in {"message_blocked", "outbound_released"}
                       /\ l[i].dir = "outbound" /\ l[i].req = r}
Acceptances(l) == {i \in 1..Len(l) : l[i].type = "inbound_accepted"}

LEMMA AppendedPositions ==
    ASSUME NEW l \in Seq(Entry), NEW e \in Entry
    PROVE  /\ \A type, id :
                  At(Append(l, e), type, id) =
                      IF e.type = type /\ e.id = id
                      THEN At(l, type, id) \cup {Len(l) + 1} ELSE At(l, type, id)
           /\ \A type, dir, id :
                  About(Append(l, e), type, dir, id) =
                      IF e.type = type /\ e.dir = dir /\ e.id = id
                      THEN About(l, type, dir, id) \cup {Len(l) + 1}
                      ELSE About(l, type, dir, id)
           /\ \A r : Proposals(Append(l, e), r) =
                         IF e.type = "message_submitted" /\ e.req = r
                         THEN Proposals(l, r) \cup {Len(l) + 1} ELSE Proposals(l, r)
           /\ \A r : Outcomes(Append(l, e), r) =
                         IF /\ e.type \in {"message_blocked", "outbound_released"}
                            /\ e.dir = "outbound" /\ e.req = r
                         THEN Outcomes(l, r) \cup {Len(l) + 1} ELSE Outcomes(l, r)
           /\ Acceptances(Append(l, e)) =
                  IF e.type = "inbound_accepted"
                  THEN Acceptances(l) \cup {Len(l) + 1} ELSE Acceptances(l)
<1> DEFINE m == Append(l, e)
<1>1. Len(m) = Len(l) + 1 /\ Len(l) \in Nat /\ m[Len(l) + 1] = e
      /\ \A i \in 1..Len(l) : m[i] = l[i]
  BY Appended
<1>2. \A i : i \in 1..Len(m) <=> i \in 1..Len(l) \/ i = Len(l) + 1
  BY <1>1
<1>3. Len(l) + 1 \notin 1..Len(l)
  BY <1>1
<1> HIDE DEF m
<1>4. \A type, id : At(m, type, id) =
                      IF e.type = type /\ e.id = id
                      THEN At(l, type, id) \cup {Len(l) + 1} ELSE At(l, type, id)
  BY <1>1, <1>2, <1>3 DEF At
<1>5. \A type, dir, id :
                  About(m, type, dir, id) =
                      IF e.type = type /\ e.dir = dir /\ e.id = id
                      THEN About(l, type, dir, id) \cup {Len(l) + 1}
                      ELSE About(l, type, dir, id)
  BY <1>1, <1>2, <1>3 DEF About
<1>6. \A r : Proposals(m, r) =
                         IF e.type = "message_submitted" /\ e.req = r
                         THEN Proposals(l, r) \cup {Len(l) + 1} ELSE Proposals(l, r)
  BY <1>1, <1>2, <1>3 DEF Proposals
<1>7. \A r : Outcomes(m, r) =
                         IF /\ e.type \in {"message_blocked", "outbound_released"}
                            /\ e.dir = "outbound" /\ e.req = r
                         THEN Outcomes(l, r) \cup {Len(l) + 1} ELSE Outcomes(l, r)
  BY <1>1, <1>2, <1>3 DEF Outcomes
<1>8. Acceptances(m) = IF e.type = "inbound_accepted"
                  THEN Acceptances(l) \cup {Len(l) + 1} ELSE Acceptances(l)
  BY <1>1, <1>2, <1>3 DEF Acceptances
<1> QED BY <1>4, <1>5, <1>6, <1>7, <1>8 DEF m

\* LastPos, in the terms of those sets.
LEMMA LastPositions ==
    ASSUME NEW l
    PROVE  /\ \A r : LastPos(l, LAMBDA e : e.type = "message_submitted" /\ e.req = r)
                         = Latest(Proposals(l, r))
           /\ \A r : LastPos(l, LAMBDA e :
                                /\ e.type \in {"message_blocked", "outbound_released"}
                                /\ e.dir = "outbound" /\ e.req = r)
                         = Latest(Outcomes(l, r))
           /\ \A id : LastPos(l, LAMBDA e : e.type = "outbound_released" /\ e.id = id)
                          = Latest(At(l, "outbound_released", id))
           /\ \A id : LastPos(l, LAMBDA e : e.type = "inbound_accepted" /\ e.id = id)
                          = Latest(At(l, "inbound_accepted", id))
           /\ \A id : LastPos(l, LAMBDA e : e.type = "acknowledgement_issued" /\ e.id = id)
                          = Latest(At(l, "acknowledgement_issued", id))
           /\ \A id : LastPos(l, LAMBDA e : e.type = "inbound_verified" /\ e.id = id)
                          = Latest(At(l, "inbound_verified", id))
           /\ \A id : LastPos(l, LAMBDA e : e.type = "delivery_confirmed" /\ e.id = id)
                          = Latest(At(l, "delivery_confirmed", id))
BY DEF LastPos, SelectLastInSeq, Latest, Proposals, Outcomes, At

(***************************************************************************)
(* What one more entry changes in the replay of the log.                   *)
(***************************************************************************)

ConfirmedAt(l, id) == Latest(At(l, "delivery_confirmed", id))

\* The result an entry ends a request with.
Outcome(e, n) ==
    IF e.type = "message_blocked"
    THEN SendOut(e.id, "denied", "deny", e.why, None, n)
    ELSE SendOut(e.what.id, "released", e.what.dec, e.why, e.what, n)
Ends(e, r) ==
    /\ e.type \in {"message_blocked", "outbound_released"}
    /\ e.dir = "outbound" /\ e.req = r

LEMMA Rebuilt ==
    ASSUME NEW l
    PROVE  /\ \A r : RebuiltRequest(l, r) =
                  LET s == Latest(Proposals(l, r))
                      f == Latest(Outcomes(l, r))
                  IN  IF s = 0 THEN None
                      ELSE [bind |-> l[s].what, id |-> l[s].id, created |-> s,
                            final |-> f > s,
                            out |-> IF f > s THEN Outcome(l[f], f) ELSE None]
           /\ \A id : RebuiltSent(l, id) =
                  LET f == Latest(At(l, "outbound_released", id))
                  IN  IF f = 0 THEN None ELSE l[f].what
           /\ \A id : RebuiltSeen(l, id) =
                  LET f == Latest(At(l, "inbound_verified", id))
                  IN  IF f = 0 THEN None ELSE l[f].what
           /\ \A id : RebuiltReceived(l, id) =
                  LET a == Latest(At(l, "inbound_accepted", id))
                      k == Latest(At(l, "acknowledgement_issued", id))
                  IN  IF a = 0 THEN None
                      ELSE [env |-> l[a].what, seq |-> a,
                            out |-> ReceiveOut(id, l[a].dec, l[a].why,
                                               IF k > a THEN l[k].ack ELSE None,
                                               IF k > a THEN k ELSE a)]
<1>1. \A r : RebuiltRequest(l, r) =
                  LET s == Latest(Proposals(l, r))
                      f == Latest(Outcomes(l, r))
                  IN  IF s = 0 THEN None
                      ELSE [bind |-> l[s].what, id |-> l[s].id, created |-> s,
                            final |-> f > s,
                            out |-> IF f > s THEN Outcome(l[f], f) ELSE None]
  <2> SUFFICES ASSUME NEW r
               PROVE  RebuiltRequest(l, r) =
                  LET s == Latest(Proposals(l, r))
                      f == Latest(Outcomes(l, r))
                  IN  IF s = 0 THEN None
                      ELSE [bind |-> l[s].what, id |-> l[s].id, created |-> s,
                            final |-> f > s,
                            out |-> IF f > s THEN Outcome(l[f], f) ELSE None]
    OBVIOUS
  <2> QED BY DEF RebuiltRequest, Outcome, LastPos, SelectLastInSeq, Latest,
                 Proposals, Outcomes
<1>2. \A id : RebuiltSent(l, id) =
                  LET f == Latest(At(l, "outbound_released", id))
                  IN  IF f = 0 THEN None ELSE l[f].what
  BY LastPositions DEF RebuiltSent
<1>3. \A id : RebuiltSeen(l, id) =
                  LET f == Latest(At(l, "inbound_verified", id))
                  IN  IF f = 0 THEN None ELSE l[f].what
  BY LastPositions DEF RebuiltSeen
<1>4. \A id : RebuiltReceived(l, id) =
                  LET a == Latest(At(l, "inbound_accepted", id))
                      k == Latest(At(l, "acknowledgement_issued", id))
                  IN  IF a = 0 THEN None
                      ELSE [env |-> l[a].what, seq |-> a,
                            out |-> ReceiveOut(id, l[a].dec, l[a].why,
                                               IF k > a THEN l[k].ack ELSE None,
                                               IF k > a THEN k ELSE a)]
  BY LastPositions DEF RebuiltReceived
<1> QED BY <1>1, <1>2, <1>3, <1>4

\* Each set of positions lies within the log.
LEMMA PositionsWithin ==
    ASSUME NEW l \in Seq(Entry)
    PROVE  /\ Len(l) \in Nat
           /\ \A type, id : At(l, type, id) \in SUBSET (1..Len(l))
           /\ \A type, dir, id : About(l, type, dir, id) \in SUBSET (1..Len(l))
           /\ \A r : Proposals(l, r) \in SUBSET (1..Len(l))
           /\ \A r : Outcomes(l, r) \in SUBSET (1..Len(l))
           /\ Acceptances(l) \in SUBSET (1..Len(l))
BY DEF At, About, Proposals, Outcomes, Acceptances

LEMMA AppendedLatest ==
    ASSUME NEW l \in Seq(Entry), NEW e \in Entry
    PROVE  /\ \A type, id :
                  Latest(At(Append(l, e), type, id)) =
                      IF e.type = type /\ e.id = id
                      THEN Len(l) + 1 ELSE Latest(At(l, type, id))
           /\ \A type, dir, id :
                  Latest(About(Append(l, e), type, dir, id)) =
                      IF e.type = type /\ e.dir = dir /\ e.id = id
                      THEN Len(l) + 1 ELSE Latest(About(l, type, dir, id))
           /\ \A r : Latest(Proposals(Append(l, e), r)) =
                         IF e.type = "message_submitted" /\ e.req = r
                         THEN Len(l) + 1 ELSE Latest(Proposals(l, r))
           /\ \A r : Latest(Outcomes(Append(l, e), r)) =
                         IF Ends(e, r) THEN Len(l) + 1 ELSE Latest(Outcomes(l, r))
<1>1. Len(l) \in Nat
  OBVIOUS
<1>2. /\ \A type, id : Latest(At(l, type, id) \cup {Len(l) + 1}) = Len(l) + 1
      /\ \A type, dir, id :
             Latest(About(l, type, dir, id) \cup {Len(l) + 1}) = Len(l) + 1
      /\ \A r : Latest(Proposals(l, r) \cup {Len(l) + 1}) = Len(l) + 1
      /\ \A r : Latest(Outcomes(l, r) \cup {Len(l) + 1}) = Len(l) + 1
  BY <1>1, PositionsWithin, LatestNext
<1>3. \A type, id : Latest(At(Append(l, e), type, id)) =
                      IF e.type = type /\ e.id = id
                      THEN Len(l) + 1 ELSE Latest(At(l, type, id))
  BY <1>2, AppendedPositions
<1>4. \A type, dir, id : Latest(About(Append(l, e), type, dir, id)) =
                      IF e.type = type /\ e.dir = dir /\ e.id = id
                      THEN Len(l) + 1 ELSE Latest(About(l, type, dir, id))
  BY <1>2, AppendedPositions
<1>5. \A r : Latest(Proposals(Append(l, e), r)) =
                         IF e.type = "message_submitted" /\ e.req = r
                         THEN Len(l) + 1 ELSE Latest(Proposals(l, r))
  BY <1>2, AppendedPositions
<1>6. \A r : Latest(Outcomes(Append(l, e), r)) =
                         IF Ends(e, r) THEN Len(l) + 1 ELSE Latest(Outcomes(l, r))
  BY <1>2, AppendedPositions DEF Ends
<1> QED BY <1>3, <1>4, <1>5, <1>6

\* A last position is 0 or a position in the log.
LEMMA LatestWithin ==
    ASSUME NEW l \in Seq(Entry)
    PROVE  /\ \A type, id : LET p == Latest(At(l, type, id))
                            IN  /\ p \in 0..Len(l)
                                /\ p > 0 => l[p].type = type /\ l[p].id = id
           /\ \A type, dir, id : LET p == Latest(About(l, type, dir, id))
                            IN  /\ p \in 0..Len(l)
                                /\ p > 0 => /\ l[p].type = type
                                            /\ l[p].dir = dir /\ l[p].id = id
           /\ \A r : LET p == Latest(Proposals(l, r))
                     IN  /\ p \in 0..Len(l)
                         /\ p > 0 => l[p].type = "message_submitted" /\ l[p].req = r
           /\ \A r : LET p == Latest(Outcomes(l, r))
                     IN  /\ p \in 0..Len(l)
                         /\ p > 0 => Ends(l[p], r)
<1>1. \A type, id : LET p == Latest(At(l, type, id))
                   IN  p \in 0..Len(l) /\ (p > 0 => p \in At(l, type, id))
  BY PositionsWithin, LatestIs
<1>2. \A type, dir, id : LET p == Latest(About(l, type, dir, id))
                   IN  p \in 0..Len(l) /\ (p > 0 => p \in About(l, type, dir, id))
  BY PositionsWithin, LatestIs
<1>3. \A r : LET p == Latest(Proposals(l, r))
            IN  p \in 0..Len(l) /\ (p > 0 => p \in Proposals(l, r))
  BY PositionsWithin, LatestIs
<1>4. \A r : LET p == Latest(Outcomes(l, r))
            IN  p \in 0..Len(l) /\ (p > 0 => p \in Outcomes(l, r))
  BY PositionsWithin, LatestIs
<1>5. \A type, id : \A p \in At(l, type, id) : l[p].type = type /\ l[p].id = id
  BY DEF At
<1>6. \A type, dir, id : \A p \in About(l, type, dir, id) :
          l[p].type = type /\ l[p].dir = dir /\ l[p].id = id
  BY DEF About
<1>7. \A r : \A p \in Proposals(l, r) : l[p].type = "message_submitted" /\ l[p].req = r
  BY DEF Proposals
<1>8. \A r : \A p \in Outcomes(l, r) : Ends(l[p], r)
  BY DEF Outcomes, Ends
<1> QED BY <1>1, <1>2, <1>3, <1>4, <1>5, <1>6, <1>7, <1>8

LEMMA AppendedReplay ==
    ASSUME NEW l \in Seq(Entry), NEW e \in Entry
    PROVE  /\ \A r : RebuiltRequest(Append(l, e), r) =
                  IF e.type = "message_submitted" /\ e.req = r
                  THEN [bind |-> e.what, id |-> e.id, created |-> Len(l) + 1,
                        final |-> FALSE, out |-> None]
                  ELSE IF Ends(e, r) /\ Latest(Proposals(l, r)) # 0
                  THEN [bind |-> RebuiltRequest(l, r).bind,
                        id |-> RebuiltRequest(l, r).id,
                        created |-> RebuiltRequest(l, r).created,
                        final |-> TRUE, out |-> Outcome(e, Len(l) + 1)]
                  ELSE RebuiltRequest(l, r)
           /\ \A id : RebuiltSent(Append(l, e), id) =
                  IF e.type = "outbound_released" /\ e.id = id
                  THEN e.what ELSE RebuiltSent(l, id)
           /\ \A id : RebuiltSeen(Append(l, e), id) =
                  IF e.type = "inbound_verified" /\ e.id = id
                  THEN e.what ELSE RebuiltSeen(l, id)
           /\ \A id : ConfirmedAt(Append(l, e), id) =
                  IF e.type = "delivery_confirmed" /\ e.id = id
                  THEN Len(l) + 1 ELSE ConfirmedAt(l, id)
           /\ \A id : RebuiltReceived(Append(l, e), id) =
                  IF e.type = "inbound_accepted" /\ e.id = id
                  THEN [env |-> e.what, seq |-> Len(l) + 1,
                        out |-> ReceiveOut(id, e.dec, e.why, None, Len(l) + 1)]
                  ELSE IF /\ e.type = "acknowledgement_issued" /\ e.id = id
                          /\ Latest(At(l, "inbound_accepted", id)) # 0
                  THEN [env |-> RebuiltReceived(l, id).env,
                        seq |-> RebuiltReceived(l, id).seq,
                        out |-> ReceiveOut(id, RebuiltReceived(l, id).out.dec,
                                           RebuiltReceived(l, id).out.why,
                                           e.ack, Len(l) + 1)]
                  ELSE RebuiltReceived(l, id)
<1> DEFINE m == Append(l, e)
           n == Len(l)
<1>1. /\ m \in Seq(Entry) /\ n \in Nat /\ m[n + 1] = e
      /\ \A i \in 1..n : m[i] = l[i]
  BY Appended
<1>2. /\ \A r : Latest(Proposals(l, r)) \in 0..n
      /\ \A r : Latest(Outcomes(l, r)) \in 0..n
      /\ \A type, id : Latest(At(l, type, id)) \in 0..n
  BY LatestWithin
<1>3. /\ \A type, id : Latest(At(m, type, id)) =
                      IF e.type = type /\ e.id = id
                      THEN n + 1 ELSE Latest(At(l, type, id))
      /\ \A r : Latest(Proposals(m, r)) =
                         IF e.type = "message_submitted" /\ e.req = r
                         THEN n + 1 ELSE Latest(Proposals(l, r))
      /\ \A r : Latest(Outcomes(m, r)) =
                         IF Ends(e, r) THEN n + 1 ELSE Latest(Outcomes(l, r))
  BY AppendedLatest
<1> HIDE DEF m, n
<1>4. ASSUME NEW r
      PROVE  RebuiltRequest(m, r) =
                  IF e.type = "message_submitted" /\ e.req = r
                  THEN [bind |-> e.what, id |-> e.id, created |-> n + 1,
                        final |-> FALSE, out |-> None]
                  ELSE IF Ends(e, r) /\ Latest(Proposals(l, r)) # 0
                  THEN [bind |-> RebuiltRequest(l, r).bind,
                        id |-> RebuiltRequest(l, r).id,
                        created |-> RebuiltRequest(l, r).created,
                        final |-> TRUE, out |-> Outcome(e, n + 1)]
                  ELSE RebuiltRequest(l, r)
  <2> DEFINE s == Latest(Proposals(l, r))
             f == Latest(Outcomes(l, r))
             t == Latest(Proposals(m, r))
             g == Latest(Outcomes(m, r))
  <2>1. RebuiltRequest(l, r) =
            IF s = 0 THEN None
            ELSE [bind |-> l[s].what, id |-> l[s].id, created |-> s, final |-> f > s,
                  out |-> IF f > s THEN Outcome(l[f], f) ELSE None]
    BY Rebuilt
  <2>2. RebuiltRequest(m, r) =
            IF t = 0 THEN None
            ELSE [bind |-> m[t].what, id |-> m[t].id, created |-> t, final |-> g > t,
                  out |-> IF g > t THEN Outcome(m[g], g) ELSE None]
    BY Rebuilt
  <2>3. /\ t = IF e.type = "message_submitted" /\ e.req = r THEN n + 1 ELSE s
        /\ g = IF Ends(e, r) THEN n + 1 ELSE f
        /\ s \in 0..n /\ f \in 0..n
    BY <1>2, <1>3
  <2>4. ~ (e.type = "message_submitted" /\ Ends(e, r))
    BY DEF Ends
  <2> HIDE DEF s, f, t, g
  <2>5. CASE e.type = "message_submitted" /\ e.req = r
    <3>1. t = n + 1 /\ g = f /\ t # 0 /\ (g > t) = FALSE /\ m[t] = e
      BY <1>1, <2>3, <2>4, <2>5
    <3> QED BY <2>2, <2>5, <3>1
  <2>6. CASE Ends(e, r) /\ s # 0
    <3>1. t = s /\ g = n + 1
      BY <2>3, <2>4, <2>6
    <3>2. t # 0 /\ g > t /\ m[g] = e /\ m[t] = l[t]
      BY <1>1, <2>3, <2>6, <3>1 DEF s
    <3>3. RebuiltRequest(m, r) =
              [bind |-> l[s].what, id |-> l[s].id, created |-> s,
               final |-> TRUE, out |-> Outcome(e, n + 1)]
      BY <2>2, <3>1, <3>2
    <3>4. /\ RebuiltRequest(l, r).bind = l[s].what
          /\ RebuiltRequest(l, r).id = l[s].id
          /\ RebuiltRequest(l, r).created = s
      BY <2>1, <2>6 DEF s
    <3> QED BY <2>4, <2>6, <3>3, <3>4 DEF s
  <2>7. CASE Ends(e, r) /\ s = 0
    BY <1>1, <2>1, <2>2, <2>3, <2>4, <2>7 DEF s
  <2>8. CASE ~ (e.type = "message_submitted" /\ e.req = r) /\ ~ Ends(e, r)
    <3>1. t = s /\ g = f
      BY <2>3, <2>8
    <3>2. f > s => f \in 1..n
      BY <1>1, <2>3
    <3> QED BY <1>1, <2>1, <2>2, <2>3, <2>8, <3>1, <3>2
  <2> QED BY <2>5, <2>6, <2>7, <2>8 DEF s
<1>5. \A id : RebuiltSent(m, id) = IF e.type = "outbound_released" /\ e.id = id
                                   THEN e.what ELSE RebuiltSent(l, id)
  BY <1>1, <1>2, <1>3, Rebuilt
<1>6. \A id : RebuiltSeen(m, id) = IF e.type = "inbound_verified" /\ e.id = id
                                   THEN e.what ELSE RebuiltSeen(l, id)
  BY <1>1, <1>2, <1>3, Rebuilt
<1>7. \A id : ConfirmedAt(m, id) = IF e.type = "delivery_confirmed" /\ e.id = id
                                   THEN n + 1 ELSE ConfirmedAt(l, id)
  BY <1>3 DEF ConfirmedAt
<1>8. ASSUME NEW id
      PROVE  RebuiltReceived(m, id) =
                  IF e.type = "inbound_accepted" /\ e.id = id
                  THEN [env |-> e.what, seq |-> n + 1,
                        out |-> ReceiveOut(id, e.dec, e.why, None, n + 1)]
                  ELSE IF /\ e.type = "acknowledgement_issued" /\ e.id = id
                          /\ Latest(At(l, "inbound_accepted", id)) # 0
                  THEN [env |-> RebuiltReceived(l, id).env,
                        seq |-> RebuiltReceived(l, id).seq,
                        out |-> ReceiveOut(id, RebuiltReceived(l, id).out.dec,
                                           RebuiltReceived(l, id).out.why,
                                           e.ack, n + 1)]
                  ELSE RebuiltReceived(l, id)
  <2> DEFINE a == Latest(At(l, "inbound_accepted", id))
             k == Latest(At(l, "acknowledgement_issued", id))
             b == Latest(At(m, "inbound_accepted", id))
             j == Latest(At(m, "acknowledgement_issued", id))
  <2>1. RebuiltReceived(l, id) =
            IF a = 0 THEN None
            ELSE [env |-> l[a].what, seq |-> a,
                  out |-> ReceiveOut(id, l[a].dec, l[a].why,
                                     IF k > a THEN l[k].ack ELSE None,
                                     IF k > a THEN k ELSE a)]
    BY Rebuilt
  <2>2. RebuiltReceived(m, id) =
            IF b = 0 THEN None
            ELSE [env |-> m[b].what, seq |-> b,
                  out |-> ReceiveOut(id, m[b].dec, m[b].why,
                                     IF j > b THEN m[j].ack ELSE None,
                                     IF j > b THEN j ELSE b)]
    BY Rebuilt
  <2>3. /\ b = IF e.type = "inbound_accepted" /\ e.id = id THEN n + 1 ELSE a
        /\ j = IF e.type = "acknowledgement_issued" /\ e.id = id THEN n + 1 ELSE k
        /\ a \in 0..n /\ k \in 0..n
    BY <1>2, <1>3
  <2> HIDE DEF a, k, b, j
  <2>5. CASE e.type = "inbound_accepted" /\ e.id = id
    BY <1>1, <2>2, <2>3, <2>5
  <2>6. CASE e.type = "acknowledgement_issued" /\ e.id = id /\ a # 0
    <3>1. b = a /\ j = n + 1 /\ b # 0 /\ j > b /\ m[j] = e /\ m[b] = l[b]
      BY <1>1, <2>3, <2>6
    <3>2. RebuiltReceived(m, id) =
              [env |-> l[a].what, seq |-> a,
               out |-> ReceiveOut(id, l[a].dec, l[a].why, e.ack, n + 1)]
      BY <2>2, <3>1
    <3>3. /\ RebuiltReceived(l, id).env = l[a].what
          /\ RebuiltReceived(l, id).seq = a
          /\ RebuiltReceived(l, id).out.dec = l[a].dec
          /\ RebuiltReceived(l, id).out.why = l[a].why
      BY <2>1, <2>6 DEF ReceiveOut
    <3> QED BY <2>6, <3>2, <3>3 DEF a
  <2>7. CASE e.type = "acknowledgement_issued" /\ e.id = id /\ a = 0
    BY <1>1, <2>1, <2>2, <2>3, <2>7 DEF a
  <2>8. CASE e.type \notin {"inbound_accepted", "acknowledgement_issued"} \/ e.id # id
    <3>1. b = a /\ j = k
      BY <2>3, <2>8
    <3>2. k > a => k \in 1..n
      BY <1>1, <2>3
    <3> QED BY <1>1, <2>1, <2>2, <2>3, <2>8, <3>1, <3>2
  <2> QED BY <2>5, <2>6, <2>7, <2>8 DEF a
<1> QED BY <1>4, <1>5, <1>6, <1>7, <1>8 DEF m, n

\* How many members of a set of positions there are up to one of them.
Upto(S, m) == {j \in S : j <= m}
Rank(S, m) == Cardinality(Upto(S, m))

\* InOrder lists exactly the members of a set of positions, in order.
LEMMA InOrderIs ==
    ASSUME NEW n \in Nat, NEW S \in SUBSET (1..n)
    PROVE  /\ Cardinality(S) \in Nat
           /\ InOrder(S) \in Seq(S)
           /\ Len(InOrder(S)) = Cardinality(S)
           /\ \A k \in 1..Cardinality(S) : InOrder(S)[k] \in S
           /\ \A i \in S : \E k \in 1..Cardinality(S) : InOrder(S)[k] = i
           /\ \A j, k \in 1..Cardinality(S) : j < k => InOrder(S)[j] < InOrder(S)[k]
<1>0. \A i \in S : i \in Nat /\ i \in Int /\ 1 <= i /\ i <= n
  OBVIOUS
<1>1. IsFiniteSet(S) /\ Cardinality(S) \in Nat
  <2>1. IsFiniteSet(1..n)
    BY FS_Interval
  <2> QED BY <2>1, FS_Subset, FS_CardinalityType
<1>2. \A m : IsFiniteSet(Upto(S, m)) /\ Rank(S, m) \in Nat /\ Rank(S, m) <= Cardinality(S)
  <2> SUFFICES ASSUME NEW m
               PROVE  IsFiniteSet(Upto(S, m)) /\ Rank(S, m) \in Nat /\ Rank(S, m) <= Cardinality(S)
    OBVIOUS
  <2>1. Upto(S, m) \in SUBSET S
    BY DEF Upto
  <2> QED BY <1>1, <2>1, FS_Subset, FS_CardinalityType DEF Rank
<1>3. Rank(S, 0) = 0
  <2>1. Upto(S, 0) = {}
    <3>1. \A j \in S : ~ (j <= 0)
      BY <1>0
    <3> QED BY <3>1 DEF Upto
  <2> QED BY <2>1, FS_EmptySet DEF Rank
<1>4. Rank(S, n) = Cardinality(S)
  <2>1. Upto(S, n) = S
    BY <1>0 DEF Upto
  <2> QED BY <2>1 DEF Rank
<1>5. ASSUME NEW m \in Nat \ {0}
      PROVE  /\ m \in S => Rank(S, m) = Rank(S, m - 1) + 1
             /\ m \notin S => Rank(S, m) = Rank(S, m - 1)
  <2>1. CASE m \in S
    <3>1. Upto(S, m) = Upto(S, m - 1) \cup {m} /\ m \notin Upto(S, m - 1)
      <4>1. /\ \A j \in S : j <= m <=> j <= m - 1 \/ j = m
            /\ ~ (m <= m - 1)
        BY <1>0
      <4> QED BY <2>1, <4>1 DEF Upto
    <3> QED BY <1>2, <2>1, <3>1, FS_AddElement DEF Rank
  <2>2. CASE m \notin S
    <3>1. Upto(S, m) = Upto(S, m - 1)
      <4>1. \A j \in S : j <= m <=> j <= m - 1
        BY <1>0, <2>2
      <4> QED BY <4>1 DEF Upto
    <3> QED BY <2>2, <3>1 DEF Rank
  <2> QED BY <2>1, <2>2
<1>6. ASSUME NEW i \in S, NEW k \in S, i < k
      PROVE  Rank(S, i) < Rank(S, k)
  <2>1. Upto(S, i) \in SUBSET Upto(S, k) /\ k \in Upto(S, k) /\ k \notin Upto(S, i)
    <3>1. /\ \A j \in S : j <= i => j <= k
          /\ k <= k /\ ~ (k <= i)
      BY <1>0, <1>6
    <3> QED BY <3>1 DEF Upto
  <2>2. Rank(S, i) <= Rank(S, k) /\ (Rank(S, k) = Rank(S, i) => Upto(S, k) = Upto(S, i))
    BY <1>2, <2>1, FS_Subset DEF Rank
  <2> QED BY <1>2, <2>1, <2>2
<1>7. ASSUME NEW k \in 1..Cardinality(S)
      PROVE  \E i \in S : Rank(S, i) = k
  <2> DEFINE Reach == {m \in Nat : Rank(S, m) >= k}
  <2>0. \A m \in Reach : m \in Nat /\ Rank(S, m) >= k
    OBVIOUS
  <2>1. PICK m \in Reach : \A j \in Reach : m <= j
    <3>1. n \in Reach /\ Reach \in SUBSET Nat
      BY <1>1, <1>4
    <3> HIDE DEF Reach
    <3> QED BY <3>1, LeastMember
  <2>2. m # 0
    BY <1>3
  <2>3. Rank(S, m - 1) < k
    <3>1. m \in Nat /\ m - 1 \in Nat /\ ~ (m <= m - 1)
      BY <2>0, <2>1, <2>2
    <3>2. m - 1 \notin Reach
      BY <2>1, <3>1
    <3>3. ~ (Rank(S, m - 1) >= k)
      BY <3>1, <3>2
    <3> QED BY <1>2, <3>3
  <2> HIDE DEF Reach
  <2>4. m \in S /\ Rank(S, m) = k
    BY <1>1, <1>2, <1>5, <2>0, <2>2, <2>3
  <2> QED BY <2>4
<1> DEFINE O == InOrder(S)
<1>8. \A k \in 1..Cardinality(S) : O[k] \in S /\ Rank(S, O[k]) = k
  <2> SUFFICES ASSUME NEW k \in 1..Cardinality(S)
               PROVE  O[k] \in S /\ Rank(S, O[k]) = k
    OBVIOUS
  <2>1. O[k] = CHOOSE i \in S : Rank(S, i) = k
    BY DEF InOrder, Rank, Upto
  <2> HIDE DEF O
  <2> QED BY <1>7, <2>1
<1>9. O = [k \in 1..Cardinality(S) |-> O[k]]
  BY DEF InOrder
<1> HIDE DEF O
<1>10. O \in Seq(S) /\ Len(O) = Cardinality(S)
  BY <1>1, <1>8, <1>9
<1>11. \A a, b \in S : a < b \/ b < a \/ a = b
  BY <1>0
<1>12. ASSUME NEW i \in S
       PROVE  \E k \in 1..Cardinality(S) : O[k] = i
  <2>1. i \in Nat \ {0} /\ i - 1 \in Nat
    BY <1>0
  <2>2. Rank(S, i) \in 1..Cardinality(S)
    <3>1. Rank(S, i) = Rank(S, i - 1) + 1
      BY <1>5, <2>1
    <3>2. Rank(S, i - 1) \in Nat /\ Rank(S, i) \in Nat /\ Rank(S, i) <= Cardinality(S)
      BY <1>2
    <3> QED BY <1>1, <3>1, <3>2
  <2>3. O[Rank(S, i)] \in S /\ Rank(S, O[Rank(S, i)]) = Rank(S, i)
    BY <1>8, <2>2
  <2>4. O[Rank(S, i)] = i
    <3>1. ~ (O[Rank(S, i)] < i) /\ ~ (i < O[Rank(S, i)])
      <4>1. ASSUME NEW j \in S, Rank(S, j) = Rank(S, i) PROVE ~ (j < i) /\ ~ (i < j)
        <5>1. Rank(S, i) \in Nat
          BY <1>2
        <5> QED BY <1>6, <4>1, <5>1
      <4> QED BY <2>3, <4>1
    <3> QED BY <1>11, <2>3, <3>1
  <2> QED BY <2>2, <2>4
<1>13. ASSUME NEW j \in 1..Cardinality(S), NEW k \in 1..Cardinality(S), j < k
       PROVE  O[j] < O[k]
  <2>1. O[j] \in S /\ O[k] \in S /\ Rank(S, O[j]) = j /\ Rank(S, O[k]) = k
    BY <1>8
  <2>2. ~ (O[k] < O[j]) /\ O[j] # O[k]
    <3>1. j \in Int /\ k \in Int /\ ~ (k < j) /\ j # k
      BY <1>1, <1>13
    <3> QED BY <1>6, <2>1, <3>1
  <2> QED BY <1>11, <2>1, <2>2
<1> QED BY <1>1, <1>8, <1>10, <1>12, <1>13 DEF O

(***************************************************************************)
(* Types: what the entries of the log and the running calls look like.     *)
(***************************************************************************)

EntryOK(e) ==
    /\ e.type = "message_submitted" =>
           /\ e.dir = "outbound" /\ e.id \in OutId
           /\ e.req \in Request /\ e.what \in Text
    /\ e.type = "outbound_released" =>
           /\ e.dir = "outbound" /\ e.id \in OutId /\ e.req \in Request
           /\ e.what \in Envelope /\ e.what.id = e.id /\ e.what.req = e.req
           /\ e.what.dec = e.dec
    /\ e.type = "message_blocked" =>
           IF e.dir = "outbound" THEN e.id \in OutId /\ e.req \in Request
                                 ELSE e.req = None
    /\ e.type \in {"inbound_verified", "inbound_accepted", "acknowledgement_issued"} =>
           /\ e.dir = "inbound" /\ e.id \in InId
           /\ e.what \in Inbound /\ e.what.id = e.id
    /\ e.type = "acknowledgement_issued" => e.ack \in Receipt
    /\ e.type \in {"deterministic_guard", "model_guard"} =>
           e.dec \in {"allow", "review", "deny"}

\* The steps both directions share, and those of Send and of Receive.
Evaluating == {"scan", "model", "deny", "review", "hold", "required", "consume"}
Sends == Evaluating \cup {"submit", "submitted", "release", "released", "denied"}
Receives == Evaluating \cup {"verify", "verified", "accept", "accepted", "ack", "acked"}

Sending(c) ==
    /\ c.pc \in Sends
    /\ \E r \in Request : c.key = <<"send", r>>
    /\ c.dir = "outbound"
    /\ c.what \in IF c.pc = "released" THEN Envelope ELSE Text
    /\ c.id \in IF c.pc = "submit" THEN {None} ELSE OutId
    /\ c.rec \in IF c.pc \in {"submit", "submitted"} THEN {None} ELSE RequestRecord
Receiving(c) ==
    /\ c.pc \in Receives
    /\ c.id \in InId
    /\ c.key = <<"receive", c.id>>
    /\ c.dir = "inbound"
    /\ c.what \in Inbound /\ c.what.id = c.id
    /\ c.rec \in IF c.pc \in {"ack", "acked"} THEN ReceivedRecord ELSE {None}
Confirming(c) ==
    /\ c.pc \in {"confirm_claim", "confirm", "confirmed"}
    /\ c.dir = "outbound"
    /\ c.id \in OutId
    /\ c.key = IF c.pc = "confirm_claim" THEN None ELSE <<"confirm", c.id>>
Reading(c) ==
    /\ c.pc = "read"
    /\ c.key = None /\ c.dir = None /\ c.id = None /\ c.what = None

CallOK(c) ==
    /\ c.pc \in {"model", "deny", "review", "hold", "required", "consume"} =>
           c.dec \in {"allow", "review", "deny"}
    /\ c = Idle \/ Sending(c) \/ Receiving(c) \/ Confirming(c) \/ Reading(c)

\* Sequence numbers kept outside the log are positions in it.
Placed ==
    /\ \A k \in DOMAIN index.inbox : index.inbox[k].seq \in DOMAIN log
    /\ \A w \in Worker : call[w].pc = "read" =>
           \A k \in DOMAIN call[w].page : call[w].page[k].seq \in DOMAIN log
    /\ \A w \in Worker : call[w].pc = "accepted" => call[w].ref \in DOMAIN log

\* While the process is down nothing runs and nothing is held.
DownIsQuiet ==
    ~ up => /\ ~ closing /\ logState = "closed" /\ active = {}
            /\ index = Rebuild(<< >>)
            /\ \A w \in Worker : call[w] = Idle

\* A request the index shows as final has its result.
Finished(x) ==
    \A r \in Request : x.requests[r] # None /\ x.requests[r].final
                           => x.requests[r].out \in SendResult

TInv ==
    /\ TypeOK
    /\ \A i \in DOMAIN log : EntryOK(log[i])
    /\ \A w \in Worker : CallOK(call[w])
    /\ Placed
    /\ Finished(index)
    /\ DownIsQuiet

LEMMA IdleOK ==
    /\ Idle \in Call /\ CallOK(Idle)
    /\ Idle.pc = "idle" /\ Idle.key = None /\ Idle.dir = None /\ Idle.id = None
    /\ Idle.what = None /\ Idle.dec = None /\ Idle.why = None /\ Idle.ref = 0
    /\ Idle.rec = None /\ Idle.page = << >>
BY DEF Idle, Call, CallOK, Pc, Content, Verdict, Why

\* Every entry a call may append is one.
LEMMA Appendable ==
    ASSUME NEW c \in Call, CallOK(c), NEW e \in Appending(c)
    PROVE  e \in Entry /\ EntryOK(e)
<1>1. /\ c.dir \in Direction \cup {None} /\ c.id \in MsgId \cup {None}
      /\ c.dec \in Verdict /\ c.why \in Why /\ c.ref \in Nat
  BY DEF Call
<1>2. c.pc \in {"submit", "release"} => Sending(c)
  BY DEF CallOK, Sending, Receiving, Confirming, Reading, Idle, Receives, Evaluating
<1>3. c.pc \in {"verify", "accept", "ack"} => Receiving(c)
  BY DEF CallOK, Sending, Receiving, Confirming, Reading, Idle, Sends, Evaluating
<1>4. c.pc \in Evaluating => Sending(c) \/ Receiving(c)
  BY DEF CallOK, Sending, Receiving, Confirming, Reading, Idle, Evaluating
<1>5. c.pc = "confirm" => Confirming(c)
  BY DEF CallOK, Sending, Receiving, Confirming, Reading, Idle, Sends, Receives, Evaluating
<1>6. Sending(c) => /\ c.key[2] \in Request /\ OutboundReq(c) \in Request
                    /\ c.pc # "released" => c.what \in Text
                    /\ c.pc # "submit" => c.id \in OutId
  BY DEF Sending, OutboundReq
<1>7. Receiving(c) => OutboundReq(c) = None
  BY DEF Receiving, OutboundReq
<1>8. CASE c.pc = "submit"
  <2>1. PICK id \in FreshIds : e = Submitted(c, id)
    BY <1>8 DEF Appending
  <2>2. id \in OutId
    BY DEF FreshIds
  <2>3. e = [type |-> "message_submitted", dir |-> "outbound", id |-> id,
             req |-> c.key[2], what |-> c.what, dec |-> None, why |-> None, ack |-> None]
    BY <1>2, <1>8, <2>1 DEF Submitted, EntryOf, Sending
  <2> QED BY <1>2, <1>6, <1>8, <2>2, <2>3
      DEF Entry, EntryOK, EntryType, Content, Verdict, Why, MsgId, Direction
<1>9. CASE c.pc = "verify"
  <2>1. e = [type |-> "inbound_verified", dir |-> "inbound", id |-> c.id, req |-> None,
             what |-> c.what, dec |-> None, why |-> None, ack |-> None]
    BY <1>3, <1>9 DEF Appending, InboundVerified, EntryOf, Receiving
  <2> QED BY <1>3, <1>9, <2>1
      DEF Entry, EntryOK, EntryType, Content, Verdict, Why, MsgId, Direction, Receiving
<1>10. CASE c.pc = "scan"
  <2>1. e = [type |-> "deterministic_guard", dir |-> c.dir, id |-> c.id, req |-> None,
             what |-> None, dec |-> Scan[Body(c)], why |-> "scan", ack |-> None]
    BY <1>10 DEF Appending, DeterministicVerdict, EntryOf
  <2>2. Scan[Body(c)] \in {"allow", "review", "deny"}
    <3>1. Body(c) \in Text
      BY <1>4, <1>10, MailboxAssumption DEF Body, Sending, Receiving, Evaluating
    <3> QED BY <3>1, MailboxAssumption
  <2> QED BY <1>1, <2>1, <2>2
      DEF Entry, EntryOK, EntryType, Content, Verdict, Why
<1>11. CASE c.pc = "model"
  <2>1. CASE e = GuardFailure(c)
    <3>1. e = [type |-> "guard_failed", dir |-> c.dir, id |-> c.id, req |-> None,
               what |-> None, dec |-> None, why |-> None, ack |-> None]
      BY <2>1 DEF GuardFailure, EntryOf
    <3> QED BY <1>1, <3>1 DEF Entry, EntryOK, EntryType, Content, Verdict, Why
  <2>2. ASSUME NEW m \in {"allow", "review", "deny"}, e = ModelVerdict(c, m)
        PROVE  e \in Entry /\ EntryOK(e)
    <3>1. e = [type |-> "model_guard", dir |-> c.dir, id |-> c.id, req |-> None,
               what |-> None, dec |-> m, why |-> "model", ack |-> None]
      BY <2>2 DEF ModelVerdict, EntryOf
    <3> QED BY <1>1, <3>1 DEF Entry, EntryOK, EntryType, Content, Verdict, Why
  <2> QED BY <1>11, <2>1, <2>2 DEF Appending
<1>12. CASE c.pc \in {"deny", "required", "consume"}
  <2>1. PICK type \in {"message_blocked", "approval_required", "approval_consumed"} :
            e = [type |-> type, dir |-> c.dir, id |-> c.id,
                 req |-> OutboundReq(c), what |-> None, dec |-> None, why |-> c.why,
                 ack |-> None]
    BY <1>12 DEF Appending, Blocked, ApprovalPending, ApprovalUsed, EntryOf
  <2>2. CASE Sending(c)
    <3>1. c.dir = "outbound" /\ c.id \in OutId
      BY <1>6, <1>12, <2>2 DEF Sending
    <3> QED BY <1>1, <1>6, <2>1, <2>2, <3>1
        DEF Entry, EntryOK, EntryType, Content, Direction, Verdict
  <2>3. CASE Receiving(c)
    <3>1. c.dir = "inbound"
      BY <2>3 DEF Receiving
    <3> QED BY <1>1, <1>7, <2>1, <2>3, <3>1
        DEF Entry, EntryOK, EntryType, Content, Direction, Verdict
  <2> QED BY <1>4, <1>12, <2>2, <2>3 DEF Evaluating
<1>13. CASE c.pc = "release"
  <2>0. Sending(c) /\ c.rec \in RequestRecord /\ c.dir = "outbound" /\ c.id \in OutId
    BY <1>2, <1>13 DEF Sending
  <2>1. SignedEnvelope(c) \in Envelope
    BY <1>1, <1>6, <1>13, <2>0 DEF SignedEnvelope, Envelope, RequestRecord
  <2>2. e = [type |-> "outbound_released", dir |-> "outbound", id |-> c.id,
             req |-> c.key[2], what |-> SignedEnvelope(c), dec |-> c.dec, why |-> c.why,
             ack |-> None]
    BY <1>13, <2>0 DEF Appending, Released, EntryOf
  <2>3. /\ SignedEnvelope(c).id = c.id /\ SignedEnvelope(c).req = c.key[2]
        /\ SignedEnvelope(c).dec = c.dec
    BY DEF SignedEnvelope
  <2> QED BY <1>1, <1>6, <2>0, <2>1, <2>2, <2>3
      DEF Entry, EntryOK, EntryType, Content, MsgId, Direction
<1>14. CASE c.pc = "accept"
  <2>1. e = [type |-> "inbound_accepted", dir |-> "inbound", id |-> c.id, req |-> None,
             what |-> c.what, dec |-> c.dec, why |-> c.why, ack |-> None]
    BY <1>3, <1>14 DEF Appending, Accepted, EntryOf, Receiving
  <2> QED BY <1>1, <1>3, <1>14, <2>1
      DEF Entry, EntryOK, EntryType, Content, MsgId, Direction, Receiving
<1>15. CASE c.pc = "ack"
  <2>0. Receiving(c) /\ c.rec \in ReceivedRecord
    BY <1>3, <1>15 DEF Receiving
  <2>1. e = [type |-> "acknowledgement_issued", dir |-> "inbound", id |-> c.id,
             req |-> None, what |-> c.what, dec |-> None, why |-> None,
             ack |-> [env |-> c.rec.env, seq |-> c.rec.seq]]
    BY <1>15, <2>0 DEF Appending, AckIssued, EntryOf, Receiving
  <2>2. [env |-> c.rec.env, seq |-> c.rec.seq] \in Receipt
    BY <2>0 DEF ReceivedRecord, Receipt
  <2> QED BY <2>0, <2>1, <2>2
      DEF Entry, EntryOK, EntryType, Content, MsgId, Direction, Verdict, Why, Receiving
<1>16. CASE c.pc \in {"confirm", "read"}
  <2>1. PICK type \in {"delivery_confirmed", "inbox_read"} :
            e = [type |-> type, dir |-> c.dir, id |-> c.id, req |-> None, what |-> None,
                 dec |-> None, why |-> None, ack |-> None]
    BY <1>16 DEF Appending, DeliveryConfirmed, InboxRead, EntryOf
  <2> QED BY <1>1, <2>1 DEF Entry, EntryOK, EntryType, Content, Verdict, Why
<1>17. c.pc \in Writing
  BY DEF Appending, Writing
<1> QED BY <1>8, <1>9, <1>10, <1>11, <1>12, <1>13, <1>14, <1>15, <1>16, <1>17 DEF Writing

\* The log only grows, by one entry at a time: in a step of a call, by one that
\* call may append.
LEMMA StepAppends ==
    ASSUME NEW w \in Worker, Step(w)
    PROVE  log' = log \/ \E e \in Appending(call[w]) : log' = Append(log, e)
<1>1. CASE Submit(w)
  BY <1>1 DEF Submit, Commit, Appending
<1>2. CASE DeterministicGuard(w)
  BY <1>2 DEF DeterministicGuard, Commit, Appending
<1>3. CASE \E m \in {"allow", "review", "deny"} : ModelGuard(w, m)
  BY <1>3 DEF ModelGuard, Commit, Appending
<1>4. CASE GuardFailed(w)
  BY <1>4 DEF GuardFailed, Appending
<1>5. CASE Block(w) \/ ApprovalRequired(w) \/ ConsumeApproval(w)
  BY <1>5 DEF Block, ApprovalRequired, ConsumeApproval, Commit, Appending
<1>6. CASE Release(w) \/ Verify(w) \/ Accept(w) \/ IssueAck(w)
  BY <1>6 DEF Release, Verify, Accept, IssueAck, Commit, Appending
<1>7. CASE AppendConfirm(w) \/ InboxReturn(w)
  BY <1>7 DEF AppendConfirm, InboxReturn, Commit, Appending
<1>8. CASE \/ RecordRequest(w) \/ CheckApproval(w) \/ SavePending(w)
           \/ SavePendingFails(w) \/ RecordFinal(w) \/ RecordSeen(w)
           \/ Publish(w) \/ RecordAck(w) \/ ConfirmClaim(w) \/ RecordConfirm(w)
  BY <1>8 DEF RecordRequest, CheckApproval, SavePending, SavePendingFails, RecordFinal,
              RecordSeen, Publish, RecordAck, ConfirmClaim, RecordConfirm
<1>9. CASE AppendFails(w)
  BY <1>9 DEF AppendFails
<1> QED BY <1>1, <1>2, <1>3, <1>4, <1>5, <1>6, <1>7, <1>8, <1>9, Step(w) DEF Step

LEMMA StartedOK == Started \in Entry /\ EntryOK(Started)
BY DEF Started, EntryOf, Idle, Entry, EntryOK, EntryType, Content, Verdict, Why

LEMMA NextAppends ==
    ASSUME TInv, [Next]_vars
    PROVE  \/ log' = log
           \/ \E e \in Entry : EntryOK(e) /\ log' = Append(log, e)
<1>1. ASSUME NEW w \in Worker, Step(w)
      PROVE  log' = log \/ \E e \in Entry : EntryOK(e) /\ log' = Append(log, e)
  BY <1>1, StepAppends, Appendable DEF TInv, TypeOK
<1>2. CASE Start \/ StartFails
  BY <1>2, StartedOK DEF Start, StartFails
<1>3. CASE \/ \E w \in Worker :
                  \/ \E r \in Request, t \in Text : SendClaim(w, r, t)
                  \/ \E e \in Inbound : ReceiveClaim(w, e)
                  \/ \E id \in OutId : ConfirmLookup(w, id)
                  \/ InboxSelect(w)
           \/ \E r \in Request, t \in Text : SendCached(r, t)
           \/ \E e \in Inbound : ReceiveCached(e)
           \/ \E id \in MsgId : Approve(id)
           \/ Shutdown \/ CloseLog \/ Crash \/ UNCHANGED vars
  BY <1>3 DEF SendClaim, ReceiveClaim, ConfirmLookup, InboxSelect, SendCached,
              ReceiveCached, Approve, Shutdown, CloseLog, Crash, vars
<1> QED BY <1>1, <1>2, <1>3, [Next]_vars DEF Next

\* What every step keeps of the log.
LEMMA LogKept ==
    ASSUME TInv, [Next]_vars
    PROVE  /\ log \in Seq(Entry) /\ log' \in Seq(Entry)
           /\ Len(log) \in Nat /\ Len(log') \in Nat /\ Len(log) <= Len(log')
           /\ DOMAIN log = 1..Len(log) /\ DOMAIN log' = 1..Len(log')
           /\ DOMAIN log \subseteq DOMAIN log'
           /\ \A i \in DOMAIN log : log'[i] = log[i]
           /\ \A i \in DOMAIN log' : EntryOK(log'[i])
<1>1. log \in Seq(Entry) /\ \A i \in DOMAIN log : EntryOK(log[i])
  BY DEF TInv, TypeOK
<1>2. CASE log' = log
  BY <1>1, <1>2
<1>3. ASSUME NEW e \in Entry, EntryOK(e), log' = Append(log, e)
      PROVE  /\ log \in Seq(Entry) /\ log' \in Seq(Entry)
             /\ Len(log) \in Nat /\ Len(log') \in Nat /\ Len(log) <= Len(log')
             /\ DOMAIN log = 1..Len(log) /\ DOMAIN log' = 1..Len(log')
             /\ DOMAIN log \subseteq DOMAIN log'
             /\ \A i \in DOMAIN log : log'[i] = log[i]
             /\ \A i \in DOMAIN log' : EntryOK(log'[i])
  <2>1. /\ log' \in Seq(Entry) /\ Len(log) \in Nat /\ Len(log') = Len(log) + 1
        /\ DOMAIN log = 1..Len(log) /\ DOMAIN log' = 1..(Len(log) + 1)
        /\ DOMAIN log' = DOMAIN log \cup {Len(log) + 1}
        /\ log'[Len(log) + 1] = e
        /\ \A i \in 1..Len(log) : log'[i] = log[i]
    BY <1>1, <1>3, Appended
  <2> QED BY <1>1, <1>3, <2>1
<1> QED BY <1>2, <1>3, NextAppends

LEMMA PcOK ==
    {"idle", "submit", "submitted", "scan", "model", "deny", "denied", "review", "hold",
     "required", "consume", "release", "released", "verify", "verified", "accept",
     "accepted", "ack", "acked", "confirm_claim", "confirm", "confirmed", "read"}
    \subseteq Pc
BY DEF Pc, Writing

\* The kind of a call, from where it is.
LEMMA KindOf ==
    ASSUME NEW c, CallOK(c)
    PROVE  /\ c.pc \in {"submit", "submitted", "release", "released", "denied"}
                  => Sending(c)
           /\ c.pc \in {"verify", "verified", "accept", "accepted", "ack", "acked"}
                  => Receiving(c)
           /\ c.pc \in Evaluating => Sending(c) \/ Receiving(c)
           /\ c.pc \in {"confirm_claim", "confirm", "confirmed"} => Confirming(c)
           /\ c.pc = "read" => Reading(c)
           /\ c.pc = "idle" => c = Idle
BY DEF CallOK, Sending, Receiving, Confirming, Reading, Idle, Sends, Receives, Evaluating

\* Going on to another step of the same kind.
LEMMA MovedOK ==
    ASSUME NEW c \in Call, NEW pc \in Pc, NEW n \in Nat
    PROVE  /\ [c EXCEPT !.pc = pc] \in Call
           /\ [c EXCEPT !.pc = pc, !.ref = n] \in Call
           /\ /\ Sending(c) /\ c.pc \notin {"submit", "submitted", "released"}
              /\ pc \in Sends \ {"submit", "submitted", "released"}
              => /\ Sending([c EXCEPT !.pc = pc])
                 /\ Sending([c EXCEPT !.pc = pc, !.ref = n])
           /\ /\ Receiving(c)
              /\ c.pc \in {"ack", "acked"} <=> pc \in {"ack", "acked"}
              /\ pc \in Receives
              => /\ Receiving([c EXCEPT !.pc = pc])
                 /\ Receiving([c EXCEPT !.pc = pc, !.ref = n])
<1>1. [c EXCEPT !.pc = pc] \in Call /\ [c EXCEPT !.pc = pc, !.ref = n] \in Call
  BY DEF Call
<1>2. ASSUME NEW d \in {[c EXCEPT !.pc = pc], [c EXCEPT !.pc = pc, !.ref = n]}
      PROVE  /\ d.pc = pc /\ d.key = c.key /\ d.dir = c.dir /\ d.id = c.id
             /\ d.what = c.what /\ d.rec = c.rec
  BY DEF Call
<1>3. ASSUME NEW d, /\ d.pc = pc /\ d.key = c.key /\ d.dir = c.dir /\ d.id = c.id
                    /\ d.what = c.what /\ d.rec = c.rec
      PROVE  /\ /\ Sending(c) /\ c.pc \notin {"submit", "submitted", "released"}
                /\ pc \in Sends \ {"submit", "submitted", "released"}
                => Sending(d)
             /\ /\ Receiving(c)
                /\ c.pc \in {"ack", "acked"} <=> pc \in {"ack", "acked"}
                /\ pc \in Receives
                => Receiving(d)
  BY <1>3 DEF Sending, Receiving
<1> QED BY <1>1, <1>2, <1>3

LEMMA AfterOK ==
    ASSUME NEW c \in Call, c.pc \in {"scan", "model"}, Sending(c) \/ Receiving(c),
           NEW v, v.dec \in {"allow", "review", "deny"}, v.why \in Why,
           Len(log) \in Nat
    PROVE  After(c, v) \in Call /\ CallOK(After(c, v))
<1> DEFINE pc == CASE v.dec = "deny"   -> "deny"
                   [] v.dec = "review" -> "review"
                   [] OTHER -> IF c.dir = "outbound" THEN "release" ELSE "accept"
           d == After(c, v)
<1>1. pc \in {"deny", "review", "release", "accept"} /\ pc \in Pc
  BY PcOK
<1>2. v.dec \in Verdict /\ NextSeq \in Nat
  BY DEF Verdict, NextSeq
<1>3. d = [c EXCEPT !.dec = v.dec, !.why = v.why, !.ref = NextSeq, !.pc = pc]
  BY DEF After
<1> HIDE DEF pc, d
<1>4. d \in Call
  BY <1>1, <1>2, <1>3 DEF Call
<1>5. /\ d.pc = pc /\ d.key = c.key /\ d.dir = c.dir /\ d.id = c.id
      /\ d.what = c.what /\ d.rec = c.rec /\ d.dec = v.dec
  BY <1>3 DEF Call
<1>6. CASE Sending(c)
  <2>1. pc \in {"deny", "review", "release"}
    BY <1>1, <1>6 DEF Sending, pc
  <2>2. Sending(d)
    BY <1>5, <1>6, <2>1 DEF Sending, Sends, Evaluating
  <2> QED BY <1>4, <1>5, <2>1, <2>2 DEF CallOK, d
<1>7. CASE Receiving(c)
  <2>1. pc \in {"deny", "review", "accept"}
    BY <1>1, <1>7 DEF Receiving, pc
  <2>2. Receiving(d)
    BY <1>5, <1>7, <2>1 DEF Receiving, Receives, Evaluating
  <2> QED BY <1>4, <1>5, <2>1, <2>2 DEF CallOK, d
<1> QED BY <1>6, <1>7

\* The calls after a step of one of them.
LEMMA StepCalls ==
    ASSUME TInv, NEW w \in Worker, Step(w)
    PROVE  \E d \in Call : CallOK(d) /\ call' = [call EXCEPT ![w] = d]
<1> DEFINE c == call[w]
           Goes == \E d \in Call : CallOK(d) /\ call' = [call EXCEPT ![w] = d]
<1>1. /\ call \in [Worker -> Call] /\ c \in Call /\ CallOK(c)
      /\ index \in Index /\ Len(log) \in Nat /\ NextSeq \in Nat
  BY DEF TInv, TypeOK, NextSeq
<1>2. Finish(w) => Goes
  BY IdleOK DEF Finish
<1>3. \A d \in Call : CallOK(d) /\ call' = [call EXCEPT ![w] = d] => Goes
  OBVIOUS
<1> HIDE DEF Goes
<1>4. /\ c.pc \in {"submit", "submitted", "release", "released", "denied"} => Sending(c)
      /\ c.pc \in {"verify", "verified", "accept", "accepted", "ack", "acked"}
             => Receiving(c)
      /\ c.pc \in Evaluating => Sending(c) \/ Receiving(c)
      /\ c.pc \in {"confirm_claim", "confirm", "confirmed"} => Confirming(c)
  <2> HIDE DEF c
  <2> QED BY <1>1, KindOf
<1>5. ASSUME NEW pc \in Pc, call' = [call EXCEPT ![w].pc = pc],
             \/ Sending(c) /\ c.pc \notin {"submit", "submitted", "released"}
                /\ pc \in Sends \ {"submit", "submitted", "released"}
             \/ Receiving(c) /\ pc \in Receives
                /\ (c.pc \in {"ack", "acked"} <=> pc \in {"ack", "acked"}),
             pc \in {"model", "deny", "review", "hold", "required", "consume"}
                 => c.dec \in {"allow", "review", "deny"}
      PROVE  Goes
  <2> DEFINE d == [c EXCEPT !.pc = pc]
  <2>1. call' = [call EXCEPT ![w] = d]
    BY <1>5
  <2>2. d.pc = pc /\ d.dec = c.dec
    BY <1>1 DEF Call
  <2>3. d \in Call /\ (Sending(d) \/ Receiving(d))
    <3> HIDE DEF c
    <3> QED BY <1>1, <1>5, MovedOK
  <2>4. CallOK(d)
    <3> HIDE DEF d, c
    <3> QED BY <1>5, <2>2, <2>3 DEF CallOK
  <2> QED BY <1>3, <2>1, <2>3, <2>4
<1>6. ASSUME NEW pc \in Pc, call' = [call EXCEPT ![w] = [c EXCEPT !.pc = pc, !.ref = NextSeq]],
             \/ Sending(c) /\ c.pc \notin {"submit", "submitted", "released"}
                /\ pc \in Sends \ {"submit", "submitted", "released"}
             \/ Receiving(c) /\ pc \in Receives
                /\ (c.pc \in {"ack", "acked"} <=> pc \in {"ack", "acked"}),
             pc \notin {"model", "deny", "review", "hold", "required", "consume"}
      PROVE  Goes
  <2> DEFINE d == [c EXCEPT !.pc = pc, !.ref = NextSeq]
  <2>2. d.pc = pc
    BY <1>1 DEF Call
  <2>3. d \in Call /\ (Sending(d) \/ Receiving(d))
    <3> HIDE DEF c
    <3> QED BY <1>1, <1>6, MovedOK
  <2>4. CallOK(d)
    <3> HIDE DEF d, c
    <3> QED BY <1>6, <2>2, <2>3 DEF CallOK
  <2> QED BY <1>3, <1>6, <2>3, <2>4
<1>7. ASSUME Submit(w) PROVE Goes
  <2>1. PICK id \in OutId : call' = [call EXCEPT ![w] =
            [c EXCEPT !.pc = "submitted", !.id = id, !.ref = NextSeq]]
    BY <1>7 DEF Submit, Commit, FreshIds
  <2>2. c.pc = "submit" /\ Sending(c)
    BY <1>4, <1>7 DEF Submit
  <2> DEFINE d == [c EXCEPT !.pc = "submitted", !.id = id, !.ref = NextSeq]
  <2> HIDE DEF c
  <2>3. id \in MsgId \cup {None} /\ "submitted" \in Pc
    BY PcOK DEF MsgId
  <2>4. d \in Call
    BY <1>1, <2>3 DEF Call
  <2>5. /\ d.pc = "submitted" /\ d.key = c.key /\ d.dir = c.dir /\ d.id = id
        /\ d.what = c.what /\ d.rec = c.rec
    BY <1>1 DEF Call
  <2> HIDE DEF d
  <2>6. Sending(d)
    BY <2>2, <2>5 DEF Sending, Sends
  <2>7. CallOK(d)
    BY <2>5, <2>6 DEF CallOK
  <2> QED BY <1>3, <2>1, <2>4, <2>7 DEF c, d
<1>8. ASSUME RecordRequest(w) PROVE Goes
  <2> DEFINE rec == [bind |-> c.what, id |-> c.id, created |-> c.ref,
                     final |-> FALSE, out |-> None]
             d == [c EXCEPT !.pc = "scan", !.rec = rec]
  <2>1. c.pc = "submitted" /\ Sending(c) /\ call' = [call EXCEPT ![w] = d]
    BY <1>1, <1>4, <1>8 DEF RecordRequest
  <2> HIDE DEF c
  <2>2. c.id \in OutId /\ c.what \in Text /\ c.ref \in Nat
    BY <1>1, <2>1 DEF Sending, Call
  <2>3. rec \in RequestRecord
    BY <2>2 DEF RequestRecord
  <2> HIDE DEF rec
  <2>4. rec \in RequestRecord \cup ReceivedRecord \cup {None} /\ "scan" \in Pc
    BY <2>3, PcOK
  <2>5. d \in Call
    BY <1>1, <2>4 DEF Call
  <2>6. /\ d.pc = "scan" /\ d.key = c.key /\ d.dir = c.dir /\ d.id = c.id
        /\ d.what = c.what /\ d.rec = rec
    BY <1>1 DEF Call
  <2> HIDE DEF d
  <2>7. Sending(d)
    BY <2>1, <2>2, <2>3, <2>6 DEF Sending, Sends, Evaluating
  <2>8. CallOK(d)
    BY <2>6, <2>7 DEF CallOK
  <2> QED BY <1>3, <2>1, <2>5, <2>8 DEF c
<1>9. ASSUME DeterministicGuard(w) PROVE Goes
  <2>1. c.pc = "scan" /\ (Sending(c) \/ Receiving(c))
    BY <1>4, <1>9 DEF DeterministicGuard, Evaluating
  <2>2. Scan[Body(c)] \in {"allow", "review", "deny"}
    <3> HIDE DEF c
    <3>1. Body(c) \in Text
      BY <2>1, MailboxAssumption DEF Body, Sending, Receiving
    <3> QED BY <3>1, MailboxAssumption
  <2>3. CASE Scan[Body(c)] = "deny"
    <3> DEFINE v == [dec |-> "deny", why |-> "scan"]
    <3>1. call' = [call EXCEPT ![w] = After(c, v)]
      BY <1>9, <2>3 DEF DeterministicGuard, Commit
    <3>2. v.dec \in {"allow", "review", "deny"} /\ v.why \in Why
      BY DEF Why
    <3> HIDE DEF c, v
    <3>3. After(c, v) \in Call /\ CallOK(After(c, v))
      BY <1>1, <2>1, <3>2, AfterOK
    <3> QED BY <1>3, <3>1, <3>3 DEF c
  <2>4. CASE Scan[Body(c)] # "deny"
    <3> DEFINE d == [c EXCEPT !.pc = "model", !.dec = Scan[Body(c)]]
    <3>1. call' = [call EXCEPT ![w] = d]
      BY <1>9, <2>4 DEF DeterministicGuard, Commit
    <3> HIDE DEF c
    <3>2. d \in Call
      <4>1. Scan[Body(c)] \in Verdict /\ "model" \in Pc
        BY <2>2, PcOK DEF Verdict
      <4> QED BY <1>1, <4>1 DEF Call
    <3>3. /\ d.pc = "model" /\ d.key = c.key /\ d.dir = c.dir /\ d.id = c.id
          /\ d.what = c.what /\ d.rec = c.rec /\ d.dec = Scan[Body(c)]
      BY <1>1 DEF Call
    <3> HIDE DEF d
    <3>4. Sending(d) \/ Receiving(d)
      BY <2>1, <3>3 DEF Sending, Receiving, Sends, Receives, Evaluating
    <3>5. CallOK(d)
      BY <2>2, <3>3, <3>4 DEF CallOK
    <3> QED BY <1>3, <3>1, <3>2, <3>5 DEF c
  <2> QED BY <2>3, <2>4
<1>10. ASSUME NEW m \in {"allow", "review", "deny"}, ModelGuard(w, m) PROVE Goes
  <2> DEFINE v == EffectiveDecision(c.dec, m)
  <2>1. /\ c.pc = "model" /\ (Sending(c) \/ Receiving(c))
        /\ call' = [call EXCEPT ![w] = After(c, v)]
    BY <1>4, <1>10 DEF ModelGuard, Commit, Evaluating
  <2>2. v.dec \in {"allow", "review", "deny"} /\ v.why \in Why
    BY DEF EffectiveDecision, Why
  <2> HIDE DEF c, v
  <2>3. After(c, v) \in Call /\ CallOK(After(c, v))
    BY <1>1, <2>1, <2>2, AfterOK
  <2> QED BY <1>3, <2>1, <2>3 DEF c
<1>11. ASSUME Block(w) PROVE Goes
  <2>1. c.pc = "deny" /\ (Sending(c) \/ Receiving(c))
    BY <1>4, <1>11 DEF Block, Evaluating
  <2>2. CASE c.dir = "outbound"
    <3>1. Sending(c) /\ call' = [call EXCEPT ![w] = [c EXCEPT !.pc = "denied", !.ref = NextSeq]]
      BY <1>1, <1>11, <2>1, <2>2 DEF Block, Receiving
    <3>2. "denied" \in Pc /\ "denied" \in Sends \ {"submit", "submitted", "released"}
      BY PcOK DEF Sends
    <3> QED BY <1>6, <2>1, <3>1, <3>2
  <2>3. CASE c.dir # "outbound"
    BY <1>2, <1>11, <2>3 DEF Block
  <2> QED BY <2>2, <2>3
<1>12. ASSUME CheckApproval(w) PROVE Goes
  <2>1. c.pc = "review" /\ (Sending(c) \/ Receiving(c))
        /\ c.dec \in {"allow", "review", "deny"}
    BY <1>1, <1>4, <1>12 DEF CheckApproval, Evaluating, CallOK
  <2>2. CASE Finish(w)
    BY <1>2, <2>2
  <2>3. CASE \E pc \in {"consume", "hold"} : Moves(w, pc)
    BY <1>5, <2>1, <2>3, PcOK DEF Moves, Sends, Receives, Evaluating
  <2> QED BY <1>12, <2>2, <2>3 DEF CheckApproval
<1>13. ASSUME SavePending(w) PROVE Goes
  <2>1. c.pc = "hold" /\ (Sending(c) \/ Receiving(c)) /\ Moves(w, "required")
        /\ c.dec \in {"allow", "review", "deny"}
    BY <1>1, <1>4, <1>13 DEF SavePending, Evaluating, CallOK
  <2> QED BY <1>5, <2>1, PcOK DEF Moves, Sends, Receives, Evaluating
<1>14. ASSUME ConsumeApproval(w) PROVE Goes
  <2> DEFINE pc == IF c.dir = "outbound" THEN "release" ELSE "accept"
             d == [c EXCEPT !.pc = pc, !.dec = "review_approved", !.ref = NextSeq]
  <2>1. c.pc = "consume" /\ (Sending(c) \/ Receiving(c))
        /\ call' = [call EXCEPT ![w] = d]
    BY <1>4, <1>14 DEF ConsumeApproval, Commit, Evaluating
  <2> HIDE DEF c
  <2>2. d \in Call
    <3>1. pc \in Pc /\ "review_approved" \in Verdict
      BY PcOK DEF Verdict
    <3> HIDE DEF pc
    <3> QED BY <1>1, <3>1 DEF Call
  <2>3. /\ d.pc = pc /\ d.key = c.key /\ d.dir = c.dir /\ d.id = c.id
        /\ d.what = c.what /\ d.rec = c.rec
    BY <1>1 DEF Call
  <2> HIDE DEF d
  <2>4. CASE Sending(c)
    <3>1. pc = "release"
      BY <2>4 DEF Sending
    <3>2. Sending(d)
      BY <2>1, <2>3, <2>4, <3>1 DEF Sending, Sends
    <3>3. CallOK(d)
      BY <2>3, <3>1, <3>2 DEF CallOK
    <3> QED BY <1>3, <2>1, <2>2, <3>3 DEF c
  <2>5. CASE Receiving(c)
    <3>1. pc = "accept"
      BY <2>5 DEF Receiving
    <3>2. Receiving(d)
      BY <2>1, <2>3, <2>5, <3>1 DEF Receiving, Receives
    <3>3. CallOK(d)
      BY <2>3, <3>1, <3>2 DEF CallOK
    <3> QED BY <1>3, <2>1, <2>2, <3>3 DEF c
  <2> QED BY <2>1, <2>4, <2>5
<1>15. ASSUME Release(w) PROVE Goes
  <2> DEFINE d == [c EXCEPT !.pc = "released", !.ref = NextSeq, !.what = SignedEnvelope(c)]
  <2>1. c.pc = "release" /\ Sending(c) /\ call' = [call EXCEPT ![w] = d]
    BY <1>4, <1>15 DEF Release, Commit
  <2> HIDE DEF c
  <2>2. SignedEnvelope(c) \in Envelope
    <3>1. /\ c.id \in OutId /\ c.what \in Text /\ c.rec \in RequestRecord
          /\ c.dec \in Verdict /\ c.ref \in Nat
      BY <1>1, <2>1 DEF Sending, Call
    <3>2. PICK r \in Request : c.key = <<"send", r>>
      BY <2>1 DEF Sending
    <3>3. c.key[2] \in Request /\ c.rec.created \in Nat
      BY <3>1, <3>2 DEF RequestRecord
    <3> QED BY <3>1, <3>3 DEF SignedEnvelope, Envelope
  <2>3. d \in Call
    <3>1. SignedEnvelope(c) \in Content /\ "released" \in Pc
      BY <2>2, PcOK DEF Content
    <3> QED BY <1>1, <3>1 DEF Call
  <2>4. /\ d.pc = "released" /\ d.key = c.key /\ d.dir = c.dir /\ d.id = c.id
        /\ d.what = SignedEnvelope(c) /\ d.rec = c.rec
    BY <1>1 DEF Call
  <2> HIDE DEF d
  <2>5. Sending(d)
    BY <2>1, <2>2, <2>4 DEF Sending, Sends
  <2>6. CallOK(d)
    BY <2>4, <2>5 DEF CallOK
  <2> QED BY <1>3, <2>1, <2>3, <2>6 DEF c
<1>16. ASSUME Verify(w) PROVE Goes
  <2>1. c.pc = "verify" /\ Receiving(c) /\ call' = [call EXCEPT ![w].pc = "verified"]
    BY <1>1, <1>4, <1>16 DEF Verify, Commit
  <2> QED BY <1>5, <2>1, PcOK DEF Receives
<1>17. ASSUME RecordSeen(w) PROVE Goes
  <2>1. c.pc = "verified" /\ Receiving(c) /\ call' = [call EXCEPT ![w].pc = "scan"]
    BY <1>1, <1>4, <1>17 DEF RecordSeen, Moves
  <2> QED BY <1>5, <2>1, PcOK DEF Receives, Evaluating
<1>18. ASSUME Accept(w) PROVE Goes
  <2>1. c.pc = "accept" /\ Receiving(c)
        /\ call' = [call EXCEPT ![w] = [c EXCEPT !.pc = "accepted", !.ref = NextSeq]]
    BY <1>4, <1>18 DEF Accept, Commit
  <2> QED BY <1>6, <2>1, PcOK DEF Receives
<1>19. ASSUME IssueAck(w) PROVE Goes
  <2>1. c.pc = "ack" /\ Receiving(c)
        /\ call' = [call EXCEPT ![w] = [c EXCEPT !.pc = "acked", !.ref = NextSeq]]
    BY <1>4, <1>19 DEF IssueAck, Commit
  <2> QED BY <1>6, <2>1, PcOK DEF Receives
<1>20. ASSUME Publish(w) PROVE Goes
  <2> DEFINE out == ReceiveOut(c.id, c.dec, c.why, None, c.ref)
             rec == [env |-> c.what, seq |-> c.ref, out |-> out]
             d == [c EXCEPT !.pc = "ack", !.rec = rec]
  <2>1. c.pc = "accepted" /\ Receiving(c) /\ call' = [call EXCEPT ![w] = d]
    BY <1>1, <1>4, <1>20 DEF Publish
  <2> HIDE DEF c
  <2>2. /\ c.id \in InId /\ c.what \in Inbound /\ c.ref \in Nat
        /\ c.dec \in Verdict /\ c.why \in Why
    BY <1>1, <2>1 DEF Receiving, Call
  <2>3. rec \in ReceivedRecord
    BY <2>2 DEF ReceivedRecord, ReceiveResult, ReceiveOut
  <2> HIDE DEF rec, out
  <2>4. rec \in RequestRecord \cup ReceivedRecord \cup {None} /\ "ack" \in Pc
    BY <2>3, PcOK
  <2>5. d \in Call
    BY <1>1, <2>4 DEF Call
  <2>6. /\ d.pc = "ack" /\ d.key = c.key /\ d.dir = c.dir /\ d.id = c.id
        /\ d.what = c.what /\ d.rec = rec
    BY <1>1 DEF Call
  <2> HIDE DEF d
  <2>7. Receiving(d)
    BY <2>1, <2>2, <2>3, <2>6 DEF Receiving, Receives
  <2>8. CallOK(d)
    BY <2>6, <2>7 DEF CallOK
  <2> QED BY <1>3, <2>1, <2>5, <2>8 DEF c
<1>21. ASSUME ConfirmClaim(w) PROVE Goes
  <2> DEFINE key == <<"confirm", c.id>>
             d == [c EXCEPT !.pc = "confirm", !.key = key]
  <2>1. CASE Finish(w)
    BY <1>2, <2>1
  <2>2. CASE call' = [call EXCEPT ![w].pc = "confirm", ![w].key = key]
    <3>1. call' = [call EXCEPT ![w] = d] /\ c.pc = "confirm_claim" /\ Confirming(c)
      BY <1>1, <1>4, <1>21, <2>2 DEF ConfirmClaim
    <3> HIDE DEF c
    <3>2. key \in Key \cup {None} /\ "confirm" \in Pc
      BY <3>1, PcOK DEF Confirming, Key
    <3> HIDE DEF key
    <3>3. d \in Call
      BY <1>1, <3>2 DEF Call
    <3>4. /\ d.pc = "confirm" /\ d.key = key /\ d.dir = c.dir /\ d.id = c.id
      BY <1>1 DEF Call
    <3> HIDE DEF d
    <3>5. CallOK(d)
      BY <3>1, <3>4 DEF CallOK, Confirming, key
    <3> QED BY <1>3, <3>1, <3>3, <3>5 DEF c
  <2> QED BY <1>21, <2>1, <2>2 DEF ConfirmClaim
<1>22. ASSUME AppendConfirm(w) PROVE Goes
  <2> DEFINE d == [c EXCEPT !.pc = "confirmed", !.ref = NextSeq]
  <2>1. c.pc = "confirm" /\ Confirming(c) /\ call' = [call EXCEPT ![w] = d]
    BY <1>4, <1>22 DEF AppendConfirm, Commit
  <2> HIDE DEF c
  <2>2. d \in Call
    BY <1>1, PcOK, MovedOK
  <2>3. d.pc = "confirmed" /\ d.key = c.key /\ d.dir = c.dir /\ d.id = c.id
    BY <1>1 DEF Call
  <2> HIDE DEF d
  <2>4. CallOK(d)
    BY <2>1, <2>3 DEF CallOK, Confirming
  <2> QED BY <1>3, <2>1, <2>2, <2>4 DEF c
<1>23. ASSUME \/ GuardFailed(w) \/ SavePendingFails(w) \/ ApprovalRequired(w)
              \/ RecordFinal(w) \/ RecordAck(w) \/ RecordConfirm(w) \/ InboxReturn(w)
              \/ AppendFails(w)
       PROVE  Goes
  BY <1>2, <1>23 DEF GuardFailed, SavePendingFails, ApprovalRequired, RecordFinal,
                     RecordAck, RecordConfirm, InboxReturn, AppendFails
<1> QED
  BY <1>7, <1>8, <1>9, <1>10, <1>11, <1>12, <1>13, <1>14, <1>15, <1>16, <1>17, <1>18,
     <1>19, <1>20, <1>21, <1>22, <1>23, Step(w) DEF Step, Goes

LEMMA PageIs ==
    ASSUME TInv
    PROVE  /\ Page \in Seq(Message)
           /\ \A k \in DOMAIN Page : Page[k].seq \in DOMAIN log
<1> DEFINE S == {i \in 1..Len(index.inbox) : index.inbox[i].seq > cursor}
<1>1. index.inbox \in Seq(Message) /\ Len(index.inbox) \in Nat
      /\ DOMAIN index.inbox = 1..Len(index.inbox)
  BY DEF TInv, TypeOK, Index
<1>2. S \in SUBSET (1..Len(index.inbox))
  OBVIOUS
<1>3. /\ Cardinality(S) \in Nat /\ Len(InOrder(S)) = Cardinality(S)
      /\ \A k \in 1..Cardinality(S) : InOrder(S)[k] \in S
  <2> HIDE DEF S
  <2> QED BY <1>1, <1>2, InOrderIs
<1>4. Unread = InOrder(S)
  BY DEF Unread
<1>5. PageLimit \in Nat
  BY MailboxAssumption
<1> HIDE DEF S
<1>6. PageLength \in Nat /\ PageLength <= Cardinality(S)
  BY <1>3, <1>4, <1>5 DEF PageLength
<1>7. \A k \in 1..PageLength : Unread[k] \in DOMAIN index.inbox
  <2> SUFFICES ASSUME NEW k \in 1..PageLength PROVE Unread[k] \in DOMAIN index.inbox
    OBVIOUS
  <2>1. k \in 1..Cardinality(S)
    BY <1>3, <1>6
  <2>2. Unread[k] \in S
    BY <1>3, <1>4, <2>1
  <2> QED BY <1>1, <1>2, <2>2
<1>8. \A k \in 1..PageLength : /\ index.inbox[Unread[k]] \in Message
                               /\ index.inbox[Unread[k]].seq \in DOMAIN log
  BY <1>1, <1>7 DEF TInv, Placed
<1> QED BY <1>6, <1>8 DEF Page

LEMMA NextCalls ==
    ASSUME TInv, [Next]_vars
    PROVE  /\ call' \in [Worker -> Call]
           /\ \A v \in Worker : CallOK(call'[v])
<1>1. /\ call \in [Worker -> Call] /\ \A v \in Worker : CallOK(call[v])
      /\ index \in Index /\ Len(log) \in Nat
  BY DEF TInv, TypeOK
<1>2. ASSUME NEW w \in Worker, \E d \in Call : CallOK(d) /\ call' = [call EXCEPT ![w] = d]
      PROVE  call' \in [Worker -> Call] /\ \A v \in Worker : CallOK(call'[v])
  BY <1>1, <1>2
<1>3. ASSUME call' = call
      PROVE  call' \in [Worker -> Call] /\ \A v \in Worker : CallOK(call'[v])
  BY <1>1, <1>3
<1>4. ASSUME NEW w \in Worker, NEW r \in Request, NEW t \in Text, SendClaim(w, r, t)
      PROVE  \E d \in Call : CallOK(d) /\ call' = [call EXCEPT ![w] = d]
  <2> DEFINE rec == index.requests[r]
             d == [Idle EXCEPT !.pc = IF rec = None THEN "submit" ELSE "scan",
                        !.key = <<"send", r>>, !.dir = "outbound", !.what = t,
                        !.id = IF rec = None THEN None ELSE rec.id,
                        !.rec = rec]
  <2>1. call' = [call EXCEPT ![w] = d]
    BY <1>4 DEF SendClaim
  <2>2. rec \in RequestRecord \cup {None}
    BY <1>1 DEF Index
  <2> HIDE DEF rec
  <2>3. /\ d.pc = IF rec = None THEN "submit" ELSE "scan"
        /\ d.key = <<"send", r>> /\ d.dir = "outbound" /\ d.what = t /\ d.rec = rec
        /\ d.id = IF rec = None THEN None ELSE rec.id
    BY IdleOK DEF Call
  <2>4. Sending(d)
    <3> HIDE DEF d
    <3> QED BY <2>2, <2>3, AbsentAssumption DEF Sending, Sends, Evaluating, RequestRecord
  <2>5. d \in Call
    <3>1. /\ (IF rec = None THEN "submit" ELSE "scan") \in Pc
          /\ <<"send", r>> \in Key /\ "outbound" \in Direction
          /\ (IF rec = None THEN None ELSE rec.id) \in MsgId \cup {None}
          /\ t \in Content
      BY <2>2, PcOK DEF Key, Direction, MsgId, Content, RequestRecord
    <3> QED BY <2>2, <3>1, IdleOK DEF Call
  <2> HIDE DEF d
  <2>6. CallOK(d)
    BY <2>3, <2>4 DEF CallOK
  <2> QED BY <2>1, <2>5, <2>6
<1>5. ASSUME NEW w \in Worker, NEW e \in Inbound, ReceiveClaim(w, e)
      PROVE  \E d \in Call : CallOK(d) /\ call' = [call EXCEPT ![w] = d]
  <2> DEFINE rec == index.received[e.id]
             d == [Idle EXCEPT !.pc = IF rec = None THEN "verify" ELSE "ack",
                        !.key = <<"receive", e.id>>, !.dir = "inbound",
                        !.what = e, !.id = e.id, !.rec = rec]
  <2>1. call' = [call EXCEPT ![w] = d]
    BY <1>5 DEF ReceiveClaim
  <2>2. rec \in ReceivedRecord \cup {None} /\ e.id \in InId
    BY <1>1, MailboxAssumption DEF Index
  <2> HIDE DEF rec
  <2>3. /\ d.pc = IF rec = None THEN "verify" ELSE "ack"
        /\ d.key = <<"receive", e.id>> /\ d.dir = "inbound" /\ d.id = e.id
        /\ d.what = e /\ d.rec = rec
    BY IdleOK DEF Call
  <2>4. Receiving(d)
    <3> HIDE DEF d
    <3> QED BY <2>2, <2>3 DEF Receiving, Receives, ReceivedRecord
  <2>5. d \in Call
    <3>1. /\ (IF rec = None THEN "verify" ELSE "ack") \in Pc
          /\ <<"receive", e.id>> \in Key /\ "inbound" \in Direction
          /\ e.id \in MsgId /\ e \in Content
      BY <2>2, PcOK DEF Key, Direction, MsgId, Content
    <3> QED BY <2>2, <3>1, IdleOK DEF Call
  <2> HIDE DEF d
  <2>6. CallOK(d)
    BY <2>3, <2>4 DEF CallOK
  <2> QED BY <2>1, <2>5, <2>6
<1>6. ASSUME NEW w \in Worker, NEW id \in OutId, ConfirmLookup(w, id)
      PROVE  \E d \in Call : CallOK(d) /\ call' = [call EXCEPT ![w] = d]
  <2> DEFINE d == [Idle EXCEPT !.pc = "confirm_claim", !.dir = "outbound", !.id = id]
  <2>1. call' = [call EXCEPT ![w] = d]
    BY <1>6 DEF ConfirmLookup
  <2>3. /\ d.pc = "confirm_claim" /\ d.key = None /\ d.dir = "outbound" /\ d.id = id
    BY IdleOK DEF Call
  <2>4. Confirming(d)
    <3> HIDE DEF d
    <3> QED BY <2>3 DEF Confirming
  <2>5. d \in Call
    <3>1. "confirm_claim" \in Pc /\ "outbound" \in Direction /\ id \in MsgId
      BY PcOK DEF Direction, MsgId
    <3> QED BY <3>1, IdleOK DEF Call
  <2> HIDE DEF d
  <2>6. CallOK(d)
    BY <2>3, <2>4 DEF CallOK
  <2> QED BY <2>1, <2>5, <2>6
<1>7. ASSUME NEW w \in Worker, InboxSelect(w)
      PROVE  \E d \in Call : CallOK(d) /\ call' = [call EXCEPT ![w] = d]
  <2> DEFINE d == [Idle EXCEPT !.pc = "read", !.page = Page]
  <2>1. call' = [call EXCEPT ![w] = d]
    BY <1>7 DEF InboxSelect
  <2>3. /\ d.pc = "read" /\ d.key = None /\ d.dir = None /\ d.id = None
        /\ d.what = None
    BY IdleOK DEF Call
  <2>5. d \in Call
    <3>1. "read" \in Pc /\ Page \in Seq(Message)
      BY PcOK, PageIs
    <3> QED BY <3>1, IdleOK DEF Call
  <2> HIDE DEF d
  <2>6. CallOK(d)
    BY <2>3 DEF CallOK, Reading
  <2> QED BY <2>1, <2>5, <2>6
<1>8. CASE Crash
  BY <1>8, IdleOK DEF Crash
<1>9. CASE \/ \E r \in Request, t \in Text : SendCached(r, t)
           \/ \E e \in Inbound : ReceiveCached(e)
           \/ \E id \in MsgId : Approve(id)
           \/ Shutdown \/ CloseLog \/ Start \/ StartFails \/ UNCHANGED vars
  BY <1>3, <1>9 DEF SendCached, ReceiveCached, Approve, Shutdown, CloseLog, Start,
                    StartFails, vars
<1> QED
  BY <1>2, <1>4, <1>5, <1>6, <1>7, <1>8, <1>9, StepCalls, [Next]_vars DEF Next

\* The replay of a log of well-formed entries is an index of the declared type.
LEMMA RebuildOK ==
    ASSUME NEW l \in Seq(Entry), \A i \in DOMAIN l : EntryOK(l[i])
    PROVE  /\ Rebuild(l) \in Index
           /\ Finished(Rebuild(l))
           /\ \A k \in DOMAIN Rebuild(l).inbox : Rebuild(l).inbox[k].seq \in DOMAIN l
           /\ \A r \in Request : Latest(Proposals(l, r)) # 0 =>
                  RebuiltRequest(l, r) \in RequestRecord
           /\ \A id \in OutId : Latest(At(l, "outbound_released", id)) # 0 =>
                  RebuiltSent(l, id) \in Envelope
           /\ \A id \in InId : Latest(At(l, "inbound_verified", id)) # 0 =>
                  RebuiltSeen(l, id) \in Inbound
           /\ \A id \in InId : Latest(At(l, "inbound_accepted", id)) # 0 =>
                  RebuiltReceived(l, id) \in ReceivedRecord
<1>1. Len(l) \in Nat /\ DOMAIN l = 1..Len(l) /\ \A i \in 1..Len(l) : l[i] \in Entry
  OBVIOUS
<1>2. ASSUME NEW r \in Request
      PROVE  /\ RebuiltRequest(l, r) \in RequestRecord \cup {None}
             /\ RebuiltRequest(l, r) # None /\ RebuiltRequest(l, r).final
                    => RebuiltRequest(l, r).out \in SendResult
             /\ Latest(Proposals(l, r)) # 0 => RebuiltRequest(l, r) \in RequestRecord
  <2> DEFINE s == Latest(Proposals(l, r))
             f == Latest(Outcomes(l, r))
  <2>1. RebuiltRequest(l, r) =
            IF s = 0 THEN None
            ELSE [bind |-> l[s].what, id |-> l[s].id, created |-> s, final |-> f > s,
                  out |-> IF f > s THEN Outcome(l[f], f) ELSE None]
    BY Rebuilt
  <2>2. /\ s \in 0..Len(l) /\ f \in 0..Len(l)
        /\ s > 0 => l[s].type = "message_submitted"
        /\ f > 0 => Ends(l[f], r)
    BY LatestWithin
  <2> HIDE DEF s, f
  <2>3. CASE s = 0
    BY <2>1, <2>3 DEF s
  <2>4. CASE s # 0
    <3>1. s \in DOMAIN l /\ EntryOK(l[s]) /\ s \in Nat
      BY <1>1, <2>2, <2>4
    <3>2. l[s].what \in Text /\ l[s].id \in OutId
      BY <2>2, <2>4, <3>1, <1>1 DEF EntryOK
    <3>3. ASSUME f > s PROVE Outcome(l[f], f) \in SendResult
      <4>1. f \in DOMAIN l /\ EntryOK(l[f]) /\ Ends(l[f], r) /\ f \in Nat /\ l[f] \in Entry
        BY <1>1, <2>2, <2>4, <3>3
      <4>2. l[f].why \in Why
        BY <4>1 DEF Entry
      <4>3. CASE l[f].type = "message_blocked"
        <5>1. l[f].id \in OutId
          BY <4>1, <4>3 DEF EntryOK, Ends
        <5> QED BY <4>1, <4>2, <4>3, <5>1 DEF Outcome, SendOut, SendResult, Verdict
      <4>4. CASE l[f].type = "outbound_released"
        <5>1. l[f].what \in Envelope
          BY <4>1, <4>4 DEF EntryOK
        <5>2. l[f].what.id \in OutId /\ l[f].what.dec \in Verdict
          BY <5>1 DEF Envelope
        <5> QED BY <4>1, <4>2, <4>4, <5>1, <5>2 DEF Outcome, SendOut, SendResult
      <4> QED BY <4>1, <4>3, <4>4 DEF Ends
    <3>4. (f > s) \in BOOLEAN /\ (IF f > s THEN Outcome(l[f], f) ELSE None) \in SendResult \cup {None}
      BY <3>3
    <3>5. RebuiltRequest(l, r) \in RequestRecord
      BY <2>1, <2>4, <3>1, <3>2, <3>4 DEF RequestRecord
    <3>6. RebuiltRequest(l, r).final = (f > s)
      BY <2>1, <2>4
    <3>7. RebuiltRequest(l, r).out = IF f > s THEN Outcome(l[f], f) ELSE None
      BY <2>1, <2>4
    <3> QED BY <3>3, <3>5, <3>6, <3>7
  <2> QED BY <2>3, <2>4
<1>3. ASSUME NEW id \in OutId
      PROVE  /\ RebuiltSent(l, id) \in Envelope \cup {None}
             /\ Latest(At(l, "outbound_released", id)) # 0 => RebuiltSent(l, id) \in Envelope
  <2> DEFINE f == Latest(At(l, "outbound_released", id))
  <2>1. RebuiltSent(l, id) = IF f = 0 THEN None ELSE l[f].what
    BY Rebuilt
  <2>2. f \in 0..Len(l) /\ (f > 0 => l[f].type = "outbound_released")
    BY LatestWithin
  <2> HIDE DEF f
  <2>3. f # 0 => EntryOK(l[f])
    BY <1>1, <2>2
  <2> QED BY <1>1, <2>1, <2>2, <2>3 DEF EntryOK, f
<1>4. ASSUME NEW id \in InId
      PROVE  /\ RebuiltSeen(l, id) \in Inbound \cup {None}
             /\ Latest(At(l, "inbound_verified", id)) # 0 => RebuiltSeen(l, id) \in Inbound
  <2> DEFINE f == Latest(At(l, "inbound_verified", id))
  <2>1. RebuiltSeen(l, id) = IF f = 0 THEN None ELSE l[f].what
    BY Rebuilt
  <2>2. f \in 0..Len(l) /\ (f > 0 => l[f].type = "inbound_verified")
    BY LatestWithin
  <2> HIDE DEF f
  <2>3. f # 0 => EntryOK(l[f])
    BY <1>1, <2>2
  <2> QED BY <1>1, <2>1, <2>2, <2>3 DEF EntryOK, f
<1>5. ASSUME NEW id \in InId
      PROVE  /\ RebuiltReceived(l, id) \in ReceivedRecord \cup {None}
             /\ Latest(At(l, "inbound_accepted", id)) # 0 =>
                    RebuiltReceived(l, id) \in ReceivedRecord
  <2> DEFINE a == Latest(At(l, "inbound_accepted", id))
             k == Latest(At(l, "acknowledgement_issued", id))
  <2>1. RebuiltReceived(l, id) =
            IF a = 0 THEN None
            ELSE [env |-> l[a].what, seq |-> a,
                  out |-> ReceiveOut(id, l[a].dec, l[a].why,
                                     IF k > a THEN l[k].ack ELSE None,
                                     IF k > a THEN k ELSE a)]
    BY Rebuilt
  <2>2. /\ a \in 0..Len(l) /\ k \in 0..Len(l)
        /\ a > 0 => l[a].type = "inbound_accepted"
        /\ k > 0 => l[k].type = "acknowledgement_issued"
    BY LatestWithin
  <2> HIDE DEF a, k
  <2>3. a # 0 => l[a].what \in Inbound /\ l[a].dec \in Verdict /\ l[a].why \in Why
    <3>1. a # 0 => EntryOK(l[a]) /\ l[a] \in Entry
      BY <1>1, <2>2
    <3> QED BY <1>1, <2>2, <3>1 DEF EntryOK, Entry
  <2>4. a # 0 /\ k > a => l[k].ack \in Receipt
    <3>1. a # 0 /\ k > a => EntryOK(l[k]) /\ k > 0
      BY <1>1, <2>2
    <3> QED BY <2>2, <3>1 DEF EntryOK
  <2>5. /\ a \in Nat /\ k \in Nat
    BY <1>1, <2>2
  <2>6. a # 0 => ReceiveOut(id, l[a].dec, l[a].why,
                                     IF k > a THEN l[k].ack ELSE None,
                                     IF k > a THEN k ELSE a) \in ReceiveResult
    BY <2>3, <2>4, <2>5 DEF ReceiveOut, ReceiveResult
  <2> QED BY <2>1, <2>3, <2>5, <2>6 DEF ReceivedRecord, a
<1>6. ASSUME NEW id \in OutId
      PROVE  LastPos(l, LAMBDA e : e.type = "delivery_confirmed" /\ e.id = id) \in Nat
  <2>1. Latest(At(l, "delivery_confirmed", id)) \in 0..Len(l)
    BY LatestWithin
  <2>2. LastPos(l, LAMBDA e : e.type = "delivery_confirmed" /\ e.id = id)
            = Latest(At(l, "delivery_confirmed", id))
    BY LastPositions
  <2> QED BY <1>1, <2>1, <2>2
<1>7. /\ RebuiltInbox(l) \in Seq(Message)
      /\ \A k \in DOMAIN RebuiltInbox(l) : RebuiltInbox(l)[k].seq \in DOMAIN l
  <2> DEFINE S == Acceptances(l)
             o == InOrder(S)
  <2>1. /\ Len(o) \in Nat /\ \A k \in 1..Len(o) : o[k] \in S
    BY <1>1, PositionsWithin, InOrderIs
  <2>2. RebuiltInbox(l) = [k \in 1..Len(o) |->
            [id |-> l[o[k]].id, env |-> l[o[k]].what, seq |-> o[k]]]
    BY DEF RebuiltInbox, Acceptances
  <2>3. \A i \in S : i \in DOMAIN l /\ i \in Nat /\ l[i].id \in InId /\ l[i].what \in Inbound
    BY <1>1 DEF Acceptances, EntryOK
  <2> HIDE DEF S, o
  <2>4. \A k \in 1..Len(o) :
            /\ [id |-> l[o[k]].id, env |-> l[o[k]].what, seq |-> o[k]] \in Message
            /\ o[k] \in DOMAIN l
    BY <2>1, <2>3 DEF Message
  <2> QED BY <2>1, <2>2, <2>4
<1>8. Rebuild(l) \in Index
  BY <1>2, <1>3, <1>4, <1>5, <1>6, <1>7 DEF Rebuild, Index
<1>9. /\ \A r \in Request : Rebuild(l).requests[r] = RebuiltRequest(l, r)
      /\ Rebuild(l).inbox = RebuiltInbox(l)
  BY DEF Rebuild
<1> QED BY <1>2, <1>3, <1>4, <1>5, <1>7, <1>8, <1>9 DEF Finished

\* Where each step puts the calls' own data, and only there.
LEMMA NextIndex ==
    ASSUME TInv, [Next]_vars
    PROVE  /\ index' \in Index
           /\ Finished(index')
           /\ \A k \in DOMAIN index'.inbox : index'.inbox[k].seq \in DOMAIN log'
<1>1. /\ index \in Index /\ Finished(index) /\ call \in [Worker -> Call]
      /\ \A w \in Worker : CallOK(call[w])
      /\ \A k \in DOMAIN index.inbox : index.inbox[k].seq \in DOMAIN log
      /\ index.inbox \in Seq(Message)
      /\ DOMAIN log \subseteq DOMAIN log'
  <2>1. DOMAIN log \subseteq DOMAIN log'
    BY LogKept
  <2> QED BY <2>1 DEF TInv, TypeOK, Placed, Index
<1> DEFINE Good(x) == /\ x \in Index /\ Finished(x)
                      /\ \A k \in DOMAIN x.inbox : x.inbox[k].seq \in DOMAIN log'
<1>2. ASSUME index' = index PROVE Good(index')
  BY <1>1, <1>2
<1>3. ASSUME NEW w \in Worker, RecordRequest(w) PROVE Good(index')
  <2> DEFINE c == call[w]
             rec == [bind |-> c.what, id |-> c.id, created |-> c.ref,
                     final |-> FALSE, out |-> None]
  <2>0. c \in Call /\ c.pc = "submitted" /\ CallOK(c)
    BY <1>1, <1>3 DEF RecordRequest
  <2>1. index' = [index EXCEPT !.requests[c.key[2]] = rec]
    BY <1>3 DEF RecordRequest
  <2> HIDE DEF c
  <2>2. Sending(c)
    BY <2>0, KindOf
  <2>3. c.key[2] \in Request /\ c.id \in OutId /\ c.what \in Text /\ c.ref \in Nat
    BY <2>0, <2>2 DEF Sending, Call
  <2>4. rec \in RequestRecord
    BY <2>3 DEF RequestRecord
  <2> HIDE DEF rec
  <2>5. index' \in Index /\ index'.inbox = index.inbox
        /\ index'.requests = [index.requests EXCEPT ![c.key[2]] = rec]
    BY <1>1, <2>1, <2>3, <2>4 DEF Index
  <2>6. Finished(index')
    BY <1>1, <2>3, <2>5 DEF Finished, Index, rec
  <2> QED BY <1>1, <2>5, <2>6
<1>4. ASSUME NEW w \in Worker, RecordFinal(w) PROVE Good(index')
  <2> DEFINE c == call[w]
             out == IF c.pc = "released"
                    THEN SendOut(c.id, "released", c.dec, c.why, c.what, c.ref)
                    ELSE SendOut(c.id, "denied", c.dec, c.why, None, c.ref)
             rec == [c.rec EXCEPT !.final = TRUE, !.out = out]
             env == IF c.pc = "released" THEN c.what ELSE index.sent[c.id]
  <2>0. c \in Call /\ c.pc \in {"released", "denied"} /\ CallOK(c)
    BY <1>1, <1>4 DEF RecordFinal
  <2>1. index' = [index EXCEPT !.requests[c.key[2]] = rec, !.sent[c.id] = env]
    BY <1>4 DEF RecordFinal
  <2> HIDE DEF c
  <2>2. Sending(c)
    BY <2>0, KindOf
  <2>3. /\ c.key[2] \in Request /\ c.id \in OutId /\ c.ref \in Nat
        /\ c.dec \in Verdict /\ c.why \in Why /\ c.rec \in RequestRecord
        /\ c.pc = "released" => c.what \in Envelope
    BY <2>0, <2>2 DEF Sending, Call
  <2>4. out \in SendResult
    BY <2>0, <2>3 DEF SendResult, SendOut
  <2> HIDE DEF out
  <2>5. rec \in RequestRecord
    BY <2>3, <2>4 DEF RequestRecord
  <2>6. env \in Envelope \cup {None}
    BY <1>1, <2>3 DEF Index
  <2> HIDE DEF rec, env
  <2>7. index' \in Index /\ index'.inbox = index.inbox
        /\ index'.requests = [index.requests EXCEPT ![c.key[2]] = rec]
    BY <1>1, <2>1, <2>3, <2>5, <2>6 DEF Index
  <2>8. rec.out \in SendResult
    BY <2>3, <2>4 DEF rec, RequestRecord
  <2>9. Finished(index')
    BY <1>1, <2>3, <2>7, <2>8 DEF Finished, Index
  <2> QED BY <1>1, <2>7, <2>9
<1>5. ASSUME NEW w \in Worker, RecordSeen(w) PROVE Good(index')
  <2> DEFINE c == call[w]
  <2>0. c \in Call /\ c.pc = "verified" /\ CallOK(c)
    BY <1>1, <1>5 DEF RecordSeen
  <2>1. index' = [index EXCEPT !.seen[c.id] = c.what]
    BY <1>5 DEF RecordSeen
  <2> HIDE DEF c
  <2>2. c.id \in InId /\ c.what \in Inbound
    BY <2>0, KindOf DEF Receiving
  <2>3. index' \in Index /\ index'.inbox = index.inbox
        /\ index'.requests = index.requests
    BY <1>1, <2>1, <2>2 DEF Index
  <2> QED BY <1>1, <2>3 DEF Finished
<1>6. ASSUME NEW w \in Worker, Publish(w) PROVE Good(index')
  <2> DEFINE c == call[w]
             rec == [env |-> c.what, seq |-> c.ref,
                     out |-> ReceiveOut(c.id, c.dec, c.why, None, c.ref)]
             msg == [id |-> c.id, env |-> c.what, seq |-> c.ref]
             box == Append(index.inbox, msg)
  <2>0. c \in Call /\ c.pc = "accepted" /\ CallOK(c) /\ c.ref \in DOMAIN log
    BY <1>1, <1>6 DEF Publish, TInv, Placed
  <2>1. index' = [index EXCEPT !.received[c.id] = rec, !.inbox = box]
    BY <1>6 DEF Publish
  <2> HIDE DEF c
  <2>2. /\ c.id \in InId /\ c.what \in Inbound /\ c.ref \in Nat
        /\ c.dec \in Verdict /\ c.why \in Why
    BY <2>0, KindOf DEF Receiving, Call
  <2>3. rec \in ReceivedRecord
    BY <2>2 DEF ReceivedRecord, ReceiveResult, ReceiveOut
  <2>4. msg \in Message /\ msg.seq \in DOMAIN log
    BY <2>0, <2>2 DEF Message
  <2> HIDE DEF msg, rec
  <2>5. box \in Seq(Message) /\ \A k \in DOMAIN box : box[k].seq \in DOMAIN log
    BY <1>1, <2>4
  <2> HIDE DEF box
  <2>6. index' \in Index /\ index'.inbox = box
        /\ index'.requests = index.requests
    BY <1>1, <2>1, <2>2, <2>3, <2>5 DEF Index
  <2> QED BY <1>1, <2>5, <2>6 DEF Finished
<1>7. ASSUME NEW w \in Worker, RecordAck(w) PROVE Good(index')
  <2> DEFINE c == call[w]
             out == [c.rec.out EXCEPT !.ack = [env |-> c.rec.env, seq |-> c.rec.seq],
                                      !.seq = c.ref]
             rec == [c.rec EXCEPT !.out = out]
  <2>0. c \in Call /\ c.pc = "acked" /\ CallOK(c)
    BY <1>1, <1>7 DEF RecordAck
  <2>1. index' = [index EXCEPT !.received[c.id] = rec]
    BY <1>7 DEF RecordAck
  <2> HIDE DEF c
  <2>2. c.id \in InId /\ c.rec \in ReceivedRecord /\ c.ref \in Nat
    BY <2>0, KindOf DEF Receiving, Call
  <2>3. /\ c.rec.out \in ReceiveResult
        /\ [env |-> c.rec.env, seq |-> c.rec.seq] \in Receipt
    BY <2>2 DEF ReceivedRecord, Receipt
  <2>4. out \in ReceiveResult
    BY <2>2, <2>3 DEF ReceiveResult
  <2> HIDE DEF out
  <2>5. rec \in ReceivedRecord
    BY <2>2, <2>4 DEF ReceivedRecord
  <2> HIDE DEF rec
  <2>6. index' \in Index /\ index'.inbox = index.inbox
        /\ index'.requests = index.requests
    BY <1>1, <2>1, <2>2, <2>5 DEF Index
  <2> QED BY <1>1, <2>6 DEF Finished
<1>8. ASSUME NEW w \in Worker, RecordConfirm(w) PROVE Good(index')
  <2> DEFINE c == call[w]
  <2>0. c \in Call /\ c.pc = "confirmed" /\ CallOK(c)
    BY <1>1, <1>8 DEF RecordConfirm
  <2>1. index' = [index EXCEPT !.confirmed[c.id] = c.ref]
    BY <1>8 DEF RecordConfirm
  <2> HIDE DEF c
  <2>2. c.id \in OutId /\ c.ref \in Nat
    BY <2>0, KindOf DEF Confirming, Call
  <2>3. index' \in Index /\ index'.inbox = index.inbox
        /\ index'.requests = index.requests
    BY <1>1, <2>1, <2>2 DEF Index
  <2> QED BY <1>1, <2>3 DEF Finished
<1>9. ASSUME Crash PROVE Good(index')
  <2>1. index' = Rebuild(<< >>)
    BY <1>9 DEF Crash
  <2>2. << >> \in Seq(Entry) /\ DOMAIN << >> = {}
    OBVIOUS
  <2>3. /\ Rebuild(<< >>) \in Index /\ Finished(Rebuild(<< >>))
        /\ \A k \in DOMAIN Rebuild(<< >>).inbox :
               Rebuild(<< >>).inbox[k].seq \in DOMAIN << >>
    BY <2>2, RebuildOK
  <2> QED BY <2>1, <2>2, <2>3
<1>10. ASSUME Start PROVE Good(index')
  <2>1. index' = Rebuild(log')
    BY <1>10 DEF Start
  <2>2. log' \in Seq(Entry) /\ \A i \in DOMAIN log' : EntryOK(log'[i])
    BY LogKept
  <2> QED BY <2>1, <2>2, RebuildOK
<1>11. ASSUME NEW w \in Worker,
              \/ Submit(w) \/ DeterministicGuard(w) \/ GuardFailed(w)
              \/ \E m \in {"allow", "review", "deny"} : ModelGuard(w, m)
              \/ Block(w) \/ CheckApproval(w) \/ SavePending(w) \/ SavePendingFails(w)
              \/ ApprovalRequired(w) \/ ConsumeApproval(w) \/ Release(w) \/ Verify(w)
              \/ Accept(w) \/ IssueAck(w) \/ ConfirmClaim(w) \/ AppendConfirm(w)
              \/ InboxReturn(w) \/ AppendFails(w)
              \/ (\E r \in Request, t \in Text : SendClaim(w, r, t))
              \/ (\E e \in Inbound : ReceiveClaim(w, e))
              \/ (\E id \in OutId : ConfirmLookup(w, id)) \/ InboxSelect(w)
       PROVE  index' = index
  BY <1>11
     DEF Submit, DeterministicGuard, GuardFailed, ModelGuard, Block, CheckApproval,
         SavePending, SavePendingFails, ApprovalRequired, ConsumeApproval, Release,
         Verify, Accept, IssueAck, ConfirmClaim, AppendConfirm, InboxReturn,
         AppendFails, SendClaim, ReceiveClaim, ConfirmLookup, InboxSelect
<1>12. ASSUME \/ \E r \in Request, t \in Text : SendCached(r, t)
              \/ \E e \in Inbound : ReceiveCached(e)
              \/ \E id \in MsgId : Approve(id)
              \/ Shutdown \/ CloseLog \/ StartFails \/ UNCHANGED vars
       PROVE  index' = index
  BY <1>12 DEF SendCached, ReceiveCached, Approve, Shutdown, CloseLog, StartFails, vars
<1> HIDE DEF Good
<1>13. Good(index')
  BY <1>2, <1>3, <1>4, <1>5, <1>6, <1>7, <1>8, <1>9, <1>10, <1>11, <1>12, [Next]_vars
     DEF Next, Step
<1> QED BY <1>13 DEF Good

\* What the steps of a call leave alone.
LEMMA StepFrame ==
    ASSUME NEW w \in Worker, Step(w)
    PROVE  /\ up' = up /\ closing' = closing /\ approved' = approved
           /\ logState' = logState \/ (logState = "open" /\ logState' = "failed")
           /\ log' = log \/ Usable
           /\ pending' = pending \/ SavePending(w) \/ SavePendingFails(w)
           /\ answers' = answers \/ RecordFinal(w) \/ RecordAck(w)
           /\ (cursor' = cursor /\ fetched' = fetched) \/ InboxReturn(w)
           /\ active' = active \/ Finish(w) \/ ConfirmClaim(w)
<1> DEFINE Frame ==
           /\ up' = up /\ closing' = closing /\ approved' = approved
           /\ logState' = logState \/ (logState = "open" /\ logState' = "failed")
           /\ log' = log \/ Usable
           /\ pending' = pending \/ SavePending(w) \/ SavePendingFails(w)
           /\ answers' = answers \/ RecordFinal(w) \/ RecordAck(w)
           /\ (cursor' = cursor /\ fetched' = fetched) \/ InboxReturn(w)
           /\ active' = active \/ Finish(w) \/ ConfirmClaim(w)
<1> SUFFICES Frame
  OBVIOUS
<1>1. CASE Submit(w) \/ RecordRequest(w) \/ DeterministicGuard(w) \/ Verify(w)
  BY <1>1 DEF Submit, RecordRequest, DeterministicGuard, Verify,
              Commit, service, approvals, reader, Usable
<1>2. CASE \E m \in {"allow", "review", "deny"} : ModelGuard(w, m)
  BY <1>2 DEF ModelGuard,
              Commit, service, approvals, reader, Usable
<1>3. CASE GuardFailed(w) \/ Block(w) \/ CheckApproval(w) \/ ApprovalRequired(w)
  BY <1>3 DEF GuardFailed, Block, CheckApproval, ApprovalRequired,
              Commit, service, approvals, reader, Usable
<1>4. CASE SavePending(w) \/ SavePendingFails(w)
  BY <1>4 DEF SavePending, SavePendingFails,
              Commit, service, approvals, reader, Usable
<1>5. CASE ConsumeApproval(w) \/ Release(w) \/ Accept(w) \/ IssueAck(w) \/ AppendConfirm(w)
  BY <1>5 DEF ConsumeApproval, Release, Accept, IssueAck, AppendConfirm,
              Commit, service, approvals, reader, Usable
<1>6. CASE RecordFinal(w) \/ RecordAck(w)
  BY <1>6 DEF RecordFinal, RecordAck,
              Commit, service, approvals, reader, Usable
<1>7. CASE RecordSeen(w) \/ Publish(w) \/ RecordConfirm(w)
  BY <1>7 DEF RecordSeen, Publish, RecordConfirm,
              Commit, service, approvals, reader, Usable
<1>8. CASE ConfirmClaim(w) \/ InboxReturn(w)
  BY <1>8 DEF ConfirmClaim, InboxReturn,
              Commit, service, approvals, reader, Usable
<1>9. CASE AppendFails(w)
  BY <1>9 DEF AppendFails,
              Commit, service, approvals, reader, Usable
<1> HIDE DEF Frame
<1> QED
  BY <1>1, <1>2, <1>3, <1>4, <1>5, <1>6, <1>7, <1>8, <1>9, Step(w) DEF Step

LEMMA BindingOK ==
    ASSUME NEW c, Sending(c) \/ Receiving(c), c.pc \in Evaluating
    PROVE  Binding(c) \in Proposal /\ c.id \in MsgId
<1>1. CASE Sending(c)
  <2>1. c.dir = "outbound" /\ c.id \in OutId /\ c.what \in Text
    BY <1>1 DEF Sending, Evaluating
  <2> QED BY <2>1 DEF Binding, Proposal, MsgId
<1>2. CASE Receiving(c)
  <2>1. c.dir = "inbound" /\ c.id \in InId /\ c.what \in Inbound
    BY <1>2 DEF Receiving
  <2> QED BY <2>1 DEF Binding, Proposal, MsgId
<1> QED BY <1>1, <1>2

\* What a step does outside the log, the calls and the index.
LEMMA NextRest ==
    ASSUME TInv, [Next]_vars
    PROVE  /\ logState' \in {"open", "failed", "closed"}
           /\ up' \in BOOLEAN /\ closing' \in BOOLEAN
           /\ active' \subseteq Key
           /\ pending' \in [MsgId -> Proposal \cup {None, Damaged}]
           /\ approved' \in [MsgId -> Proposal \cup {None, Damaged}]
           /\ answers' \subseteq [key : Key, out : SendResult \cup ReceiveResult]
<1> DEFINE Rest ==
           /\ logState' \in {"open", "failed", "closed"}
           /\ up' \in BOOLEAN /\ closing' \in BOOLEAN
           /\ active' \subseteq Key
           /\ pending' \in [MsgId -> Proposal \cup {None, Damaged}]
           /\ approved' \in [MsgId -> Proposal \cup {None, Damaged}]
           /\ answers' \subseteq [key : Key, out : SendResult \cup ReceiveResult]
<1> SUFFICES Rest
  OBVIOUS
<1>1. /\ logState \in {"open", "failed", "closed"}
      /\ up \in BOOLEAN /\ closing \in BOOLEAN
      /\ active \subseteq Key
      /\ pending \in [MsgId -> Proposal \cup {None, Damaged}]
      /\ approved \in [MsgId -> Proposal \cup {None, Damaged}]
      /\ answers \subseteq [key : Key, out : SendResult \cup ReceiveResult]
      /\ index \in Index /\ call \in [Worker -> Call]
      /\ \A w \in Worker : CallOK(call[w])
  BY DEF TInv, TypeOK
<1>2. \A key \in Key, out \in SendResult \cup ReceiveResult :
          Answer(key, out) =>
              answers' \subseteq [key : Key, out : SendResult \cup ReceiveResult]
  BY <1>1 DEF Answer
<1>3. ASSUME NEW w \in Worker, Step(w) PROVE Rest
  <2> DEFINE c == call[w]
  <2>0. c \in Call /\ CallOK(c)
    BY <1>1
  <2>1. active' \subseteq Key
    <3>1. CASE ConfirmClaim(w)
      <4>1. <<"confirm", c.id>> \in Key
        <5>1. c.pc = "confirm_claim"
          BY <3>1 DEF ConfirmClaim
        <5> HIDE DEF c
        <5>2. c.id \in OutId
          BY <2>0, <5>1, KindOf DEF Confirming
        <5> QED BY <5>2 DEF Key
      <4> QED BY <1>1, <3>1, <4>1 DEF ConfirmClaim, Finish, Claim
    <3>2. CASE active' = active \/ Finish(w)
      BY <1>1, <3>2 DEF Finish
    <3> QED BY <1>3, <3>1, <3>2, StepFrame
  <2>2. pending' \in [MsgId -> Proposal \cup {None, Damaged}]
    <3>1. CASE SavePending(w) \/ SavePendingFails(w)
      <4>1. Binding(c) \in Proposal
        <5>1. c.pc = "hold"
          BY <3>1 DEF SavePending, SavePendingFails
        <5> HIDE DEF c
        <5> QED BY <2>0, <5>1, KindOf, BindingOK DEF Evaluating
      <4> QED BY <1>1, <3>1, <4>1 DEF SavePending, SavePendingFails
    <3> QED BY <1>1, <1>3, <3>1, StepFrame
  <2>3. answers' \subseteq [key : Key, out : SendResult \cup ReceiveResult]
    <3>1. CASE RecordFinal(w)
      <4> DEFINE out == IF c.pc = "released"
                        THEN SendOut(c.id, "released", c.dec, c.why, c.what, c.ref)
                        ELSE SendOut(c.id, "denied", c.dec, c.why, None, c.ref)
      <4>1. Answer(c.key, out) /\ c.pc \in {"released", "denied"}
        BY <3>1 DEF RecordFinal
      <4> HIDE DEF c
      <4>2. Sending(c)
        BY <2>0, <4>1, KindOf
      <4>3. /\ c.key \in Key /\ c.id \in OutId /\ c.ref \in Nat
            /\ c.dec \in Verdict /\ c.why \in Why
            /\ c.pc = "released" => c.what \in Envelope
        BY <2>0, <4>1, <4>2 DEF Sending, Call, Key
      <4>4. out \in SendResult
        BY <4>1, <4>3 DEF SendResult, SendOut
      <4> QED BY <1>2, <4>1, <4>3, <4>4
    <3>2. CASE RecordAck(w)
      <4> DEFINE out == [c.rec.out EXCEPT !.ack = [env |-> c.rec.env, seq |-> c.rec.seq],
                                          !.seq = c.ref]
      <4>1. Answer(c.key, out) /\ c.pc = "acked"
        BY <3>2 DEF RecordAck
      <4> HIDE DEF c
      <4>2. c.id \in InId /\ c.key = <<"receive", c.id>> /\ c.rec \in ReceivedRecord
            /\ c.ref \in Nat
        BY <2>0, <4>1, KindOf DEF Receiving, Call
      <4>3. c.key \in Key
        BY <4>2 DEF Key
      <4>4. /\ c.rec.out \in ReceiveResult
            /\ [env |-> c.rec.env, seq |-> c.rec.seq] \in Receipt
        BY <4>2 DEF ReceivedRecord, Receipt
      <4>5. out \in ReceiveResult
        BY <4>2, <4>4 DEF ReceiveResult
      <4> QED BY <1>2, <4>1, <4>3, <4>5
    <3> QED BY <1>1, <1>3, <3>1, <3>2, StepFrame
  <2>4. /\ up' = up /\ closing' = closing /\ approved' = approved
        /\ logState' = logState \/ logState' = "failed"
    BY <1>3, StepFrame
  <2> QED BY <1>1, <2>1, <2>2, <2>3, <2>4
<1>4. ASSUME NEW w \in Worker,
             \/ \E r \in Request, t \in Text : SendClaim(w, r, t)
             \/ \E e \in Inbound : ReceiveClaim(w, e)
      PROVE  Rest
  <2>1. /\ \A r \in Request : <<"send", r>> \in Key
        /\ \A e \in Inbound : <<"receive", e.id>> \in Key
    BY MailboxAssumption DEF Key
  <2>2. active' \subseteq Key
    <3>1. \A key \in Key : Claim(key) => active' \subseteq Key
      BY <1>1 DEF Claim
    <3> QED BY <1>4, <2>1, <3>1 DEF SendClaim, ReceiveClaim
  <2> QED BY <1>1, <1>4, <2>2 DEF SendClaim, ReceiveClaim, approvals, service
<1>5. ASSUME NEW w \in Worker,
             (\E id \in OutId : ConfirmLookup(w, id)) \/ InboxSelect(w)
      PROVE  Rest
  BY <1>1, <1>5 DEF ConfirmLookup, InboxSelect, approvals, service
<1>6. ASSUME NEW r \in Request, NEW t \in Text, SendCached(r, t) PROVE Rest
  <2>1. /\ index.requests[r] \in RequestRecord
        /\ Answer(<<"send", r>>, index.requests[r].out)
    BY <1>1, <1>6 DEF SendCached, Index
  <2>2. <<"send", r>> \in Key
    BY DEF Key
  <2>3. index.requests[r].out \in SendResult
    BY <1>6, <2>1, AbsentAssumption DEF SendCached, TInv, Finished
  <2> QED BY <1>1, <1>2, <1>6, <2>1, <2>2, <2>3 DEF SendCached, approvals, service
<1>7. ASSUME NEW e \in Inbound, ReceiveCached(e) PROVE Rest
  <2>1. /\ index.received[e.id] \in ReceivedRecord
        /\ Answer(<<"receive", e.id>>, index.received[e.id].out)
    BY <1>1, <1>7, MailboxAssumption DEF ReceiveCached, Index
  <2>2. index.received[e.id].out \in ReceiveResult /\ <<"receive", e.id>> \in Key
    BY <2>1, MailboxAssumption DEF ReceivedRecord, Key
  <2> QED BY <1>1, <1>2, <1>7, <2>1, <2>2 DEF ReceiveCached, approvals, service
<1>8. ASSUME NEW id \in MsgId, Approve(id) PROVE Rest
  BY <1>1, <1>8 DEF Approve, service
<1>9. CASE Shutdown \/ CloseLog \/ Crash \/ Start \/ StartFails \/ UNCHANGED vars
  BY <1>1, <1>9 DEF Shutdown, CloseLog, Crash, Start, StartFails, vars, service, approvals
<1> HIDE DEF Rest
<1> QED BY <1>3, <1>4, <1>5, <1>6, <1>7, <1>8, <1>9, [Next]_vars DEF Next

\* Where the steps of a call lead.
LEMMA StepGoes ==
    ASSUME call \in [Worker -> Call], NEW w \in Worker, Step(w)
    PROVE  /\ \/ active' = active /\ call'[w].key = call[w].key
                 /\ call'[w].pc \notin {"idle", "confirm_claim", "read"}
                 /\ call[w].pc \notin {"idle", "confirm_claim", "read"}
              \/ Finish(w) /\ call[w].pc # "idle"
              \/ ConfirmClaim(w)
           /\ call'[w].pc \notin {"read", "confirm_claim"}
           /\ call'[w].pc = "accepted" => Accept(w)
<1> DEFINE c == call[w]
           Goes ==
               /\ \/ active' = active /\ call'[w].key = call[w].key
                     /\ call'[w].pc \notin {"idle", "confirm_claim", "read"}
                     /\ call[w].pc \notin {"idle", "confirm_claim", "read"}
                  \/ Finish(w) /\ call[w].pc # "idle"
                  \/ ConfirmClaim(w)
               /\ call'[w].pc \notin {"read", "confirm_claim"}
               /\ call'[w].pc = "accepted" => Accept(w)
<1> SUFFICES Goes
  OBVIOUS
<1>0. call \in [Worker -> Call] /\ c \in Call
  OBVIOUS
<1>1. Finish(w) => call'[w].pc = "idle"
  BY <1>0, IdleOK DEF Finish
<1>2. ASSUME NEW d, call' = [call EXCEPT ![w] = d], d.key = c.key, active' = active,
             d.pc \notin {"idle", "confirm_claim", "read"},
             c.pc \notin {"idle", "confirm_claim", "read"},
             d.pc = "accepted" => Accept(w)
      PROVE  Goes
  BY <1>0, <1>2
<1>3. ASSUME NEW pc, call' = [call EXCEPT ![w].pc = pc], active' = active,
             pc \notin {"idle", "confirm_claim", "read", "accepted"},
             c.pc \notin {"idle", "confirm_claim", "read"}
      PROVE  Goes
  <2> DEFINE d == [c EXCEPT !.pc = pc]
  <2>1. call' = [call EXCEPT ![w] = d] /\ d.key = c.key /\ d.pc = pc
    BY <1>0, <1>3 DEF Call
  <2> QED BY <1>2, <1>3, <2>1
<1>4. ASSUME NEW v, call' = [call EXCEPT ![w] = After(c, v)], active' = active,
             c.pc \in {"scan", "model"}
      PROVE  Goes
  <2> HIDE DEF c
  <2>1. /\ After(c, v).key = c.key
        /\ After(c, v).pc \in {"deny", "review", "release", "accept"}
    BY <1>0 DEF After, Call
  <2> QED BY <1>2, <1>4, <2>1
<1>5. CASE Submit(w)
  <2>1. PICK id \in OutId : call' = [call EXCEPT ![w] =
            [c EXCEPT !.pc = "submitted", !.id = id, !.ref = NextSeq]]
    BY <1>5 DEF Submit, Commit, FreshIds
  <2> DEFINE d == [c EXCEPT !.pc = "submitted", !.id = id, !.ref = NextSeq]
  <2>2. d.key = c.key /\ d.pc = "submitted" /\ active' = active /\ c.pc = "submit"
    BY <1>0, <1>5 DEF Submit, Call
  <2> HIDE DEF c, d
  <2> QED BY <1>2, <2>1, <2>2 DEF d
<1>6. CASE RecordRequest(w)
  <2> DEFINE d == [c EXCEPT !.pc = "scan", !.rec = [bind |-> c.what, id |-> c.id,
                            created |-> c.ref, final |-> FALSE, out |-> None]]
  <2>1. /\ call' = [call EXCEPT ![w] = d] /\ d.key = c.key /\ d.pc = "scan"
        /\ active' = active /\ c.pc = "submitted"
    BY <1>0, <1>6 DEF RecordRequest, Call
  <2> HIDE DEF d
  <2> QED BY <1>2, <2>1
<1>7. CASE DeterministicGuard(w)
  <2>1. CASE Scan[Body(c)] = "deny"
    BY <1>4, <1>7, <2>1 DEF DeterministicGuard, Commit
  <2>2. CASE Scan[Body(c)] # "deny"
    <3> DEFINE d == [c EXCEPT !.pc = "model", !.dec = Scan[Body(c)]]
    <3>1. /\ call' = [call EXCEPT ![w] = d] /\ d.key = c.key /\ d.pc = "model"
          /\ active' = active /\ c.pc = "scan"
      BY <1>0, <1>7, <2>2 DEF DeterministicGuard, Commit, Call
    <3> HIDE DEF d
    <3> QED BY <1>2, <3>1
  <2> QED BY <2>1, <2>2
<1>8. ASSUME NEW m \in {"allow", "review", "deny"}, ModelGuard(w, m) PROVE Goes
  BY <1>4, <1>8 DEF ModelGuard, Commit
<1>9. CASE Block(w)
  <2>1. CASE c.dir = "outbound"
    <3> DEFINE d == [c EXCEPT !.pc = "denied", !.ref = NextSeq]
    <3>1. /\ call' = [call EXCEPT ![w] = d] /\ d.key = c.key /\ d.pc = "denied"
          /\ active' = active /\ c.pc = "deny"
      BY <1>0, <1>9, <2>1 DEF Block, Call
    <3> HIDE DEF d
    <3> QED BY <1>2, <3>1
  <2>2. CASE c.dir # "outbound"
    BY <1>1, <1>9, <2>2 DEF Block
  <2> QED BY <2>1, <2>2
<1>10. CASE CheckApproval(w)
  BY <1>1, <1>3, <1>10 DEF CheckApproval, Moves
<1>11. CASE SavePending(w) \/ Verify(w) \/ RecordSeen(w)
  <2>1. Verify(w) => call' = [call EXCEPT ![w].pc = "verified"]
    BY <1>0 DEF Verify, Commit
  <2> QED BY <1>3, <1>11, <2>1 DEF SavePending, Verify, RecordSeen, Moves
<1>12. CASE ConsumeApproval(w)
  <2> DEFINE d == [c EXCEPT !.pc = IF c.dir = "outbound" THEN "release" ELSE "accept",
                            !.dec = "review_approved", !.ref = NextSeq]
  <2>1. /\ call' = [call EXCEPT ![w] = d] /\ d.key = c.key
        /\ d.pc \in {"release", "accept"} /\ active' = active /\ c.pc = "consume"
    BY <1>0, <1>12 DEF ConsumeApproval, Commit, Call
  <2> HIDE DEF d
  <2> QED BY <1>2, <2>1
<1>13. CASE Release(w)
  <2> DEFINE d == [c EXCEPT !.pc = "released", !.ref = NextSeq, !.what = SignedEnvelope(c)]
  <2>1. /\ call' = [call EXCEPT ![w] = d] /\ d.key = c.key
        /\ d.pc = "released" /\ active' = active /\ c.pc = "release"
    BY <1>0, <1>13 DEF Release, Commit, Call
  <2> HIDE DEF d
  <2> QED BY <1>2, <2>1
<1>14. CASE Accept(w) \/ IssueAck(w) \/ AppendConfirm(w)
  <2>1. PICK pc \in {"accepted", "acked", "confirmed"} :
            /\ call' = [call EXCEPT ![w] = [c EXCEPT !.pc = pc, !.ref = NextSeq]]
            /\ active' = active /\ c.pc \in {"accept", "ack", "confirm"}
            /\ pc = "accepted" => Accept(w)
    BY <1>14 DEF Accept, IssueAck, AppendConfirm, Commit
  <2> DEFINE d == [c EXCEPT !.pc = pc, !.ref = NextSeq]
  <2>2. d.key = c.key /\ d.pc = pc
    BY <1>0 DEF Call
  <2> HIDE DEF c, d
  <2> QED BY <1>2, <2>1, <2>2 DEF d
<1>15. CASE Publish(w)
  <2> DEFINE d == [c EXCEPT !.pc = "ack",
                            !.rec = [env |-> c.what, seq |-> c.ref,
                                     out |-> ReceiveOut(c.id, c.dec, c.why, None, c.ref)]]
  <2>1. /\ call' = [call EXCEPT ![w] = d] /\ d.key = c.key
        /\ d.pc = "ack" /\ active' = active /\ c.pc = "accepted"
    BY <1>0, <1>15 DEF Publish, Call
  <2> HIDE DEF d
  <2> QED BY <1>2, <2>1
<1>16. CASE ConfirmClaim(w)
  <2>1. CASE call' = [call EXCEPT ![w].pc = "confirm", ![w].key = <<"confirm", c.id>>]
    BY <1>0, <1>16, <2>1 DEF Call
  <2> QED BY <1>1, <1>16, <2>1 DEF ConfirmClaim
<1>17. CASE \/ GuardFailed(w) \/ SavePendingFails(w) \/ ApprovalRequired(w)
            \/ RecordFinal(w) \/ RecordAck(w) \/ RecordConfirm(w) \/ InboxReturn(w)
            \/ AppendFails(w)
  BY <1>1, <1>17 DEF GuardFailed, SavePendingFails, ApprovalRequired, RecordFinal,
                     RecordAck, RecordConfirm, InboxReturn, AppendFails, Writing
<1> HIDE DEF Goes
<1> QED
  BY <1>5, <1>6, <1>7, <1>8, <1>9, <1>10, <1>11, <1>12, <1>13, <1>14, <1>15, <1>16,
     <1>17, Step(w) DEF Step

\* A call that starts: where it goes, and what it holds.
LEMMA StartGoes ==
    ASSUME call \in [Worker -> Call], NEW w \in Worker,
           \/ \E r \in Request, t \in Text : SendClaim(w, r, t)
           \/ \E e \in Inbound : ReceiveClaim(w, e)
           \/ \E id \in OutId : ConfirmLookup(w, id)
           \/ InboxSelect(w)
    PROVE  /\ Serving /\ call[w] = Idle
           /\ call'[w].pc \notin {"idle", "accepted"}
           /\ \A v \in Worker \ {w} : call'[v] = call[v]
           /\ call'[w].pc = "read" => InboxSelect(w) /\ call'[w].page = Page
           /\ \/ /\ call'[w].pc \in {"read", "confirm_claim"}
                 /\ call'[w].key = None /\ active' = active
              \/ call'[w].key # None /\ Claim(call'[w].key)
<1>1. CASE \E r \in Request, t \in Text : SendClaim(w, r, t)
  <2>1. PICK r \in Request, t \in Text : SendClaim(w, r, t)
    BY <1>1
  <2> DEFINE rec == index.requests[r]
             d == [Idle EXCEPT !.pc = IF rec = None THEN "submit" ELSE "scan",
                        !.key = <<"send", r>>, !.dir = "outbound", !.what = t,
                        !.id = IF rec = None THEN None ELSE rec.id,
                        !.rec = rec]
  <2>2. Serving /\ call[w] = Idle /\ call' = [call EXCEPT ![w] = d] /\ Claim(<<"send", r>>)
    BY <2>1 DEF SendClaim
  <2>3. d.pc \in {"submit", "scan"} /\ d.key = <<"send", r>>
    BY IdleOK DEF Call
  <2> HIDE DEF d
  <2>4. <<"send", r>> # None
    BY AbsentAssumption DEF Key
  <2> QED BY <2>2, <2>3, <2>4
<1>2. CASE \E e \in Inbound : ReceiveClaim(w, e)
  <2>1. PICK e \in Inbound : ReceiveClaim(w, e)
    BY <1>2
  <2> DEFINE rec == index.received[e.id]
             d == [Idle EXCEPT !.pc = IF rec = None THEN "verify" ELSE "ack",
                        !.key = <<"receive", e.id>>, !.dir = "inbound",
                        !.what = e, !.id = e.id, !.rec = rec]
  <2>2. Serving /\ call[w] = Idle /\ call' = [call EXCEPT ![w] = d]
        /\ Claim(<<"receive", e.id>>)
    BY <2>1 DEF ReceiveClaim
  <2>3. d.pc \in {"verify", "ack"} /\ d.key = <<"receive", e.id>>
    BY IdleOK DEF Call
  <2> HIDE DEF d
  <2>4. <<"receive", e.id>> # None
    BY AbsentAssumption, MailboxAssumption DEF Key
  <2> QED BY <2>2, <2>3, <2>4
<1>3. CASE \E id \in OutId : ConfirmLookup(w, id)
  <2>1. PICK id \in OutId : ConfirmLookup(w, id)
    BY <1>3
  <2> DEFINE d == [Idle EXCEPT !.pc = "confirm_claim", !.dir = "outbound", !.id = id]
  <2>2. Serving /\ call[w] = Idle /\ call' = [call EXCEPT ![w] = d] /\ active' = active
    BY <2>1 DEF ConfirmLookup
  <2>3. d.pc = "confirm_claim" /\ d.key = None
    BY IdleOK DEF Call
  <2> HIDE DEF d
  <2> QED BY <2>2, <2>3
<1>4. CASE InboxSelect(w)
  <2> DEFINE d == [Idle EXCEPT !.pc = "read", !.page = Page]
  <2>2. Serving /\ call[w] = Idle /\ call' = [call EXCEPT ![w] = d] /\ active' = active
    BY <1>4 DEF InboxSelect
  <2>3. d.pc = "read" /\ d.key = None /\ d.page = Page
    BY IdleOK DEF Call
  <2> HIDE DEF d
  <2> QED BY <1>4, <2>2, <2>3
<1> QED BY <1>1, <1>2, <1>3, <1>4

LEMMA NextPlaced ==
    ASSUME TInv, [Next]_vars
    PROVE  Placed'
<1>1. /\ call \in [Worker -> Call] /\ Placed
      /\ DOMAIN log \subseteq DOMAIN log'
      /\ DOMAIN log' = 1..Len(log') /\ Len(log) \in Nat
  BY LogKept DEF TInv, TypeOK
<1> DEFINE Good(v) ==
        /\ call'[v].pc = "read" =>
               \A k \in DOMAIN call'[v].page : call'[v].page[k].seq \in DOMAIN log'
        /\ call'[v].pc = "accepted" => call'[v].ref \in DOMAIN log'
<1>2. ASSUME NEW v \in Worker, call'[v] = call[v] PROVE Good(v)
  BY <1>1, <1>2 DEF Placed
<1>3. ASSUME NEW v \in Worker, NEW w \in Worker, Step(w) PROVE Good(v)
  <2>1. CASE v # w
    BY <1>1, <1>2, <1>3, <2>1, StepCalls
  <2>2. CASE v = w
    <3>1. call'[w].pc # "read" /\ (call'[w].pc = "accepted" => Accept(w))
      BY <1>1, <1>3, StepGoes
    <3>2. ASSUME Accept(w) PROVE call'[w].ref \in DOMAIN log'
      <4> DEFINE d == [call[w] EXCEPT !.pc = "accepted", !.ref = NextSeq]
      <4>1. call' = [call EXCEPT ![w] = d] /\ log' = Append(log, Accepted(call[w]))
        BY <3>2 DEF Accept, Commit
      <4>2. d.ref = NextSeq
        BY <1>1 DEF Call
      <4>3. Len(log') = Len(log) + 1
        BY <4>1, StepAppends, LogKept DEF TInv, TypeOK
      <4> HIDE DEF d
      <4> QED BY <1>1, <4>1, <4>2, <4>3 DEF NextSeq
    <3> QED BY <2>2, <3>1, <3>2
  <2> QED BY <2>1, <2>2
<1>4. ASSUME NEW v \in Worker, NEW w \in Worker,
             \/ \E r \in Request, t \in Text : SendClaim(w, r, t)
             \/ \E e \in Inbound : ReceiveClaim(w, e)
             \/ \E id \in OutId : ConfirmLookup(w, id)
             \/ InboxSelect(w)
      PROVE  Good(v)
  <2>1. CASE v # w
    BY <1>1, <1>2, <1>4, <2>1, StartGoes
  <2>2. CASE v = w
    BY <1>1, <1>4, <2>2, StartGoes, PageIs
  <2> QED BY <2>1, <2>2
<1>5. ASSUME NEW v \in Worker,
             \/ \E r \in Request, t \in Text : SendCached(r, t)
             \/ \E e \in Inbound : ReceiveCached(e)
             \/ \E id \in MsgId : Approve(id)
             \/ Shutdown \/ CloseLog \/ Crash \/ Start \/ StartFails \/ UNCHANGED vars
      PROVE  Good(v)
  <2>1. call' = call \/ Crash
    BY <1>5 DEF SendCached, ReceiveCached, Approve, Shutdown, CloseLog, Start,
                StartFails, vars
  <2>2. CASE Crash
    BY <2>2, IdleOK DEF Crash
  <2> QED BY <1>2, <2>1, <2>2
<1>6. \A v \in Worker : Good(v)
  <2> HIDE DEF Good
  <2> QED BY <1>3, <1>4, <1>5, [Next]_vars DEF Next
<1> QED BY <1>6, NextIndex DEF Placed

\* The agent's cursor is a position of the log, and so is all it was given.
LEMMA NextReader ==
    ASSUME TInv, [Next]_vars
    PROVE  cursor' \in 0..Len(log') /\ fetched' \subseteq DOMAIN log'
<1>1. /\ cursor \in 0..Len(log) /\ fetched \subseteq DOMAIN log
      /\ Len(log) \in Nat /\ Len(log') \in Nat /\ Len(log) <= Len(log')
      /\ DOMAIN log = 1..Len(log) /\ DOMAIN log' = 1..Len(log')
      /\ DOMAIN log \subseteq DOMAIN log'
  BY LogKept DEF TInv, TypeOK
<1>2. CASE cursor' = cursor /\ fetched' = fetched
  BY <1>1, <1>2
<1>3. ASSUME NEW w \in Worker, InboxReturn(w)
      PROVE  cursor' \in 0..Len(log') /\ fetched' \subseteq DOMAIN log'
  <2> DEFINE page == call[w].page
             seqs == {page[i].seq : i \in DOMAIN page}
  <2>1. /\ cursor' = Max(seqs \cup {cursor}) /\ fetched' = fetched \cup seqs
        /\ call[w].pc = "read"
    BY <1>3 DEF InboxReturn
  <2>2. seqs \in SUBSET (1..Len(log))
    BY <1>1, <2>1 DEF TInv, Placed
  <2> HIDE DEF seqs
  <2>3. Max(seqs \cup {cursor}) \in 0..Len(log)
    BY <1>1, <2>2, MaxWithin
  <2>4. cursor' \in 0..Len(log')
    BY <1>1, <2>1, <2>3
  <2>5. fetched' \subseteq DOMAIN log'
    <3>1. seqs \subseteq DOMAIN log
      BY <1>1, <2>2
    <3> QED BY <1>1, <2>1, <3>1
  <2> QED BY <2>4, <2>5
<1>4. ASSUME NEW w \in Worker, Step(w)
      PROVE  cursor' \in 0..Len(log') /\ fetched' \subseteq DOMAIN log'
  BY <1>2, <1>3, <1>4, StepFrame
<1>5. ASSUME \/ \E w \in Worker :
                    \/ \E r \in Request, t \in Text : SendClaim(w, r, t)
                    \/ \E e \in Inbound : ReceiveClaim(w, e)
                    \/ \E id \in OutId : ConfirmLookup(w, id)
                    \/ InboxSelect(w)
             \/ \E r \in Request, t \in Text : SendCached(r, t)
             \/ \E e \in Inbound : ReceiveCached(e)
             \/ \E id \in MsgId : Approve(id)
             \/ Shutdown \/ CloseLog \/ Crash \/ Start \/ StartFails \/ UNCHANGED vars
      PROVE  cursor' = cursor /\ fetched' = fetched
  BY <1>5 DEF SendClaim, ReceiveClaim, ConfirmLookup, InboxSelect, SendCached,
              ReceiveCached, Approve, Shutdown, CloseLog, Crash, Start, StartFails,
              vars, reader
<1> QED BY <1>2, <1>4, <1>5, [Next]_vars DEF Next

LEMMA NextDown ==
    ASSUME TInv, [Next]_vars
    PROVE  DownIsQuiet'
<1>1. /\ call \in [Worker -> Call] /\ DownIsQuiet /\ up \in BOOLEAN
  BY DEF TInv, TypeOK
<1>2. ASSUME NEW w \in Worker, Step(w) PROVE DownIsQuiet'
  <2>1. call[w].pc # "idle"
    BY <1>1, <1>2, StepGoes DEF ConfirmClaim
  <2>2. up
    BY <1>1, <2>1, IdleOK DEF DownIsQuiet
  <2>3. up' = up
    BY <1>2, StepFrame
  <2> QED BY <2>2, <2>3 DEF DownIsQuiet
<1>3. ASSUME \/ \E w \in Worker :
                    \/ \E r \in Request, t \in Text : SendClaim(w, r, t)
                    \/ \E e \in Inbound : ReceiveClaim(w, e)
                    \/ \E id \in OutId : ConfirmLookup(w, id)
                    \/ InboxSelect(w)
             \/ \E r \in Request, t \in Text : SendCached(r, t)
             \/ \E e \in Inbound : ReceiveCached(e)
             \/ Shutdown \/ CloseLog \/ Start
      PROVE  up'
  <2>1. CASE Start
    BY <2>1 DEF Start
  <2>2. CASE ~ Start
    <3>1. up /\ up' = up
      BY <1>3, <2>2 DEF SendClaim, ReceiveClaim, ConfirmLookup, InboxSelect,
             SendCached, ReceiveCached, Shutdown, CloseLog, Serving, service
    <3> QED BY <3>1
  <2> QED BY <2>1, <2>2
<1>4. CASE Crash
  BY <1>4 DEF Crash, DownIsQuiet
<1>5. CASE (\E id \in MsgId : Approve(id)) \/ StartFails \/ UNCHANGED vars
  BY <1>1, <1>5 DEF Approve, StartFails, vars, service, DownIsQuiet
<1>6. up' => DownIsQuiet'
  BY DEF DownIsQuiet
<1> QED BY <1>2, <1>3, <1>4, <1>5, <1>6, [Next]_vars DEF Next

LEMMA InitTInv == Init => TInv
<1> SUFFICES ASSUME Init PROVE TInv
  OBVIOUS
<1>1. /\ << >> \in Seq(Entry) /\ DOMAIN << >> = {} /\ Len(<< >>) = 0
  OBVIOUS
<1>2. /\ Rebuild(<< >>) \in Index /\ Finished(Rebuild(<< >>))
      /\ \A k \in DOMAIN Rebuild(<< >>).inbox :
               Rebuild(<< >>).inbox[k].seq \in DOMAIN << >>
  BY <1>1, RebuildOK
<1>3. TypeOK
  <2>1. log \in Seq(Entry) /\ cursor \in 0..Len(log) /\ fetched \subseteq DOMAIN log
    BY <1>1 DEF Init
  <2>2. index \in Index /\ call \in [Worker -> Call]
    BY <1>2, IdleOK DEF Init
  <2>3. /\ logState \in {"open", "failed", "closed"}
        /\ up \in BOOLEAN /\ closing \in BOOLEAN
        /\ active \subseteq Key
        /\ answers \subseteq [key : Key, out : SendResult \cup ReceiveResult]
    BY DEF Init
  <2>4. /\ pending \in [MsgId -> Proposal \cup {None, Damaged}]
        /\ approved \in [MsgId -> Proposal \cup {None, Damaged}]
    BY DEF Init
  <2> QED BY <2>1, <2>2, <2>3, <2>4 DEF TypeOK
<1>4. Placed /\ DownIsQuiet /\ (\A w \in Worker : CallOK(call[w]))
  BY <1>1, <1>2, IdleOK DEF Init, Placed, DownIsQuiet
<1> QED BY <1>1, <1>2, <1>3, <1>4 DEF Init, TInv

LEMMA NextTInv == TInv /\ [Next]_vars => TInv'
<1> SUFFICES ASSUME TInv, [Next]_vars PROVE TInv'
  OBVIOUS
<1>1. TypeOK'
  BY LogKept, NextCalls, NextIndex, NextRest, NextReader DEF TypeOK
<1> QED BY <1>1, LogKept, NextCalls, NextIndex, NextPlaced, NextDown DEF TInv

LEMMA TypesInvariant == Spec => []TInv
BY InitTInv, NextTInv, PTL DEF Spec

\* Type correctness of one endpoint: every value the service, its log and its
\* approval store hold, whatever calls run, fail or are cut off by a crash.
THEOREM TypesHold == Spec => []TypeOK
<1>1. TInv => TypeOK
  BY DEF TInv
<1> QED BY <1>1, TypesInvariant, PTL

(***************************************************************************)
(* Claims, and the workers group.                                          *)
(***************************************************************************)

\* A call begins; a step in which no call takes part.
Begins(w) ==
    \/ \E r \in Request, t \in Text : SendClaim(w, r, t)
    \/ \E e \in Inbound : ReceiveClaim(w, e)
    \/ \E id \in OutId : ConfirmLookup(w, id)
    \/ InboxSelect(w)
Aside ==
    \/ \E r \in Request, t \in Text : SendCached(r, t)
    \/ \E e \in Inbound : ReceiveCached(e)
    \/ \E id \in MsgId : Approve(id)
    \/ Shutdown \/ CloseLog \/ StartFails \/ UNCHANGED vars

LEMMA NextIs ==
    ASSUME [Next]_vars
    PROVE  \/ \E w \in Worker : Step(w)
           \/ \E w \in Worker : Begins(w)
           \/ Crash \/ Start \/ Aside
BY DEF Next, Begins, Aside

LEMMA BeginsKeeps ==
    ASSUME NEW w \in Worker, Begins(w)
    PROVE  /\ UNCHANGED <<log, logState, index, pending, approved, answers, cursor, fetched>>
           /\ up' = up /\ closing' = closing
BY DEF Begins, SendClaim, ReceiveClaim, ConfirmLookup, InboxSelect, service, approvals, reader

LEMMA AsideKeeps ==
    ASSUME Aside
    PROVE  /\ UNCHANGED <<active, index, call, pending, cursor, fetched>>
           /\ up' = up
           /\ log' = log \/ (~ up /\ log' = Append(log, Started))
           /\ logState' = logState \/ logState' = "closed"
           /\ closing => closing'
<1>1. CASE (\E r \in Request, t \in Text : SendCached(r, t))
           \/ (\E e \in Inbound : ReceiveCached(e))
           \/ (\E id \in MsgId : Approve(id))
  <2>1. UNCHANGED <<active, index, call, pending, cursor, fetched, log, logState, up, closing>>
    BY <1>1 DEF SendCached, ReceiveCached, Approve, service, approvals, reader
  <2> QED BY <2>1
<1>2. CASE Shutdown \/ CloseLog
  BY <1>2 DEF Shutdown, CloseLog, service, approvals, reader
<1>3. CASE StartFails \/ UNCHANGED vars
  BY <1>3 DEF StartFails, vars, service, approvals, reader
<1> QED BY <1>1, <1>2, <1>3 DEF Aside

CInv == ClaimsExact /\ IsFiniteSet(active)

LEMMA InitCInv == Init => CInv
<1> SUFFICES ASSUME Init PROVE CInv
  OBVIOUS
<1>1. /\ active = {} /\ \A w \in Worker : call[w].key = None
  BY IdleOK DEF Init
<1>2. IsFiniteSet({}) /\ Cardinality({}) = 0
  BY FS_EmptySet
<1> QED BY <1>1, <1>2, MailboxAssumption DEF CInv, ClaimsExact

\* A claim adds one key nobody held, and there was a slot for it.
LEMMA ClaimTakes ==
    ASSUME CInv, call \in [Worker -> Call], call' \in [Worker -> Call],
           NEW w \in Worker, call[w].key = None,
           call'[w].key # None, Claim(call'[w].key),
           \A v \in Worker \ {w} : call'[v] = call[v]
    PROVE  CInv'
<1> DEFINE key == call'[w].key
<1>1. /\ active = {call[v].key : v \in Worker} \ {None}
      /\ \A u, v \in Worker : call[u].key = call[v].key /\ call[u].key # None => u = v
      /\ IsFiniteSet(active) /\ Cardinality(active) \in Nat
  BY FS_CardinalityType DEF CInv, ClaimsExact
<1>2. /\ key \notin active /\ Cardinality(active) < MaxConcurrent
      /\ active' = active \cup {key}
  BY DEF Claim, Claimable
<1>3. IsFiniteSet(active') /\ Cardinality(active') = Cardinality(active) + 1
  BY <1>1, <1>2, FS_AddElement
<1>4. active' = {call'[v].key : v \in Worker} \ {None}
  BY <1>1, <1>2
<1>5. \A u, v \in Worker : call'[u].key = call'[v].key /\ call'[u].key # None => u = v
  BY <1>1, <1>2
<1>6. Cardinality(active') <= MaxConcurrent
  BY <1>1, <1>2, <1>3, MailboxAssumption
<1> QED BY <1>3, <1>4, <1>5, <1>6 DEF CInv, ClaimsExact

LEMMA FinishGives ==
    ASSUME CInv, call \in [Worker -> Call], NEW w \in Worker, Finish(w)
    PROVE  CInv'
<1>1. /\ active = {call[v].key : v \in Worker} \ {None}
      /\ \A u, v \in Worker : call[u].key = call[v].key /\ call[u].key # None => u = v
      /\ IsFiniteSet(active) /\ Cardinality(active) \in Nat
      /\ Cardinality(active) <= MaxConcurrent
  BY FS_CardinalityType DEF CInv, ClaimsExact
<1>2. /\ active' = active \ {call[w].key} /\ call'[w].key = None
      /\ \A v \in Worker \ {w} : call'[v] = call[v]
  BY IdleOK DEF Finish
<1>3. IsFiniteSet(active') /\ Cardinality(active') \in Nat
      /\ Cardinality(active') <= Cardinality(active)
  BY <1>1, <1>2, FS_Subset, FS_CardinalityType
<1>4. active' = {call'[v].key : v \in Worker} \ {None}
  BY <1>1, <1>2
<1>5. \A u, v \in Worker : call'[u].key = call'[v].key /\ call'[u].key # None => u = v
  BY <1>1, <1>2
<1>6. Cardinality(active') <= MaxConcurrent
  BY <1>1, <1>3, MailboxAssumption
<1> QED BY <1>3, <1>4, <1>5, <1>6 DEF CInv, ClaimsExact

LEMMA NextCInv == TInv /\ CInv /\ [Next]_vars => CInv'
<1> SUFFICES ASSUME TInv, CInv, [Next]_vars PROVE CInv'
  OBVIOUS
<1>1. call \in [Worker -> Call] /\ call' \in [Worker -> Call]
      /\ \A w \in Worker : CallOK(call[w])
  BY NextCalls DEF TInv, TypeOK
<1>2. ASSUME active' = active, \A v \in Worker : call'[v].key = call[v].key
      PROVE  CInv'
  BY <1>2 DEF CInv, ClaimsExact
<1>3. ASSUME NEW w \in Worker, Step(w) PROVE CInv'
  <2>1. \A v \in Worker \ {w} : call'[v] = call[v]
    BY <1>1, <1>3, StepCalls
  <2>2. CASE active' = active /\ call'[w].key = call[w].key
    BY <1>2, <2>1, <2>2
  <2>3. CASE Finish(w)
    BY <1>1, <2>3, FinishGives
  <2>4. CASE ConfirmClaim(w) /\ ~ Finish(w)
    <3>1. /\ call[w].pc = "confirm_claim" /\ Claim(<<"confirm", call[w].id>>)
          /\ call' = [call EXCEPT ![w].pc = "confirm", ![w].key = <<"confirm", call[w].id>>]
      BY <2>4 DEF ConfirmClaim
    <3>2. call[w].key = None /\ call[w].id \in OutId
      BY <1>1, <3>1, KindOf DEF Confirming
    <3>3. call'[w].key = <<"confirm", call[w].id>>
      BY <1>1, <3>1 DEF Call
    <3>4. <<"confirm", call[w].id>> # None
      BY <3>2, AbsentAssumption DEF Key
    <3> QED BY <1>1, <2>1, <3>1, <3>2, <3>3, <3>4, ClaimTakes
  <2> QED BY <1>1, <1>3, <2>2, <2>3, <2>4, StepGoes
<1>4. ASSUME NEW w \in Worker, Begins(w) PROVE CInv'
  <2>1. /\ call[w] = Idle
        /\ \A v \in Worker \ {w} : call'[v] = call[v]
        /\ \/ call'[w].key = None /\ active' = active
           \/ call'[w].key # None /\ Claim(call'[w].key)
    BY <1>1, <1>4, StartGoes DEF Begins
  <2> QED BY <1>1, <1>2, <2>1, IdleOK, ClaimTakes
<1>5. CASE Crash
  <2>1. active' = {} /\ \A v \in Worker : call'[v].key = None
    BY <1>5, IdleOK DEF Crash
  <2>2. IsFiniteSet({}) /\ Cardinality({}) = 0
    BY FS_EmptySet
  <2> QED BY <2>1, <2>2, MailboxAssumption DEF CInv, ClaimsExact
<1>6. CASE Start
  BY <1>2, <1>6 DEF Start
<1>7. CASE Aside
  BY <1>2, <1>7, AsideKeeps
<1> QED BY <1>3, <1>4, <1>5, <1>6, <1>7, NextIs

LEMMA ClaimsInvariant == Spec => []CInv
BY InitCInv, NextCInv, TypesInvariant, PTL DEF Spec

\* Service.claim: the claimed keys are those of the running calls, one call for
\* each, and never more than max_concurrent of them: no way a call can end, also
\* by an error or a crash, leaks a slot or gives away another call's claim.
THEOREM ClaimsHeld == Spec => []ClaimsExact
<1>1. CInv => ClaimsExact
  BY DEF CInv
<1> QED BY <1>1, ClaimsInvariant, PTL

LEMMA DrainedStep ==
    ASSUME TInv, [Next]_vars, up, up', closing
    PROVE  /\ closing'
           /\ Cardinality(Counted') <= Cardinality(Counted)
           /\ Counted = {} => log' = log
<1>1. call \in [Worker -> Call]
  BY DEF TInv, TypeOK
<1>2. /\ closing'
      /\ \A w \in Worker : call'[w].pc \notin {"idle", "confirm_claim"}
                               => call[w].pc \notin {"idle", "confirm_claim"}
      /\ log' # log => \E w \in Worker : call[w].pc \notin {"idle", "confirm_claim"}
  <2>1. ASSUME NEW w \in Worker, Step(w)
        PROVE  /\ closing'
               /\ \A v \in Worker : call'[v].pc \notin {"idle", "confirm_claim"}
                                        => call[v].pc \notin {"idle", "confirm_claim"}
               /\ log' # log => call[w].pc \notin {"idle", "confirm_claim"}
    <3>1. \A v \in Worker \ {w} : call'[v] = call[v]
      BY <1>1, <2>1, StepCalls
    <3>2. call'[w].pc \notin {"idle", "confirm_claim"}
              => call[w].pc \notin {"idle", "confirm_claim"}
      <4>1. Finish(w) => call'[w].pc = "idle"
        BY <1>1, IdleOK DEF Finish
      <4>2. ConfirmClaim(w) => Finish(w)
        BY DEF ConfirmClaim
      <4> QED BY <1>1, <2>1, <4>1, <4>2, StepGoes
    <3>3. log' # log => call[w].pc \notin {"idle", "confirm_claim"}
      BY <2>1, StepAppends DEF Appending
    <3>4. closing'
      BY <2>1, StepFrame
    <3> QED BY <3>1, <3>2, <3>3, <3>4
  <2>2. ASSUME NEW w \in Worker, Begins(w) PROVE FALSE
    BY <1>1, <2>2, StartGoes DEF Begins, Serving
  <2>3. ~ Crash /\ ~ Start
    BY DEF Crash, Start
  <2>4. CASE Aside
    BY <2>4, AsideKeeps
  <2> QED BY <2>1, <2>2, <2>3, <2>4, NextIs
<1>3. Counted' \in SUBSET Counted
  BY <1>2 DEF Counted
<1>4. Counted \in SUBSET Worker
  BY DEF Counted
<1>5. Cardinality(Counted') <= Cardinality(Counted)
  BY <1>3, <1>4, MailboxAssumption, FS_Subset
<1>6. Counted = {} => log' = log
  BY <1>2 DEF Counted
<1> QED BY <1>2, <1>5, <1>6

\* Service.Shutdown: once closing is set no call enters the workers group, and
\* after the group has drained nothing is written to the log, so that runServe
\* may close it.
THEOREM DrainHolds == Spec => DrainedIsSilent
<1>1. TInv /\ [Next]_vars =>
          [up /\ up' /\ closing =>
               /\ closing'
               /\ Cardinality(Counted') <= Cardinality(Counted)
               /\ Counted = {} => log' = log]_vars
  BY DrainedStep
<1> QED BY <1>1, TypesInvariant, PTL DEF Spec, DrainedIsSilent

(***************************************************************************)
(* What each step of a call does, for the invariants about one request or  *)
(* one message.                                                            *)
(***************************************************************************)

\* Whose entry it is.
LEMMA EntryOwner ==
    ASSUME NEW c \in Call, CallOK(c), NEW e \in Appending(c)
    PROVE  /\ e.type = "message_submitted" =>
                  c.pc = "submit" /\ Sending(c) /\ c.key = <<"send", e.req>>
           /\ \A r : Ends(e, r) =>
                  c.pc \in {"deny", "release"} /\ Sending(c) /\ c.key = <<"send", r>>
           /\ e.type = "outbound_released" =>
                  c.pc = "release" /\ Sending(c) /\ e = Released(c)
           /\ e.type = "inbound_verified" =>
                  c.pc = "verify" /\ Receiving(c) /\ e = InboundVerified(c)
           /\ e.type = "inbound_accepted" =>
                  c.pc = "accept" /\ Receiving(c) /\ e = Accepted(c)
           /\ e.type = "acknowledgement_issued" =>
                  c.pc = "ack" /\ Receiving(c) /\ e = AckIssued(c)
           /\ e.type = "delivery_confirmed" =>
                  c.pc = "confirm" /\ Confirming(c) /\ e = DeliveryConfirmed(c)
           /\ c.pc \in {"scan", "model", "deny", "required", "consume", "release", "accept"}
                  => e.dir = c.dir /\ e.id = c.id
           /\ e.type = "message_blocked" => c.pc = "deny" /\ e = Blocked(c)
<1>1. CASE c.pc = "submit"
  <2>1. PICK id \in FreshIds : e = Submitted(c, id)
    BY <1>1 DEF Appending
  <2>2. e.type = "message_submitted" /\ e.req = c.key[2]
    BY <2>1 DEF Submitted, EntryOf
  <2>3. Sending(c)
    BY <1>1, KindOf
  <2>4. c.key = <<"send", c.key[2]>>
    BY <2>3 DEF Sending
  <2> QED BY <1>1, <2>2, <2>3, <2>4 DEF Ends
<1>2. CASE c.pc \in {"scan", "model", "required", "consume"}
  <2>1. /\ e.type \in {"deterministic_guard", "model_guard", "guard_failed",
                       "approval_required", "approval_consumed"}
        /\ e.dir = c.dir /\ e.id = c.id
    <3>1. CASE c.pc = "scan"
      BY <3>1 DEF Appending, DeterministicVerdict, EntryOf
    <3>2. CASE c.pc = "model"
      <4>1. e = GuardFailure(c) \/ \E m \in {"allow", "review", "deny"} : e = ModelVerdict(c, m)
        BY <3>2 DEF Appending
      <4>2. e = GuardFailure(c) => /\ e.type = "guard_failed"
                                   /\ e.dir = c.dir /\ e.id = c.id
        BY DEF GuardFailure, EntryOf
      <4>3. ASSUME NEW m, e = ModelVerdict(c, m)
            PROVE  e.type = "model_guard" /\ e.dir = c.dir /\ e.id = c.id
        BY <4>3 DEF ModelVerdict, EntryOf
      <4> QED BY <4>1, <4>2, <4>3
    <3>3. CASE c.pc \in {"required", "consume"}
      BY <3>3 DEF Appending, ApprovalPending, ApprovalUsed, EntryOf
    <3> QED BY <1>2, <3>1, <3>2, <3>3
  <2> QED BY <1>2, <2>1 DEF Ends
<1>3. CASE c.pc = "deny"
  <2>1. /\ e = Blocked(c) /\ e.type = "message_blocked" /\ e.dir = c.dir /\ e.id = c.id
        /\ e.req = OutboundReq(c)
    BY <1>3 DEF Appending, Blocked, EntryOf
  <2>2. Sending(c) \/ Receiving(c)
    BY <1>3, KindOf DEF Evaluating
  <2>3. c.dir = "outbound" => Sending(c) /\ c.key = <<"send", OutboundReq(c)>>
    BY <2>2 DEF Sending, Receiving, OutboundReq
  <2> QED BY <1>3, <2>1, <2>3 DEF Ends
<1>4. CASE c.pc = "release"
  <2>1. /\ e = Released(c) /\ e.type = "outbound_released" /\ e.dir = c.dir
        /\ e.id = c.id /\ e.req = c.key[2]
    BY <1>4 DEF Appending, Released, EntryOf
  <2>2. Sending(c)
    BY <1>4, KindOf
  <2>3. c.key = <<"send", c.key[2]>>
    BY <2>2 DEF Sending
  <2> QED BY <1>4, <2>1, <2>2, <2>3 DEF Ends
<1>5. CASE c.pc \in {"verify", "accept", "ack"}
  <2>1. /\ c.pc = "verify" => e = InboundVerified(c) /\ e.type = "inbound_verified"
        /\ c.pc = "accept" => e = Accepted(c) /\ e.type = "inbound_accepted"
        /\ c.pc = "ack" => e = AckIssued(c) /\ e.type = "acknowledgement_issued"
        /\ e.dir = c.dir /\ e.id = c.id
    BY <1>5 DEF Appending, InboundVerified, Accepted, AckIssued, EntryOf
  <2>2. Receiving(c)
    BY <1>5, KindOf
  <2> QED BY <1>5, <2>1, <2>2 DEF Ends
<1>6. CASE c.pc \in {"confirm", "read"}
  <2>1. /\ c.pc = "confirm" => e = DeliveryConfirmed(c) /\ e.type = "delivery_confirmed"
        /\ c.pc = "read" => e.type = "inbox_read"
    BY <1>6 DEF Appending, DeliveryConfirmed, InboxRead, EntryOf
  <2>2. c.pc = "confirm" => Confirming(c)
    BY KindOf
  <2> QED BY <1>6, <2>1, <2>2 DEF Ends
<1>7. c.pc \in Writing
  BY DEF Appending, Writing
<1> QED BY <1>1, <1>2, <1>3, <1>4, <1>5, <1>6, <1>7 DEF Writing

\* Entries no replayed request, message or confirmation depends on.
Quiet(e) ==
    /\ e.type \notin {"message_submitted", "outbound_released", "inbound_verified",
                      "inbound_accepted", "acknowledgement_issued", "delivery_confirmed"}
    /\ e.type = "message_blocked" => e.dir # "outbound" /\ e.req = None

LEMMA StartedQuiet == Quiet(Started)
BY DEF Quiet, Started, EntryOf

\* The call returns an error: the index stays as it is, and so does the log, for
\* an entry nothing is replayed from, unless the append failed.
Quits(w) ==
    /\ Finish(w)
    /\ call[w].pc \in Writing \cup {"review", "hold", "confirm_claim"}
    /\ index' = index /\ answers' = answers
    /\ \/ log' = log
       \/ logState' = "failed"
       \/ \E e \in Appending(call[w]) : Quiet(e) /\ log' = Append(log, e)

\* The call goes on with its evaluation, or from it to the last append.
Decides(w) ==
    LET c == call[w]
        d == call'[w] IN
    /\ c.pc \in Evaluating
    /\ d.key = c.key /\ d.dir = c.dir /\ d.id = c.id /\ d.what = c.what /\ d.rec = c.rec
    /\ d.pc \in (Evaluating \ {"scan"}) \cup {"release", "accept"}
    /\ d.pc = "deny" => d.dec = "deny"
    /\ d.pc \in {"release", "accept"} => d.ref = Len(log) + 1 /\ log' # log
    /\ index' = index /\ answers' = answers /\ active' = active /\ logState' = logState
    /\ \/ log' = log
       \/ \E e \in Appending(c) : Quiet(e) /\ log' = Append(log, e)

LEMMA StepKinds ==
    ASSUME TInv, NEW w \in Worker, Step(w)
    PROVE  \/ Quits(w) \/ Decides(w)
           \/ Submit(w) \/ RecordRequest(w) \/ (Block(w) /\ call[w].dir = "outbound")
           \/ Release(w) \/ RecordFinal(w)
           \/ Verify(w) \/ RecordSeen(w) \/ Accept(w) \/ Publish(w)
           \/ IssueAck(w) \/ RecordAck(w)
           \/ (ConfirmClaim(w) /\ ~ Finish(w)) \/ AppendConfirm(w) \/ RecordConfirm(w)
           \/ InboxReturn(w)
<1> DEFINE c == call[w]
           Kinds ==
               \/ Quits(w) \/ Decides(w)
               \/ Submit(w) \/ RecordRequest(w) \/ (Block(w) /\ call[w].dir = "outbound")
               \/ Release(w) \/ RecordFinal(w)
               \/ Verify(w) \/ RecordSeen(w) \/ Accept(w) \/ Publish(w)
               \/ IssueAck(w) \/ RecordAck(w)
               \/ (ConfirmClaim(w) /\ ~ Finish(w)) \/ AppendConfirm(w) \/ RecordConfirm(w)
               \/ InboxReturn(w)
<1> SUFFICES Kinds
  OBVIOUS
<1>0. call \in [Worker -> Call] /\ c \in Call /\ CallOK(c) /\ log \in Seq(Entry)
  BY DEF TInv, TypeOK
<1>1. CASE GuardFailed(w) \/ ApprovalRequired(w)
  <2>1. Finish(w) /\ index' = index /\ answers' = answers /\ c.pc \in Writing
    BY <1>1 DEF GuardFailed, ApprovalRequired, Writing
  <2>2. Quiet(GuardFailure(c)) /\ Quiet(ApprovalPending(c))
    BY DEF Quiet, GuardFailure, ApprovalPending, EntryOf
  <2>3. GuardFailed(w) => /\ log' = Append(log, GuardFailure(c))
                          /\ GuardFailure(c) \in Appending(c)
    BY DEF GuardFailed, Appending
  <2>4. ApprovalRequired(w) => /\ log' = Append(log, ApprovalPending(c))
                               /\ ApprovalPending(c) \in Appending(c)
    BY DEF ApprovalRequired, Appending
  <2> QED BY <1>1, <2>1, <2>2, <2>3, <2>4 DEF Quits
<1>2. CASE Block(w) /\ c.dir # "outbound"
  <2>1. /\ log' = Append(log, Blocked(c)) /\ Blocked(c) \in Appending(c)
        /\ Finish(w) /\ index' = index /\ answers' = answers /\ c.pc \in Writing
    BY <1>2 DEF Block, Appending, Writing
  <2>2. Quiet(Blocked(c))
    BY <1>2 DEF Quiet, Blocked, EntryOf, OutboundReq
  <2> QED BY <2>1, <2>2 DEF Quits
<1>3. CASE SavePendingFails(w) \/ (CheckApproval(w) /\ Finish(w))
           \/ (ConfirmClaim(w) /\ Finish(w))
  BY <1>3 DEF SavePendingFails, CheckApproval, ConfirmClaim, Quits
<1>4. CASE AppendFails(w)
  BY <1>4 DEF AppendFails, Quits
<1>5. ASSUME NEW pc, call' = [call EXCEPT ![w].pc = pc], c.pc \in Evaluating,
             pc \in Evaluating \ {"scan", "deny"}, log' = log,
             index' = index, answers' = answers, active' = active, logState' = logState
      PROVE  Decides(w)
  <2>1. call'[w] = [c EXCEPT !.pc = pc]
    BY <1>0, <1>5
  <2>2. /\ call'[w].pc = pc /\ call'[w].key = c.key /\ call'[w].dir = c.dir
        /\ call'[w].id = c.id /\ call'[w].what = c.what /\ call'[w].rec = c.rec
    BY <1>0, <2>1 DEF Call
  <2> QED BY <1>5, <2>2 DEF Decides, Evaluating
<1>6. CASE CheckApproval(w) /\ ~ Finish(w)
  <2>1. PICK pc \in {"consume", "hold"} : Moves(w, pc)
    BY <1>6 DEF CheckApproval
  <2>2. Decides(w)
    BY <1>5, <1>6, <2>1 DEF CheckApproval, Moves, Evaluating
  <2> QED BY <2>2
<1>7. CASE SavePending(w)
  <2>1. Decides(w)
    BY <1>5, <1>7 DEF SavePending, Moves, Evaluating
  <2> QED BY <2>1
<1>8. ASSUME NEW e \in Appending(c), Quiet(e), log' = Append(log, e), c.pc \in Evaluating,
             index' = index, answers' = answers, active' = active, logState' = logState,
             NEW d, call' = [call EXCEPT ![w] = d],
             d.key = c.key, d.dir = c.dir, d.id = c.id, d.what = c.what, d.rec = c.rec,
             d.pc \in (Evaluating \ {"scan"}) \cup {"release", "accept"},
             d.pc = "deny" => d.dec = "deny",
             d.pc \in {"release", "accept"} => d.ref = NextSeq
      PROVE  Decides(w)
  <2>1. call'[w] = d
    BY <1>0, <1>8
  <2>2. e \in Entry
    BY <1>0, Appendable
  <2>3. log' # log
    BY <1>0, <1>8, <2>2
  <2> QED BY <1>8, <2>1, <2>3 DEF Decides, NextSeq
<1>9. ASSUME NEW v, v.dec \in {"allow", "review", "deny"}, c \in Call
      PROVE  LET d == After(c, v) IN
             /\ d.key = c.key /\ d.dir = c.dir /\ d.id = c.id /\ d.what = c.what
             /\ d.rec = c.rec
             /\ d.pc \in (Evaluating \ {"scan"}) \cup {"release", "accept"}
             /\ d.pc = "deny" => d.dec = "deny"
             /\ d.pc \in {"release", "accept"} => d.ref = NextSeq
  <2> HIDE DEF c
  <2> QED BY <1>9 DEF After, Call, Evaluating
<1>10. CASE DeterministicGuard(w)
  <2> DEFINE e == DeterministicVerdict(c)
  <2>1. /\ e \in Appending(c) /\ log' = Append(log, e) /\ c.pc = "scan"
        /\ index' = index /\ answers' = answers /\ active' = active /\ logState' = logState
    BY <1>10 DEF DeterministicGuard, Commit, Appending
  <2>2. Quiet(e)
    BY DEF Quiet, DeterministicVerdict, EntryOf
  <2> HIDE DEF e
  <2>3. CASE Scan[Body(c)] = "deny"
    <3> DEFINE v == [dec |-> "deny", why |-> "scan"]
               d == After(c, v)
    <3>1. call' = [call EXCEPT ![w] = d]
      BY <1>10, <2>3 DEF DeterministicGuard, Commit
    <3>2. v.dec \in {"allow", "review", "deny"}
      OBVIOUS
    <3>3. /\ d.key = c.key /\ d.dir = c.dir /\ d.id = c.id /\ d.what = c.what
          /\ d.rec = c.rec
          /\ d.pc \in (Evaluating \ {"scan"}) \cup {"release", "accept"}
          /\ d.pc = "deny" => d.dec = "deny"
          /\ d.pc \in {"release", "accept"} => d.ref = NextSeq
      <4> HIDE DEF c, v
      <4> QED BY <1>0, <1>9, <3>2 DEF c
    <3> HIDE DEF d
    <3>4. Decides(w)
      BY <1>8, <2>1, <2>2, <3>1, <3>3 DEF Evaluating
    <3> QED BY <3>4
  <2>4. CASE Scan[Body(c)] # "deny"
    <3> DEFINE d == [c EXCEPT !.pc = "model", !.dec = Scan[Body(c)]]
    <3>1. call' = [call EXCEPT ![w] = d]
      BY <1>10, <2>4 DEF DeterministicGuard, Commit
    <3>2. /\ d.key = c.key /\ d.dir = c.dir /\ d.id = c.id /\ d.what = c.what
          /\ d.rec = c.rec /\ d.pc = "model"
      BY <1>0 DEF Call
    <3> HIDE DEF d
    <3>4. Decides(w)
      BY <1>8, <2>1, <2>2, <3>1, <3>2 DEF Evaluating
    <3> QED BY <3>4
  <2> QED BY <2>3, <2>4
<1>11. ASSUME NEW m \in {"allow", "review", "deny"}, ModelGuard(w, m) PROVE Decides(w)
  <2> DEFINE e == ModelVerdict(c, m)
             v == EffectiveDecision(c.dec, m)
             d == After(c, v)
  <2>1. /\ e \in Appending(c) /\ log' = Append(log, e) /\ c.pc = "model"
        /\ index' = index /\ answers' = answers /\ active' = active /\ logState' = logState
        /\ call' = [call EXCEPT ![w] = d]
    BY <1>11 DEF ModelGuard, Commit, Appending
  <2>2. Quiet(e)
    BY DEF Quiet, ModelVerdict, EntryOf
  <2> HIDE DEF e
  <2>3. v.dec \in {"allow", "review", "deny"}
    BY DEF EffectiveDecision
  <2>4. /\ d.key = c.key /\ d.dir = c.dir /\ d.id = c.id /\ d.what = c.what
        /\ d.rec = c.rec
        /\ d.pc \in (Evaluating \ {"scan"}) \cup {"release", "accept"}
        /\ d.pc = "deny" => d.dec = "deny"
        /\ d.pc \in {"release", "accept"} => d.ref = NextSeq
    <3> HIDE DEF c, v
    <3> QED BY <1>0, <1>9, <2>3 DEF c
  <2> HIDE DEF d
  <2> QED BY <1>8, <2>1, <2>2, <2>4 DEF Evaluating
<1>12. CASE ConsumeApproval(w)
  <2> DEFINE e == ApprovalUsed(c)
             d == [c EXCEPT !.pc = IF c.dir = "outbound" THEN "release" ELSE "accept",
                        !.dec = "review_approved", !.ref = NextSeq]
  <2>1. /\ e \in Appending(c) /\ log' = Append(log, e) /\ c.pc = "consume"
        /\ index' = index /\ answers' = answers /\ active' = active /\ logState' = logState
        /\ call' = [call EXCEPT ![w] = d]
    BY <1>12 DEF ConsumeApproval, Commit, Appending
  <2>2. Quiet(e)
    BY DEF Quiet, ApprovalUsed, EntryOf
  <2> HIDE DEF e
  <2>3. /\ d.key = c.key /\ d.dir = c.dir /\ d.id = c.id /\ d.what = c.what
        /\ d.rec = c.rec /\ d.pc \in {"release", "accept"} /\ d.ref = NextSeq
    <3> HIDE DEF c
    <3> QED BY <1>0 DEF Call, c
  <2> HIDE DEF d
  <2>4. Decides(w)
    BY <1>8, <2>1, <2>2, <2>3 DEF Evaluating
  <2> QED BY <2>4
<1> HIDE DEF Kinds
<1>13. \/ Quits(w) \/ Decides(w)
       \/ Submit(w) \/ RecordRequest(w) \/ (Block(w) /\ call[w].dir = "outbound")
       \/ Release(w) \/ RecordFinal(w)
       \/ Verify(w) \/ RecordSeen(w) \/ Accept(w) \/ Publish(w)
       \/ IssueAck(w) \/ RecordAck(w)
       \/ (ConfirmClaim(w) /\ ~ Finish(w)) \/ AppendConfirm(w) \/ RecordConfirm(w)
       \/ InboxReturn(w) => Kinds
  BY DEF Kinds
<1> QED
  BY <1>1, <1>2, <1>3, <1>4, <1>6, <1>7, <1>10, <1>11, <1>12, <1>13, Step(w) DEF Step, Kinds

(***************************************************************************)
(* Send: one proposal, one message ID and one outcome for each request.    *)
(***************************************************************************)

Final(e) == e.type \in {"message_blocked", "outbound_released"}

\* RequestBinds, and that an outcome follows the proposal of its request.
SentOnce(l) ==
    /\ \A i, j \in DOMAIN l :
           /\ l[i].type = "message_submitted" /\ l[j].type = "message_submitted"
           /\ l[i].req = l[j].req \/ l[i].id = l[j].id
           => i = j
    /\ \A i, j \in DOMAIN l :
           Final(l[i]) /\ Final(l[j]) /\ l[i].req # None /\ l[i].req = l[j].req => i = j
    /\ \A i \in DOMAIN l : l[i].type = "outbound_released" =>
           \E s \in DOMAIN l :
               /\ l[s].type = "message_submitted"
               /\ s < l[i].what.src
               /\ l[s].req = l[i].req
               /\ l[s].id = l[i].id
               /\ l[s].what = l[i].what.body
               /\ s = l[i].what.created
    /\ \A i \in DOMAIN l : Final(l[i]) /\ l[i].req # None =>
           \E s \in DOMAIN l :
               l[s].type = "message_submitted" /\ l[s].req = l[i].req /\ s < i

LEMMA SentOnceBinds == SentOnce(log) => RequestBinds
BY DEF SentOnce, RequestBinds, Types, Final

\* What the replay shows of a request says where its entries are.
LEMMA ReplayedRequest ==
    ASSUME NEW l \in Seq(Entry), \A i \in DOMAIN l : EntryOK(l[i]), SentOnce(l),
           NEW r \in Request
    PROVE  LET R == RebuiltRequest(l, r) IN
           /\ R = None =>
                  \A i \in DOMAIN l : l[i].type = "message_submitted" => l[i].req # r
           /\ R # None =>
                  /\ R.created \in DOMAIN l
                  /\ l[R.created].type = "message_submitted"
                  /\ l[R.created].req = r
                  /\ l[R.created].id = R.id
                  /\ l[R.created].what = R.bind
                  /\ R.bind \in Text /\ R.id \in OutId
                  /\ ~ R.final => \A i \in DOMAIN l : Final(l[i]) => l[i].req # r
                  /\ R.final \in BOOLEAN
<1> DEFINE s == Latest(Proposals(l, r))
           f == Latest(Outcomes(l, r))
           R == RebuiltRequest(l, r)
<1>1. R = IF s = 0 THEN None
          ELSE [bind |-> l[s].what, id |-> l[s].id, created |-> s, final |-> f > s,
                out |-> IF f > s THEN Outcome(l[f], f) ELSE None]
  BY Rebuilt
<1>2. /\ s \in 0..Len(l) /\ f \in 0..Len(l) /\ Len(l) \in Nat
      /\ s > 0 => l[s].type = "message_submitted" /\ l[s].req = r
      /\ f > 0 => Ends(l[f], r)
      /\ DOMAIN l = 1..Len(l)
  BY LatestWithin
<1>3. /\ s = 0 <=> Proposals(l, r) = {}
      /\ f = 0 <=> Outcomes(l, r) = {}
  BY PositionsWithin, LatestIs
<1> HIDE DEF s, f, R
<1>4. ASSUME s = 0
      PROVE  R = None /\ \A i \in DOMAIN l : l[i].type = "message_submitted" => l[i].req # r
  BY <1>1, <1>2, <1>3, <1>4 DEF Proposals
<1>5. ASSUME s # 0
      PROVE  /\ R # None
             /\ R.created \in DOMAIN l
             /\ l[R.created].type = "message_submitted"
             /\ l[R.created].req = r
             /\ l[R.created].id = R.id
             /\ l[R.created].what = R.bind
             /\ R.bind \in Text /\ R.id \in OutId
             /\ ~ R.final => \A i \in DOMAIN l : Final(l[i]) => l[i].req # r
             /\ R.final \in BOOLEAN
  <2>1. /\ R = [bind |-> l[s].what, id |-> l[s].id, created |-> s, final |-> f > s,
                out |-> IF f > s THEN Outcome(l[f], f) ELSE None]
        /\ s \in DOMAIN l /\ l[s].type = "message_submitted" /\ l[s].req = r
        /\ EntryOK(l[s])
    BY <1>1, <1>2, <1>5
  <2>2. /\ R.created = s /\ R.id = l[s].id /\ R.bind = l[s].what /\ R.final = (f > s)
        /\ l[s].what \in Text /\ l[s].id \in OutId
    BY <2>1 DEF EntryOK
  <2>3. R \in RequestRecord
    BY <1>5, RebuildOK DEF R, s
  <2>4. R # None
    BY <2>3, AbsentAssumption
  <2>5. ASSUME ~ R.final, NEW i \in DOMAIN l, Final(l[i]), l[i].req = r
        PROVE  FALSE
    <3>1. EntryOK(l[i]) /\ r # None
      BY AbsentAssumption
    <3>2. Ends(l[i], r)
      BY <2>5, <3>1 DEF EntryOK, Final, Ends
    <3>3. i \in Outcomes(l, r)
      BY <1>2, <3>2 DEF Outcomes, Ends
    <3>4. f \in Outcomes(l, r) /\ i <= f
      BY <3>3, PositionsWithin, LatestIs DEF f
    <3>5. PICK j \in DOMAIN l : l[j].type = "message_submitted" /\ l[j].req = r /\ j < i
      BY <2>5, <3>1 DEF SentOnce
    <3>6. j = s
      BY <2>1, <3>5 DEF SentOnce
    <3>7. f > s
      BY <1>2, <3>4, <3>5, <3>6
    <3> QED BY <2>2, <2>5, <3>7
  <2> QED BY <2>1, <2>2, <2>4, <2>5
<1> QED BY <1>4, <1>5 DEF R

\* The replay of the empty log.
LEMMA EmptyReplay ==
    /\ \A r : RebuiltRequest(<< >>, r) = None
    /\ \A id : RebuiltSent(<< >>, id) = None
    /\ \A id : RebuiltReceived(<< >>, id) = None
    /\ \A id : RebuiltSeen(<< >>, id) = None
    /\ \A id : ConfirmedAt(<< >>, id) = 0
<1>1. << >> \in Seq(Entry) /\ Len(<< >>) = 0
  OBVIOUS
<1>2. /\ \A type, id : Latest(At(<< >>, type, id)) = 0
      /\ \A r : Latest(Proposals(<< >>, r)) = 0
  <2>1. \A p : p \in 0..Len(<< >>) => p = 0
    BY <1>1
  <2> QED BY <1>1, <2>1, LatestWithin
<1> QED BY <1>2, Rebuilt DEF ConfirmedAt

\* The appended entry keeps SentOnce: one that is no part of a send, a proposal
\* with a new message ID for a request without one, or the outcome of a request
\* that has none yet.
LEMMA SentOnceOther ==
    ASSUME NEW l \in Seq(Entry), SentOnce(l), NEW e \in Entry,
           e.type # "message_submitted", Final(e) => e.req = None,
           e.type # "outbound_released"
    PROVE  SentOnce(Append(l, e))
<1> DEFINE m == Append(l, e)
<1>1. /\ DOMAIN m = DOMAIN l \cup {Len(l) + 1} /\ m[Len(l) + 1] = e
      /\ \A i \in DOMAIN l : m[i] = l[i]
  BY Appended
<1> HIDE DEF m
<1> QED BY <1>1 DEF SentOnce, m

LEMMA SentOnceProposal ==
    ASSUME NEW l \in Seq(Entry), SentOnce(l), NEW e \in Entry,
           e.type = "message_submitted",
           \A i \in DOMAIN l : l[i].type = "message_submitted" => l[i].req # e.req,
           \A i \in DOMAIN l : l[i].id # e.id
    PROVE  SentOnce(Append(l, e))
<1> DEFINE m == Append(l, e)
<1>1. /\ DOMAIN m = DOMAIN l \cup {Len(l) + 1} /\ m[Len(l) + 1] = e
      /\ \A i \in DOMAIN l : m[i] = l[i]
      /\ ~ Final(e)
  BY Appended DEF Final
<1> HIDE DEF m
<1> QED BY <1>1 DEF SentOnce, m

LEMMA SentOnceOutcome ==
    ASSUME NEW l \in Seq(Entry), SentOnce(l), NEW e \in Entry, Final(e),
           \A i \in DOMAIN l : Final(l[i]) => l[i].req # e.req,
           NEW s \in DOMAIN l, l[s].type = "message_submitted", l[s].req = e.req,
           e.type = "outbound_released" =>
               /\ s < e.what.src /\ l[s].id = e.id
               /\ l[s].what = e.what.body /\ s = e.what.created
    PROVE  SentOnce(Append(l, e))
<1> DEFINE m == Append(l, e)
<1>1. /\ DOMAIN m = DOMAIN l \cup {Len(l) + 1} /\ m[Len(l) + 1] = e
      /\ \A i \in DOMAIN l : m[i] = l[i]
      /\ e.type # "message_submitted"
      /\ s < Len(l) + 1
  BY Appended DEF Final
<1> HIDE DEF m
<1>2. \A i, j \in DOMAIN m :
           /\ m[i].type = "message_submitted" /\ m[j].type = "message_submitted"
           /\ m[i].req = m[j].req \/ m[i].id = m[j].id
           => i = j
  BY <1>1 DEF SentOnce
<1>3. \A i, j \in DOMAIN m :
           Final(m[i]) /\ Final(m[j]) /\ m[i].req # None /\ m[i].req = m[j].req => i = j
  BY <1>1 DEF SentOnce
<1>4. ASSUME NEW i \in DOMAIN m, m[i].type = "outbound_released"
      PROVE  \E t \in DOMAIN m :
               /\ m[t].type = "message_submitted"
               /\ t < m[i].what.src
               /\ m[t].req = m[i].req
               /\ m[t].id = m[i].id
               /\ m[t].what = m[i].what.body
               /\ t = m[i].what.created
  BY <1>1, <1>4 DEF SentOnce
<1>5. ASSUME NEW i \in DOMAIN m, Final(m[i]), m[i].req # None
      PROVE  \E t \in DOMAIN m :
               m[t].type = "message_submitted" /\ m[t].req = m[i].req /\ t < i
  BY <1>1, <1>5 DEF SentOnce
<1> QED BY <1>2, <1>3, <1>4, <1>5 DEF SentOnce, m

\* The result a Send call ends with.
SendResultOf(c) ==
    IF c.pc = "released" THEN SendOut(c.id, "released", c.dec, c.why, c.what, c.ref)
                         ELSE SendOut(c.id, "denied", c.dec, c.why, None, c.ref)

\* A Send call has appended what the index does not show yet.
Ahead(c) == c.pc \in {"submitted", "denied", "released"}

\* What a Send call knows of its request: before it has submitted, between the
\* proposal's append and its entry in the index, while it is being decided, and
\* between the outcome's append and its entry in the index.
SendHolds(c) ==
    LET r == c.key[2] IN
    /\ c.pc \in {"submit", "submitted"} => index.requests[r] = None
    /\ c.pc = "submitted" =>
           RebuiltRequest(log, r) = [bind |-> c.what, id |-> c.id, created |-> c.ref,
                                     final |-> FALSE, out |-> None]
    /\ c.pc \notin {"submit", "submitted"} =>
           /\ index.requests[r] = c.rec /\ ~ c.rec.final /\ c.rec.id = c.id
           /\ c.pc # "released" => c.rec.bind = c.what
    /\ c.pc = "release" => c.rec.created < c.ref
    /\ c.pc \in {"deny", "denied"} => c.dec = "deny"
    /\ c.pc \in {"denied", "released"} =>
           RebuiltRequest(log, r) = [c.rec EXCEPT !.final = TRUE, !.out = SendResultOf(c)]
    /\ c.pc = "released" => RebuiltSent(log, c.id) = c.what

\* While the log accepts appends, the replay is ahead of the index for no
\* request but those whose calls are.
RequestsShown ==
    logState = "open" =>
        \A r \in Request :
            \/ index.requests[r] = RebuiltRequest(log, r)
            \/ \E w \in Worker : call[w].key = <<"send", r>> /\ Ahead(call[w])
SentShown ==
    logState = "open" =>
        \A id \in OutId :
            \/ index.sent[id] = RebuiltSent(log, id)
            \/ \E w \in Worker : /\ call[w].pc = "released" /\ call[w].id = id
FinalsShown ==
    \A r \in Request :
        index.requests[r] # None /\ index.requests[r].final
            => index.requests[r] = RebuiltRequest(log, r)
SentAnswersStand ==
    \A a \in answers : a.key[1] = "send" =>
        LET R == RebuiltRequest(log, a.key[2]) IN R # None /\ R.final /\ R.out = a.out

SInv ==
    /\ SentOnce(log)
    /\ \A w \in Worker : Sending(call[w]) => SendHolds(call[w])
    /\ RequestsShown
    /\ SentShown
    /\ FinalsShown
    /\ SentAnswersStand

\* No quiet entry changes what is replayed.
LEMMA QuietReplay ==
    ASSUME NEW l \in Seq(Entry), NEW e \in Entry, Quiet(e)
    PROVE  /\ \A r : RebuiltRequest(Append(l, e), r) = RebuiltRequest(l, r)
           /\ \A id : RebuiltSent(Append(l, e), id) = RebuiltSent(l, id)
           /\ \A id : RebuiltReceived(Append(l, e), id) = RebuiltReceived(l, id)
           /\ \A id : RebuiltSeen(Append(l, e), id) = RebuiltSeen(l, id)
           /\ \A id : ConfirmedAt(Append(l, e), id) = ConfirmedAt(l, id)
<1>1. /\ e.type # "message_submitted" /\ e.type # "outbound_released"
      /\ e.type # "inbound_verified" /\ e.type # "inbound_accepted"
      /\ e.type # "acknowledgement_issued" /\ e.type # "delivery_confirmed"
      /\ \A r : ~ Ends(e, r)
  BY DEF Quiet, Ends
<1> QED BY <1>1, AppendedReplay

\* One call works for a request or a message at a time.
LEMMA OneCall ==
    ASSUME CInv, NEW v \in Worker, NEW w \in Worker, v # w, call[v].key = call[w].key
    PROVE  call[v].key = None
BY DEF CInv, ClaimsExact

LEMMA SendKey ==
    ASSUME NEW c, Sending(c)
    PROVE  /\ c.key[2] \in Request /\ c.key = <<"send", c.key[2]>>
           /\ c.key # None /\ c.dir = "outbound" /\ c.pc # "idle" /\ ~ Receiving(c)
<1>1. PICK r \in Request : c.key = <<"send", r>>
  BY DEF Sending
<1>2. <<"send", r>> # None
  BY AbsentAssumption DEF Key
<1> QED BY <1>1, <1>2 DEF Sending, Receiving, Sends, Evaluating

\* While the log is open, a call that is not ahead of the index finds in the
\* index what the log would be replayed to.
LEMMA Settled ==
    ASSUME CInv, RequestsShown, logState = "open",
           NEW w \in Worker, Sending(call[w]), ~ Ahead(call[w])
    PROVE  RebuiltRequest(log, call[w].key[2]) = index.requests[call[w].key[2]]
<1> DEFINE r == call[w].key[2]
<1>1. r \in Request /\ call[w].key = <<"send", r>> /\ call[w].key # None
  BY SendKey
<1>2. ASSUME NEW u \in Worker, call[u].key = <<"send", r>>, Ahead(call[u]) PROVE FALSE
  BY <1>1, <1>2, OneCall
<1> QED BY <1>1, <1>2 DEF RequestsShown

\* Two requests never have the same message ID.
LEMMA DistinctIds ==
    ASSUME TInv, SentOnce(log), NEW r \in Request, NEW q \in Request,
           RebuiltRequest(log, r) # None, RebuiltRequest(log, q) # None,
           RebuiltRequest(log, r).id = RebuiltRequest(log, q).id
    PROVE  r = q
<1>1. log \in Seq(Entry) /\ \A i \in DOMAIN log : EntryOK(log[i])
  BY DEF TInv, TypeOK
<1> DEFINE R == RebuiltRequest(log, r)
           Q == RebuiltRequest(log, q)
<1>2. /\ R.created \in DOMAIN log /\ log[R.created].type = "message_submitted"
      /\ log[R.created].req = r /\ log[R.created].id = R.id
  BY <1>1, ReplayedRequest
<1>3. /\ Q.created \in DOMAIN log /\ log[Q.created].type = "message_submitted"
      /\ log[Q.created].req = q /\ log[Q.created].id = Q.id
  BY <1>1, ReplayedRequest
<1> HIDE DEF R, Q
<1>4. R.created = Q.created
  BY <1>2, <1>3 DEF SentOnce, R, Q
<1> QED BY <1>2, <1>3, <1>4

LEMMA SendResultOK ==
    ASSUME NEW c \in Call, Sending(c), c.pc \in {"released", "denied"}
    PROVE  SendResultOf(c) \in SendResult
<1>1. /\ c.id \in OutId /\ c.ref \in Nat
      /\ c.dec \in Verdict /\ c.why \in Why
      /\ c.pc = "released" => c.what \in Envelope
  BY DEF Sending, Call
<1> QED BY <1>1 DEF SendResultOf, SendResult, SendOut

\* What the appending call may rely on.
LEMMA SendAppends ==
    ASSUME TInv, CInv, SInv, Usable, NEW w \in Worker, Sending(call[w]),
           ~ Ahead(call[w])
    PROVE  LET c == call[w]
               R == RebuiltRequest(log, c.key[2]) IN
           /\ R = index.requests[c.key[2]]
           /\ c.pc = "submit" => R = None
           /\ c.pc # "submit" =>
                  /\ R = c.rec /\ c.rec \in RequestRecord /\ R # None /\ ~ R.final
                  /\ R.id = c.id /\ R.bind = c.what
<1>1. SendHolds(call[w]) /\ RequestsShown /\ logState = "open"
  BY DEF SInv, Usable
<1>2. call[w].pc # "submit" => call[w].rec \in RequestRecord
  BY DEF Sending, Ahead
<1> QED BY <1>1, <1>2, Settled, AbsentAssumption DEF SendHolds, Ahead

\* An outcome stands: no entry a call may append changes it.
LEMMA FinalStands ==
    ASSUME TInv, CInv, SInv, Usable, NEW w \in Worker, NEW e \in Appending(call[w]),
           NEW r \in Request, RebuiltRequest(log, r) # None, RebuiltRequest(log, r).final
    PROVE  RebuiltRequest(Append(log, e), r) = RebuiltRequest(log, r)
<1>0. call[w] \in Call /\ CallOK(call[w]) /\ log \in Seq(Entry) /\ e \in Entry
  BY Appendable DEF TInv, TypeOK
<1>1. ASSUME \/ e.type = "message_submitted" /\ e.req = r
             \/ Ends(e, r)
      PROVE  FALSE
  <2>1. /\ Sending(call[w]) /\ call[w].key = <<"send", r>>
        /\ call[w].pc \in {"submit", "deny", "release"}
    BY <1>0, <1>1, EntryOwner
  <2>2. call[w].key[2] = r /\ ~ Ahead(call[w])
    BY <2>1 DEF Ahead
  <2> QED BY <2>1, <2>2, SendAppends
<1> QED BY <1>0, <1>1, AppendedReplay

\* The log keeps SentOnce whatever call appends.
LEMMA SentOnceStep ==
    ASSUME TInv, CInv, SInv, Usable, NEW w \in Worker, NEW e \in Appending(call[w])
    PROVE  SentOnce(Append(log, e))
<1> DEFINE c == call[w]
<1>0. /\ c \in Call /\ CallOK(c) /\ log \in Seq(Entry) /\ e \in Entry /\ EntryOK(e)
      /\ \A i \in DOMAIN log : EntryOK(log[i])
      /\ SentOnce(log)
  BY Appendable DEF TInv, TypeOK, SInv
<1>1. CASE e.type = "message_submitted"
  <2>1. c.pc = "submit" /\ Sending(c) /\ c.key = <<"send", e.req>>
    <3> HIDE DEF c
    <3> QED BY <1>0, <1>1, EntryOwner DEF c
  <2>2. RebuiltRequest(log, e.req) = None /\ e.req \in Request
    BY <2>1, SendAppends, SendKey DEF Ahead
  <2>3. \A i \in DOMAIN log : log[i].type = "message_submitted" => log[i].req # e.req
    BY <1>0, <2>2, ReplayedRequest
  <2>4. \A i \in DOMAIN log : log[i].id # e.id
    <3>1. PICK id \in FreshIds : e = Submitted(c, id)
      BY <2>1 DEF Appending
    <3>2. e.id = id
      BY <3>1 DEF Submitted, EntryOf
    <3> QED BY <3>1, <3>2 DEF FreshIds
  <2>5. log \in Seq(Entry) /\ SentOnce(log) /\ e \in Entry
    BY <1>0
  <2> QED BY <1>1, <2>3, <2>4, <2>5, SentOnceProposal, Zenon
<1>2. CASE Final(e) /\ e.req # None
  <2>0. PICK r : r = e.req
    OBVIOUS
  <2> DEFINE R == RebuiltRequest(log, r)
  <2>1. Ends(e, r)
    BY <1>0, <1>2, <2>0 DEF Final, Ends, EntryOK
  <2>2. /\ c.pc \in {"deny", "release"} /\ Sending(c) /\ c.key = <<"send", r>>
        /\ e.type = "outbound_released" => c.pc = "release" /\ e = Released(c)
    <3> HIDE DEF c
    <3> QED BY <1>0, <2>1, EntryOwner DEF c
  <2>3. r \in Request /\ R # None /\ ~ R.final /\ R = c.rec /\ R.id = c.id /\ R.bind = c.what
    BY <2>2, SendAppends, SendKey DEF Ahead
  <2> HIDE DEF R
  <2>4. /\ R.created \in DOMAIN log
        /\ log[R.created].type = "message_submitted"
        /\ log[R.created].req = r
        /\ log[R.created].id = R.id
        /\ log[R.created].what = R.bind
        /\ \A i \in DOMAIN log : Final(log[i]) => log[i].req # r
    BY <1>0, <2>3, ReplayedRequest DEF R
  <2>5. ASSUME e.type = "outbound_released"
        PROVE  /\ R.created < e.what.src /\ log[R.created].id = e.id
               /\ log[R.created].what = e.what.body /\ R.created = e.what.created
    <3>1. /\ e.id = c.id /\ e.what.src = c.ref /\ e.what.body = c.what
          /\ e.what.created = c.rec.created
      <4>1. e = [type |-> "outbound_released", dir |-> c.dir, id |-> c.id,
                 req |-> c.key[2], what |-> SignedEnvelope(c), dec |-> c.dec,
                 why |-> c.why, ack |-> None]
        BY <2>2, <2>5 DEF Released, EntryOf
      <4> QED BY <4>1 DEF SignedEnvelope
    <3>2. SendHolds(c) /\ c.pc = "release"
      BY <2>2, <2>5 DEF SInv
    <3>3. c.rec.created < c.ref
      BY <3>2 DEF SendHolds
    <3> QED BY <2>3, <2>4, <3>1, <3>3
  <2>6. log \in Seq(Entry) /\ SentOnce(log) /\ e \in Entry
    BY <1>0
  <2> QED BY <1>2, <2>0, <2>4, <2>5, <2>6, SentOnceOutcome, Zenon
<1>3. CASE e.type # "message_submitted" /\ (Final(e) => e.req = None)
  <2>1. e.type # "outbound_released"
    BY <1>0, <1>3, AbsentAssumption DEF Final, EntryOK
  <2>2. log \in Seq(Entry) /\ SentOnce(log) /\ e \in Entry
    BY <1>0
  <2> QED BY <1>3, <2>1, <2>2, SentOnceOther, Zenon
<1> QED BY <1>1, <1>2, <1>3

\* The entry of one call changes nothing for the others.
LEMMA OthersStand ==
    ASSUME TInv, CInv, SInv, Usable, NEW w \in Worker, NEW e \in Appending(call[w])
    PROVE  /\ \A r \in Request : call[w].key # <<"send", r>> =>
                  RebuiltRequest(Append(log, e), r) = RebuiltRequest(log, r)
           /\ \A id : call[w].pc # "release" \/ call[w].id # id =>
                  RebuiltSent(Append(log, e), id) = RebuiltSent(log, id)
           /\ \A v \in Worker : call[w].pc = "release" /\ call[v].pc = "released" =>
                  call[v].id # call[w].id
<1>0. call[w] \in Call /\ CallOK(call[w]) /\ log \in Seq(Entry) /\ e \in Entry
      /\ call \in [Worker -> Call] /\ \A v \in Worker : CallOK(call[v])
  BY Appendable DEF TInv, TypeOK
<1>1. ASSUME NEW r \in Request, call[w].key # <<"send", r>>
      PROVE  RebuiltRequest(Append(log, e), r) = RebuiltRequest(log, r)
  BY <1>0, <1>1, EntryOwner, AppendedReplay
<1>2. ASSUME NEW id, call[w].pc # "release" \/ call[w].id # id
      PROVE  RebuiltSent(Append(log, e), id) = RebuiltSent(log, id)
  <2>1. ~ (e.type = "outbound_released" /\ e.id = id)
    BY <1>0, <1>2, EntryOwner
  <2> QED BY <1>0, <2>1, AppendedReplay
<1>3. ASSUME NEW v \in Worker, call[w].pc = "release", call[v].pc = "released",
             call[v].id = call[w].id
      PROVE  FALSE
  <2>1. Sending(call[w]) /\ Sending(call[v]) /\ ~ Ahead(call[w])
    BY <1>0, <1>3, KindOf DEF Ahead
  <2> DEFINE r == call[w].key[2]
             q == call[v].key[2]
  <2>2. /\ r \in Request /\ q \in Request
        /\ call[w].key = <<"send", r>> /\ call[v].key = <<"send", q>>
    BY <2>1, SendKey
  <2>3. RebuiltRequest(log, r) # None /\ RebuiltRequest(log, r).id = call[w].id
    BY <1>3, <2>1, SendAppends
  <2>4. RebuiltRequest(log, q) # None /\ RebuiltRequest(log, q).id = call[v].id
    <3> DEFINE rec == call[v].rec
               out == SendResultOf(call[v])
    <3>1. RebuiltRequest(log, q) = [rec EXCEPT !.final = TRUE, !.out = out] /\ rec.id = call[v].id
      BY <1>3, <2>1 DEF SInv, SendHolds
    <3>2. rec \in RequestRecord /\ out \in SendResult
      BY <1>0, <1>3, <2>1, SendResultOK DEF Sending
    <3> HIDE DEF rec, out
    <3>3. RebuiltRequest(log, q).id = call[v].id /\ RebuiltRequest(log, q) \in RequestRecord
      BY <3>1, <3>2 DEF RequestRecord
    <3> QED BY <3>3, AbsentAssumption
  <2>5. r = q
    BY <1>3, <2>2, <2>3, <2>4, DistinctIds DEF SInv
  <2>6. call[v].key = call[w].key /\ call[v].key # None /\ v # w
    BY <1>3, <2>1, <2>2, <2>5, SendKey
  <2> QED BY <2>6, OneCall
<1> QED BY <1>1, <1>2, <1>3

\* Which part of the index a step of a call touches.
LEMMA IndexTouched ==
    ASSUME TInv, NEW w \in Worker, Step(w)
    PROVE  /\ \A r \in Request : index'.requests[r] # index.requests[r] =>
                  /\ RecordRequest(w) \/ RecordFinal(w)
                  /\ call[w].key = <<"send", r>>
           /\ \A id \in OutId : index'.sent[id] # index.sent[id] =>
                  /\ RecordFinal(w) /\ call[w].pc = "released"
                  /\ call[w].id = id
           /\ \A id \in InId : index'.received[id] # index.received[id] =>
                  (Publish(w) \/ RecordAck(w)) /\ call[w].id = id
           /\ \A id \in InId : index'.seen[id] # index.seen[id] =>
                  RecordSeen(w) /\ call[w].id = id
           /\ \A id \in OutId : index'.confirmed[id] # index.confirmed[id] =>
                  RecordConfirm(w) /\ call[w].id = id
           /\ index'.inbox # index.inbox => Publish(w)
<1>0. /\ index \in Index /\ index' \in Index
      /\ call[w] \in Call /\ CallOK(call[w])
  <2>1. [Next]_vars
    BY DEF Next
  <2> QED BY <2>1, NextIndex DEF TInv, TypeOK
<1> DEFINE Touched ==
           /\ \A r \in Request : index'.requests[r] # index.requests[r] =>
                  /\ RecordRequest(w) \/ RecordFinal(w)
                  /\ call[w].key = <<"send", r>>
           /\ \A id \in OutId : index'.sent[id] # index.sent[id] =>
                  /\ RecordFinal(w) /\ call[w].pc = "released"
                  /\ call[w].id = id
           /\ \A id \in InId : index'.received[id] # index.received[id] =>
                  (Publish(w) \/ RecordAck(w)) /\ call[w].id = id
           /\ \A id \in InId : index'.seen[id] # index.seen[id] =>
                  RecordSeen(w) /\ call[w].id = id
           /\ \A id \in OutId : index'.confirmed[id] # index.confirmed[id] =>
                  RecordConfirm(w) /\ call[w].id = id
           /\ index'.inbox # index.inbox => Publish(w)
<1> SUFFICES Touched
  OBVIOUS
<1>1. CASE index' = index
  BY <1>1
<1>2. CASE RecordRequest(w)
  <2>1. PICK rec : index' = [index EXCEPT !.requests[call[w].key[2]] = rec]
    BY <1>2 DEF RecordRequest
  <2>2. Sending(call[w])
    BY <1>0, <1>2, KindOf DEF RecordRequest
  <2> QED BY <1>0, <1>2, <2>1, <2>2, SendKey DEF Index
<1>3. CASE RecordFinal(w)
  <2>1. PICK rec : index' = [index EXCEPT !.requests[call[w].key[2]] = rec,
                    !.sent[call[w].id] = IF call[w].pc = "released" THEN call[w].what ELSE @]
    BY <1>3 DEF RecordFinal
  <2>2. Sending(call[w])
    BY <1>0, <1>3, KindOf DEF RecordFinal
  <2>3. call[w].key[2] \in Request /\ call[w].key = <<"send", call[w].key[2]>>
    BY <2>2, SendKey
  <2>4. /\ index'.requests = [index.requests EXCEPT ![call[w].key[2]] = rec]
        /\ index'.sent = [index.sent EXCEPT
               ![call[w].id] = IF call[w].pc = "released" THEN call[w].what ELSE @]
        /\ index'.received = index.received /\ index'.seen = index.seen
        /\ index'.confirmed = index.confirmed /\ index'.inbox = index.inbox
    BY <1>0, <2>1 DEF Index
  <2> QED BY <1>0, <1>3, <2>3, <2>4 DEF Index
<1>4. CASE RecordSeen(w)
  BY <1>0, <1>4 DEF RecordSeen, Index
<1>5. CASE Publish(w)
  BY <1>0, <1>5 DEF Publish, Index
<1>6. CASE RecordAck(w)
  BY <1>0, <1>6 DEF RecordAck, Index
<1>7. CASE RecordConfirm(w)
  BY <1>0, <1>7 DEF RecordConfirm, Index
<1>8. ASSUME \/ Submit(w) \/ DeterministicGuard(w) \/ GuardFailed(w)
             \/ \E m \in {"allow", "review", "deny"} : ModelGuard(w, m)
             \/ Block(w) \/ CheckApproval(w) \/ SavePending(w) \/ SavePendingFails(w)
             \/ ApprovalRequired(w) \/ ConsumeApproval(w) \/ Release(w) \/ Verify(w)
             \/ Accept(w) \/ IssueAck(w) \/ ConfirmClaim(w) \/ AppendConfirm(w)
             \/ InboxReturn(w) \/ AppendFails(w)
      PROVE  index' = index
  BY <1>8
     DEF Submit, DeterministicGuard, GuardFailed, ModelGuard, Block, CheckApproval,
         SavePending, SavePendingFails, ApprovalRequired, ConsumeApproval, Release,
         Verify, Accept, IssueAck, ConfirmClaim, AppendConfirm, InboxReturn, AppendFails
<1> HIDE DEF Touched
<1> QED
  BY <1>1, <1>2, <1>3, <1>4, <1>5, <1>6, <1>7, <1>8, Step(w) DEF Step

\* What the log shows of another call's request is not touched by a step.
LEMMA LogTouched ==
    ASSUME TInv, CInv, SInv, NEW w \in Worker, Step(w)
    PROVE  /\ SentOnce(log')
           /\ \A r \in Request : call[w].key # <<"send", r>> =>
                  RebuiltRequest(log', r) = RebuiltRequest(log, r)
           /\ \A r \in Request : RebuiltRequest(log, r) # None /\ RebuiltRequest(log, r).final
                  => RebuiltRequest(log', r) = RebuiltRequest(log, r)
           /\ \A id : call[w].pc # "release" \/ call[w].id # id =>
                  RebuiltSent(log', id) = RebuiltSent(log, id)
           /\ \A v \in Worker : call[v].pc = "released" =>
                  RebuiltSent(log', call[v].id) = RebuiltSent(log, call[v].id)
<1>1. CASE log' = log
  BY <1>1 DEF SInv
<1>2. ASSUME NEW e \in Appending(call[w]), log' = Append(log, e), Usable
      PROVE  /\ SentOnce(log')
             /\ \A r \in Request : call[w].key # <<"send", r>> =>
                    RebuiltRequest(log', r) = RebuiltRequest(log, r)
             /\ \A r \in Request :
                    RebuiltRequest(log, r) # None /\ RebuiltRequest(log, r).final
                    => RebuiltRequest(log', r) = RebuiltRequest(log, r)
             /\ \A id : call[w].pc # "release" \/ call[w].id # id =>
                    RebuiltSent(log', id) = RebuiltSent(log, id)
             /\ \A v \in Worker : call[v].pc = "released" =>
                    RebuiltSent(log', call[v].id) = RebuiltSent(log, call[v].id)
  BY <1>2, SentOnceStep, OthersStand, FinalStands
<1> QED BY <1>1, <1>2, StepFrame, StepAppends

LEMMA OtherSends ==
    ASSUME TInv, CInv, SInv, NEW w \in Worker, Step(w),
           NEW v \in Worker, v # w, Sending(call[v])
    PROVE  Sending(call'[v]) /\ SendHolds(call[v])'
<1> DEFINE c == call[v]
           r == c.key[2]
<1>1. call'[v] = call[v]
  BY StepCalls DEF TInv, TypeOK
<1>2. r \in Request /\ c.key = <<"send", r>> /\ call[w].key # <<"send", r>>
  <2>1. r \in Request /\ c.key = <<"send", r>> /\ c.key # None
    BY SendKey
  <2> QED BY <2>1, OneCall
<1>3. /\ RebuiltRequest(log', r) = RebuiltRequest(log, r)
      /\ index'.requests[r] = index.requests[r]
      /\ c.pc = "released" => RebuiltSent(log', c.id) = RebuiltSent(log, c.id)
  BY <1>2, LogTouched, IndexTouched
<1>4. SendHolds(c)
  BY DEF SInv
<1> QED BY <1>1, <1>3, <1>4 DEF SendHolds

LEMMA EndedRecord ==
    ASSUME NEW q \in RequestRecord, NEW out
    PROVE  [q EXCEPT !.final = TRUE, !.out = out]
               = [bind |-> q.bind, id |-> q.id, created |-> q.created, final |-> TRUE,
                  out |-> out]
<1> DEFINE p == [q EXCEPT !.final = TRUE, !.out = out]
           o == [bind |-> q.bind, id |-> q.id, created |-> q.created, final |-> TRUE,
                 out |-> out]
           Fields == {"bind", "id", "created", "final", "out"}
<1>1. /\ p = [x \in Fields |-> p[x]]
      /\ p.bind = q.bind /\ p.id = q.id /\ p.created = q.created
      /\ p.final = TRUE /\ p.out = out
  BY DEF RequestRecord
<1>2. /\ o = [x \in Fields |-> o[x]]
      /\ o.bind = q.bind /\ o.id = q.id /\ o.created = q.created
      /\ o.final = TRUE /\ o.out = out
  OBVIOUS
<1> HIDE DEF p, o
<1>3. \A x \in Fields : p[x] = o[x]
  BY <1>1, <1>2
<1>4. p = o
  BY <1>1, <1>2, <1>3
<1> QED BY <1>4 DEF p, o

\* The fields of a call that goes on.
LEMMA MovedFields ==
    ASSUME NEW c \in Call, NEW pc, NEW n, NEW key, NEW rec
    PROVE  /\ LET d == [c EXCEPT !.pc = pc] IN
              /\ d.pc = pc /\ d.key = c.key /\ d.dir = c.dir /\ d.id = c.id
              /\ d.what = c.what /\ d.rec = c.rec /\ d.ref = c.ref
              /\ d.dec = c.dec /\ d.why = c.why
           /\ LET d == [c EXCEPT !.pc = pc, !.ref = n] IN
              /\ d.pc = pc /\ d.key = c.key /\ d.dir = c.dir /\ d.id = c.id
              /\ d.what = c.what /\ d.rec = c.rec /\ d.ref = n
              /\ d.dec = c.dec /\ d.why = c.why
           /\ LET d == [c EXCEPT !.pc = pc, !.rec = rec] IN
              /\ d.pc = pc /\ d.key = c.key /\ d.dir = c.dir /\ d.id = c.id
              /\ d.what = c.what /\ d.rec = rec /\ d.ref = c.ref
              /\ d.dec = c.dec /\ d.why = c.why
           /\ LET d == [c EXCEPT !.pc = pc, !.key = key] IN
              /\ d.pc = pc /\ d.key = key /\ d.dir = c.dir /\ d.id = c.id
              /\ d.what = c.what /\ d.rec = c.rec /\ d.ref = c.ref
              /\ d.dec = c.dec /\ d.why = c.why
BY DEF Call

\* Where a step that is neither an error nor a part of the evaluation leads.
LEMMA Moved ==
    ASSUME TInv, NEW w \in Worker
    PROVE  /\ Verify(w) => /\ call'[w] = [call[w] EXCEPT !.pc = "verified"]
                           /\ call[w].pc = "verify" /\ call'[w].pc = "verified"
           /\ RecordSeen(w) => /\ call'[w] = [call[w] EXCEPT !.pc = "scan"]
                               /\ call[w].pc = "verified" /\ call'[w].pc = "scan"
                               /\ call'[w].dir = call[w].dir
           /\ Accept(w) => /\ call'[w] = [call[w] EXCEPT !.pc = "accepted", !.ref = NextSeq]
                           /\ call[w].pc = "accept" /\ call'[w].pc = "accepted"
           /\ Publish(w) => call[w].pc = "accepted" /\ call'[w].pc = "ack"
           /\ IssueAck(w) => /\ call'[w] = [call[w] EXCEPT !.pc = "acked", !.ref = NextSeq]
                             /\ call[w].pc = "ack" /\ call'[w].pc = "acked"
           /\ AppendConfirm(w) =>
                  /\ call'[w] = [call[w] EXCEPT !.pc = "confirmed", !.ref = NextSeq]
                  /\ call[w].pc = "confirm" /\ call'[w].pc = "confirmed"
           /\ ConfirmClaim(w) /\ ~ Finish(w) =>
                  /\ call'[w] = [call[w] EXCEPT !.pc = "confirm",
                                                !.key = <<"confirm", call[w].id>>]
                  /\ call[w].pc = "confirm_claim" /\ call'[w].pc = "confirm"
           /\ RecordFinal(w) \/ RecordAck(w) \/ RecordConfirm(w) \/ InboxReturn(w)
                  => Finish(w) /\ call'[w] = Idle
<1>0. call \in [Worker -> Call] /\ call[w] \in Call
  BY DEF TInv, TypeOK
<1>1. Verify(w) => /\ call'[w] = [call[w] EXCEPT !.pc = "verified"]
                   /\ call[w].pc = "verify"
  BY <1>0 DEF Verify, Commit
<1>2. RecordSeen(w) => call'[w] = [call[w] EXCEPT !.pc = "scan"] /\ call[w].pc = "verified"
  BY <1>0 DEF RecordSeen, Moves
<1>3. Accept(w) => /\ call'[w] = [call[w] EXCEPT !.pc = "accepted", !.ref = NextSeq]
                   /\ call[w].pc = "accept"
  BY <1>0 DEF Accept, Commit
<1>4. Publish(w) => /\ \E rec : call'[w] = [call[w] EXCEPT !.pc = "ack", !.rec = rec]
                    /\ call[w].pc = "accepted"
  <2>1. ASSUME NEW rec, call' = [call EXCEPT ![w].pc = "ack", ![w].rec = rec]
        PROVE  call'[w] = [call[w] EXCEPT !.pc = "ack", !.rec = rec]
    BY <1>0, <2>1
  <2> QED BY <2>1 DEF Publish
<1>5. IssueAck(w) => /\ call'[w] = [call[w] EXCEPT !.pc = "acked", !.ref = NextSeq]
                     /\ call[w].pc = "ack"
  BY <1>0 DEF IssueAck, Commit
<1>6. AppendConfirm(w) =>
          /\ call'[w] = [call[w] EXCEPT !.pc = "confirmed", !.ref = NextSeq]
          /\ call[w].pc = "confirm"
  BY <1>0 DEF AppendConfirm, Commit
<1>7. ConfirmClaim(w) /\ ~ Finish(w) =>
          /\ call'[w] = [call[w] EXCEPT !.pc = "confirm",
                                        !.key = <<"confirm", call[w].id>>]
          /\ call[w].pc = "confirm_claim"
  BY <1>0 DEF ConfirmClaim
<1>8. RecordFinal(w) \/ RecordAck(w) \/ RecordConfirm(w) \/ InboxReturn(w)
          => Finish(w) /\ call'[w] = Idle
  BY <1>0 DEF RecordFinal, RecordAck, RecordConfirm, InboxReturn, Finish
<1>9. ASSUME NEW pc PROVE /\ [call[w] EXCEPT !.pc = pc].pc = pc
                          /\ [call[w] EXCEPT !.pc = pc].dir = call[w].dir
  BY <1>0, MovedFields
<1>10. ASSUME NEW pc, NEW n PROVE [call[w] EXCEPT !.pc = pc, !.ref = n].pc = pc
  BY <1>0, MovedFields
<1>11. ASSUME NEW pc, NEW rec PROVE [call[w] EXCEPT !.pc = pc, !.rec = rec].pc = pc
  BY <1>0, MovedFields
<1>12. ASSUME NEW pc, NEW key PROVE [call[w] EXCEPT !.pc = pc, !.key = key].pc = pc
  BY <1>0, MovedFields
<1>13. /\ Verify(w) => call'[w].pc = "verified"
       /\ RecordSeen(w) => call'[w].pc = "scan" /\ call'[w].dir = call[w].dir
  BY <1>1, <1>2, <1>9, Zenon
<1>14. /\ Accept(w) => call'[w].pc = "accepted"
       /\ IssueAck(w) => call'[w].pc = "acked"
       /\ AppendConfirm(w) => call'[w].pc = "confirmed"
  BY <1>3, <1>5, <1>6, <1>10, Zenon
<1>15. Publish(w) => call'[w].pc = "ack"
  BY <1>4, <1>11, Zenon
<1>16. ConfirmClaim(w) /\ ~ Finish(w) => call'[w].pc = "confirm"
  BY <1>7, <1>12, Zenon
<1> QED
  BY <1>1, <1>2, <1>3, <1>4, <1>5, <1>6, <1>7, <1>8, <1>13, <1>14, <1>15, <1>16

\* What a step makes of the call's own request.
LEMMA OwnSend ==
    ASSUME TInv, CInv, SInv, NEW w \in Worker, Step(w), Sending(call'[w])
    PROVE  SendHolds(call[w])'
<1> DEFINE c == call[w]
           d == call'[w]
           r == c.key[2]
<1>0. /\ call \in [Worker -> Call] /\ c \in Call /\ CallOK(c) /\ log \in Seq(Entry)
      /\ \A i \in DOMAIN log : EntryOK(log[i])
      /\ index \in Index /\ SentOnce(log)
      /\ Sending(c) => SendHolds(c)
  BY DEF TInv, TypeOK, SInv
<1>1. d.pc # "idle" /\ d.dir = "outbound" /\ d.pc \in Sends
  BY SendKey DEF Sending
<1>2. CASE Decides(w)
  <2>1. /\ c.pc \in Evaluating /\ d.key = c.key /\ d.dir = c.dir /\ d.id = c.id
        /\ d.what = c.what /\ d.rec = c.rec /\ index' = index
        /\ d.pc \in (Evaluating \ {"scan"}) \cup {"release", "accept"}
        /\ d.pc = "deny" => d.dec = "deny"
        /\ d.pc \in {"release", "accept"} => d.ref = Len(log) + 1 /\ log' # log
    BY <1>2 DEF Decides
  <2>2. Sending(c)
    BY <1>0, <1>1, <2>1, KindOf DEF Receiving
  <2>3. SendHolds(c) /\ c.pc \notin {"submit", "submitted", "released"}
        /\ r \in Request /\ ~ Ahead(c)
    BY <1>0, <2>1, <2>2, SendKey DEF Evaluating, Ahead
  <2>4. d.pc = "release" => d.rec.created < d.ref
    <3> SUFFICES ASSUME d.pc = "release" PROVE d.rec.created < d.ref
      OBVIOUS
    <3>1. Usable
      BY <2>1, StepFrame
    <3>2. RebuiltRequest(log, r) = c.rec /\ c.rec # None
      <4>1. c.pc # "submit"
        BY <2>3
      <4> QED BY <2>2, <2>3, <3>1, <4>1, SendAppends
    <3>3. c.rec.created \in DOMAIN log
      BY <1>0, <2>3, <3>2, ReplayedRequest
    <3>4. c.rec.created \in 1..Len(log) /\ Len(log) \in Nat
      BY <1>0, <3>3
    <3> QED BY <2>1, <3>4
  <2>5. d.pc \notin {"submit", "submitted", "released", "denied"}
    BY <2>1 DEF Evaluating
  <2>6. /\ index.requests[r] = c.rec /\ ~ c.rec.final /\ c.rec.id = c.id /\ c.rec.bind = c.what
    BY <2>3 DEF SendHolds
  <2> HIDE DEF c, d, r
  <2> QED BY <2>1, <2>4, <2>5, <2>6 DEF SendHolds, c, d, r
<1>3. CASE Submit(w)
  <2>1. PICK id \in FreshIds : Commit(w, Submitted(c, id),
                  [c EXCEPT !.pc = "submitted", !.id = id, !.ref = NextSeq])
    BY <1>3 DEF Submit
  <2> DEFINE e == Submitted(c, id)
  <2>2. c.pc = "submit" /\ index' = index /\ log' = Append(log, e) /\ Usable
    BY <1>3, <2>1 DEF Submit, Commit
  <2>3. d = [c EXCEPT !.pc = "submitted", !.id = id, !.ref = NextSeq]
    BY <1>0, <2>1 DEF Commit
  <2>4. Sending(c) /\ r \in Request /\ c.key = <<"send", r>> /\ SendHolds(c)
    BY <1>0, <2>2, KindOf, SendKey
  <2>5. e \in Appending(c) /\ e.type = "message_submitted" /\ e.req = r /\ e.what = c.what
        /\ e.id = id
    BY <2>2 DEF Appending, Submitted, EntryOf
  <2>6. e \in Entry
    BY <1>0, <2>5, Appendable
  <2>7. /\ d.pc = "submitted" /\ d.id = id /\ d.ref = Len(log) + 1 /\ d.key = c.key
        /\ d.what = c.what
    <3> HIDE DEF c, d
    <3> QED BY <1>0, <2>3 DEF Call, NextSeq
  <2>8. index.requests[r] = None
    BY <2>2, <2>4 DEF SendHolds
  <2> HIDE DEF e
  <2>9. RebuiltRequest(log', r) = [bind |-> c.what, id |-> id, created |-> Len(log) + 1,
                                   final |-> FALSE, out |-> None]
    BY <1>0, <2>2, <2>5, <2>6, AppendedReplay
  <2> HIDE DEF c, d, r
  <2> QED BY <2>2, <2>7, <2>8, <2>9 DEF SendHolds, c, d, r
<1>4. CASE RecordRequest(w)
  <2> DEFINE rec == [bind |-> c.what, id |-> c.id, created |-> c.ref,
                     final |-> FALSE, out |-> None]
  <2>1. /\ c.pc = "submitted" /\ index' = [index EXCEPT !.requests[r] = rec]
        /\ call' = [call EXCEPT ![w].pc = "scan", ![w].rec = rec]
    BY <1>4 DEF RecordRequest
  <2>2. Sending(c) /\ r \in Request
    BY <1>0, <2>1, KindOf, SendKey
  <2>3. index'.requests[r] = rec
    BY <1>0, <2>1, <2>2 DEF Index
  <2>4. d = [c EXCEPT !.pc = "scan", !.rec = rec]
    BY <1>0, <2>1
  <2>5. d.pc = "scan" /\ d.rec = rec /\ d.key = c.key /\ d.what = c.what /\ d.id = c.id
    <3> HIDE DEF c, d, rec
    <3> QED BY <1>0, <2>4 DEF Call
  <2>6. rec.final = FALSE /\ rec.id = c.id /\ rec.bind = c.what
    OBVIOUS
  <2> HIDE DEF c, d, r, rec
  <2> QED BY <2>3, <2>5, <2>6 DEF SendHolds, c, d, r
<1>5. ASSUME Sending(c), c.pc \in {"deny", "release"}, Usable,
             NEW e \in Appending(c), log' = Append(log, e), index' = index,
             d.key = c.key, d.rec = c.rec, d.id = c.id,
             d.pc \in {"denied", "released"}, Ends(e, r),
             Outcome(e, Len(log) + 1) = SendResultOf(d)
      PROVE  /\ RebuiltRequest(log', r) = [c.rec EXCEPT !.final = TRUE, !.out = SendResultOf(d)]
             /\ index'.requests[r] = c.rec /\ ~ c.rec.final /\ c.rec.id = c.id
             /\ c.rec.bind = c.what
  <2>1. ~ Ahead(c) /\ c.pc # "submit" /\ r \in Request /\ SendHolds(c)
    BY <1>0, <1>5, SendKey DEF Ahead
  <2>2. /\ RebuiltRequest(log, r) = c.rec /\ c.rec # None /\ index.requests[r] = c.rec
        /\ c.rec \in RequestRecord
        /\ ~ c.rec.final /\ c.rec.id = c.id /\ c.rec.bind = c.what
    BY <1>5, <2>1, SendAppends
  <2>3. Latest(Proposals(log, r)) # 0
    BY <2>2, Rebuilt
  <2>4. e \in Entry /\ e.type # "message_submitted"
    BY <1>0, <1>5, Appendable DEF Ends
  <2>5. RebuiltRequest(log', r) = [bind |-> c.rec.bind, id |-> c.rec.id,
                                   created |-> c.rec.created, final |-> TRUE,
                                   out |-> SendResultOf(d)]
    <3> HIDE DEF c, d, r
    <3> QED BY <1>0, <1>5, <2>2, <2>3, <2>4, AppendedReplay
  <2>7. [c.rec EXCEPT !.final = TRUE, !.out = SendResultOf(d)]
            = [bind |-> c.rec.bind, id |-> c.rec.id,
                                   created |-> c.rec.created, final |-> TRUE,
                                   out |-> SendResultOf(d)]
    <3> HIDE DEF c, d
    <3> QED BY <2>2, EndedRecord
  <2> QED BY <1>5, <2>2, <2>5, <2>7
<1>6. CASE Block(w) /\ c.dir = "outbound"
  <2> DEFINE e == Blocked(c)
  <2>1. /\ c.pc = "deny" /\ Usable /\ log' = Append(log, e) /\ index' = index
        /\ call' = [call EXCEPT ![w].pc = "denied", ![w].ref = NextSeq]
    BY <1>6 DEF Block
  <2>2. Sending(c) /\ c.key = <<"send", r>>
    <3>1. Sending(c) \/ Receiving(c)
      BY <1>0, <2>1, KindOf DEF Evaluating
    <3> QED BY <1>6, <3>1, SendKey DEF Receiving
  <2>3. d = [c EXCEPT !.pc = "denied", !.ref = NextSeq]
    BY <1>0, <2>1
  <2>4. /\ d.pc = "denied" /\ d.ref = Len(log) + 1 /\ d.key = c.key /\ d.id = c.id
        /\ d.rec = c.rec /\ d.what = c.what /\ d.dec = c.dec /\ d.why = c.why
    <3> HIDE DEF c, d
    <3> QED BY <1>0, <2>3 DEF Call, NextSeq
  <2>5. /\ e.type = "message_blocked" /\ e.dir = "outbound" /\ e.id = c.id
        /\ e.req = r /\ e.why = c.why /\ e \in Appending(c)
    BY <1>6, <2>1 DEF Blocked, EntryOf, OutboundReq, Appending
  <2>6. c.dec = "deny"
    BY <1>0, <2>1, <2>2 DEF SendHolds
  <2> HIDE DEF e
  <2>7. Ends(e, r) /\ Outcome(e, Len(log) + 1) = SendResultOf(d)
    BY <2>4, <2>5, <2>6 DEF Ends, Outcome, SendResultOf
  <2>8. /\ RebuiltRequest(log', r) = [c.rec EXCEPT !.final = TRUE, !.out = SendResultOf(d)]
        /\ index'.requests[r] = c.rec /\ ~ c.rec.final /\ c.rec.id = c.id
        /\ c.rec.bind = c.what
    BY <1>5, <2>1, <2>2, <2>4, <2>5, <2>7
  <2>9. SendResultOf(d) = SendResultOf(call[w])'
    BY DEF SendResultOf
  <2> HIDE DEF c, d, r
  <2> QED BY <2>4, <2>6, <2>8, <2>9 DEF SendHolds, c, d, r
<1>7. CASE Release(w)
  <2> DEFINE e == Released(c)
  <2>1. /\ c.pc = "release" /\ Usable /\ log' = Append(log, e) /\ index' = index
        /\ call' = [call EXCEPT ![w] = [c EXCEPT !.pc = "released", !.ref = NextSeq,
                                                 !.what = SignedEnvelope(c)]]
    BY <1>7 DEF Release, Commit
  <2>2. Sending(c) /\ c.key = <<"send", r>>
    BY <1>0, <2>1, KindOf, SendKey
  <2>3. d = [c EXCEPT !.pc = "released", !.ref = NextSeq, !.what = SignedEnvelope(c)]
    BY <1>0, <2>1
  <2>4. /\ d.pc = "released" /\ d.ref = Len(log) + 1 /\ d.key = c.key /\ d.id = c.id
        /\ d.rec = c.rec /\ d.what = SignedEnvelope(c) /\ d.dec = c.dec /\ d.why = c.why
    <3> HIDE DEF c, d
    <3> QED BY <1>0, <2>3 DEF Call, NextSeq
  <2>5. /\ e.type = "outbound_released" /\ e.dir = "outbound" /\ e.id = c.id
        /\ e.req = r /\ e.what = SignedEnvelope(c) /\ e.dec = c.dec /\ e.why = c.why
        /\ e \in Appending(c)
    BY <2>1, <2>2 DEF Released, EntryOf, Appending, Sending
  <2>6. SignedEnvelope(c).id = c.id /\ SignedEnvelope(c).dec = c.dec
    BY DEF SignedEnvelope
  <2> HIDE DEF e
  <2>7. Ends(e, r) /\ Outcome(e, Len(log) + 1) = SendResultOf(d)
    BY <2>4, <2>5, <2>6 DEF Ends, Outcome, SendResultOf
  <2>8. /\ RebuiltRequest(log', r) = [c.rec EXCEPT !.final = TRUE, !.out = SendResultOf(d)]
        /\ index'.requests[r] = c.rec /\ ~ c.rec.final /\ c.rec.id = c.id
        /\ c.rec.bind = c.what
    BY <1>5, <2>1, <2>2, <2>4, <2>5, <2>7
  <2>9. SendResultOf(d) = SendResultOf(call[w])'
    BY DEF SendResultOf
  <2>10. RebuiltSent(log', c.id) = d.what
    <3>1. e \in Entry
      BY <1>0, <2>5, Appendable
    <3> HIDE DEF c, d, r
    <3> QED BY <1>0, <2>1, <2>4, <2>5, <3>1, AppendedReplay
  <2> HIDE DEF c, d, r
  <2> QED BY <2>4, <2>8, <2>9, <2>10 DEF SendHolds, c, d, r
<1>8. CASE Quits(w) \/ RecordFinal(w) \/ RecordAck(w) \/ RecordConfirm(w) \/ InboxReturn(w)
  <2>1. Finish(w)
    BY <1>8 DEF Quits, RecordFinal, RecordAck, RecordConfirm, InboxReturn
  <2>2. d = Idle
    BY <1>0, <2>1 DEF Finish
  <2> QED BY <1>1, <2>2, IdleOK
<1>9. CASE Verify(w) \/ Accept(w) \/ Publish(w) \/ IssueAck(w)
           \/ (ConfirmClaim(w) /\ ~ Finish(w)) \/ AppendConfirm(w)
  <2>1. d.pc \in {"verified", "accepted", "ack", "acked", "confirm", "confirmed"}
    BY <1>9, Moved
  <2> QED BY <1>1, <2>1 DEF Sends, Evaluating
<1>10. CASE RecordSeen(w)
  <2>1. c.pc = "verified" /\ d.dir = c.dir
    BY <1>10, Moved
  <2>2. Receiving(c)
    BY <1>0, <2>1, KindOf
  <2> QED BY <1>1, <2>1, <2>2 DEF Receiving
<1> QED BY <1>2, <1>3, <1>4, <1>6, <1>7, <1>8, <1>9, <1>10, StepKinds

LEMMA StepSInv ==
    ASSUME TInv, CInv, SInv, NEW w \in Worker, Step(w)
    PROVE  SInv'
<1> DEFINE c == call[w]
           d == call'[w]
           r == c.key[2]
<1>0. /\ call \in [Worker -> Call] /\ call' \in [Worker -> Call]
      /\ c \in Call /\ CallOK(c) /\ log \in Seq(Entry)
      /\ index \in Index /\ index' \in Index
      /\ SentOnce(log) /\ RequestsShown /\ SentShown /\ FinalsShown /\ SentAnswersStand
      /\ Sending(c) => SendHolds(c)
      /\ \A v \in Worker \ {w} : call'[v] = call[v]
  <2>1. [Next]_vars
    BY DEF Next
  <2>2. call' \in [Worker -> Call] /\ index' \in Index
    BY <2>1, NextCalls, NextIndex
  <2>3. \A v \in Worker \ {w} : call'[v] = call[v]
    BY StepCalls DEF TInv, TypeOK
  <2> QED BY <2>2, <2>3 DEF TInv, TypeOK, SInv
<1>1. logState' = "open" => logState = "open"
  BY StepFrame
<1>2. \A v \in Worker : Sending(call'[v]) => SendHolds(call[v])'
  <2>1. ASSUME NEW v \in Worker, Sending(call'[v]) PROVE SendHolds(call[v])'
    <3>1. CASE v = w
      BY <2>1, <3>1, OwnSend
    <3>2. CASE v # w
      <4>1. Sending(call[v])
        BY <1>0, <2>1, <3>2
      <4> QED BY <3>2, <4>1, OtherSends
    <3> QED BY <3>1, <3>2
  <2> QED BY <2>1
\* The final record the index gets is what the log is replayed to.
<1>3. ASSUME RecordFinal(w)
      PROVE  /\ Sending(c) /\ r \in Request /\ log' = log /\ c.id \in OutId
             /\ index'.requests[r] = RebuiltRequest(log, r)
             /\ c.pc = "released" => index'.sent[c.id] = RebuiltSent(log, c.id)
             /\ answers' = answers \cup {[key |-> <<"send", r>>, out |-> SendResultOf(c)]}
             /\ RebuiltRequest(log, r) # None /\ RebuiltRequest(log, r).final = TRUE
             /\ RebuiltRequest(log, r).out = SendResultOf(c)
  <2> DEFINE rec == [c.rec EXCEPT !.final = TRUE, !.out = SendResultOf(c)]
  <2>1. /\ c.pc \in {"released", "denied"} /\ log' = log
        /\ index' = [index EXCEPT !.requests[r] = rec,
                        !.sent[c.id] = IF c.pc = "released" THEN c.what ELSE @]
        /\ answers' = answers \cup {[key |-> c.key, out |-> SendResultOf(c)]}
    BY <1>3 DEF RecordFinal, SendResultOf, Answer
  <2>2. Sending(c) /\ r \in Request /\ c.key = <<"send", r>>
    BY <1>0, <2>1, KindOf, SendKey
  <2>3. c.id \in OutId /\ c.rec \in RequestRecord
    BY <2>1, <2>2 DEF Sending
  <2>4. RebuiltRequest(log, r) = rec /\ (c.pc = "released" => RebuiltSent(log, c.id) = c.what)
    BY <1>0, <2>1, <2>2 DEF SendHolds
  <2>5. rec # None /\ rec.final = TRUE /\ rec.out = SendResultOf(c)
    <3>1. SendResultOf(c) \in SendResult
      BY <1>0, <2>1, <2>2, SendResultOK
    <3> DEFINE o == SendResultOf(c)
    <3> HIDE DEF o
    <3>2. [c.rec EXCEPT !.final = TRUE, !.out = o] =
              [bind |-> c.rec.bind, id |-> c.rec.id, created |-> c.rec.created,
               final |-> TRUE, out |-> o]
      BY <2>3, EndedRecord
    <3>3. [bind |-> c.rec.bind, id |-> c.rec.id, created |-> c.rec.created,
               final |-> TRUE, out |-> o] \in RequestRecord
      BY <2>3, <3>1 DEF RequestRecord, o
    <3> QED BY <3>2, <3>3, AbsentAssumption DEF o
  <2> HIDE DEF rec
  <2>6. /\ index'.requests[r] = rec
        /\ c.pc = "released" => index'.sent[c.id] = c.what
    <3> HIDE DEF c, r
    <3> QED BY <1>0, <2>1, <2>2, <2>3 DEF Index
  <2> QED BY <2>1, <2>2, <2>3, <2>4, <2>5, <2>6
<1>4. RequestsShown'
  <2> SUFFICES ASSUME logState' = "open", NEW q \in Request
               PROVE  \/ index'.requests[q] = RebuiltRequest(log', q)
                      \/ \E v \in Worker : call'[v].key = <<"send", q>> /\ Ahead(call'[v])
    BY DEF RequestsShown, Ahead
  <2>0. \/ index.requests[q] = RebuiltRequest(log, q)
        \/ \E v \in Worker : call[v].key = <<"send", q>> /\ Ahead(call[v])
    BY <1>0, <1>1 DEF RequestsShown
  <2>1. CASE c.key # <<"send", q>>
    <3>1. index'.requests[q] = index.requests[q]
      BY <2>1, IndexTouched
    <3>2. RebuiltRequest(log', q) = RebuiltRequest(log, q)
      BY <2>1, LogTouched
    <3>3. ASSUME NEW v \in Worker, call[v].key = <<"send", q>>, Ahead(call[v])
          PROVE  call'[v].key = <<"send", q>> /\ Ahead(call'[v])
      BY <1>0, <2>1, <3>3
    <3> QED BY <2>0, <3>1, <3>2, <3>3
  <2>2. CASE c.key = <<"send", q>>
    <3>0. Sending(c) /\ r = q
      <4>1. <<"send", q>> # None
        BY AbsentAssumption DEF Key
      <4>2. c # Idle /\ ~ Reading(c) /\ ~ Receiving(c) /\ ~ Confirming(c)
        BY <2>2, <4>1, IdleOK DEF Reading, Receiving, Confirming
      <4> QED BY <1>0, <2>2, <4>2 DEF CallOK
    <3>1. CASE ~ Ahead(c) /\ (Quits(w) \/ Decides(w))
      <4>1. RebuiltRequest(log, q) = index.requests[q]
        BY <1>1, <1>0, <3>0, <3>1, Settled
      <4>2. index' = index
        BY <3>1 DEF Quits, Decides
      <4>3. \/ log' = log
            \/ \E e \in Appending(c) : Quiet(e) /\ log' = Append(log, e)
        BY <3>1 DEF Quits, Decides
      <4>4. RebuiltRequest(log', q) = RebuiltRequest(log, q)
        BY <1>0, <4>3, QuietReplay, Appendable
      <4> QED BY <4>1, <4>2, <4>4
    <3>2. ASSUME d.key = c.key, Ahead(d)
          PROVE  \E v \in Worker : call'[v].key = <<"send", q>> /\ Ahead(call'[v])
      BY <2>2, <3>2
    <3>3. CASE Submit(w)
      <4>1. d.pc = "submitted" /\ d.key = c.key
        <5>1. PICK id : call' = [call EXCEPT ![w] = [c EXCEPT !.pc = "submitted", !.id = id,
                                                      !.ref = NextSeq]]
          BY <3>3 DEF Submit, Commit
        <5>2. d = [c EXCEPT !.pc = "submitted", !.id = id, !.ref = NextSeq]
          BY <1>0, <5>1
        <5> HIDE DEF c, d
        <5> QED BY <1>0, <5>2 DEF Call
      <4> QED BY <3>2, <4>1 DEF Ahead
    <3>4. CASE Block(w) /\ c.dir = "outbound"
      <4>1. d.pc = "denied" /\ d.key = c.key
        <5>1. d = [c EXCEPT !.pc = "denied", !.ref = NextSeq]
          BY <1>0, <3>4 DEF Block
        <5> HIDE DEF c, d
        <5> QED BY <1>0, <5>1, MovedFields
      <4> QED BY <3>2, <4>1 DEF Ahead
    <3>5. CASE Release(w)
      <4>1. d.pc = "released" /\ d.key = c.key
        <5>1. d = [c EXCEPT !.pc = "released", !.ref = NextSeq, !.what = SignedEnvelope(c)]
          BY <1>0, <3>5 DEF Release, Commit
        <5> HIDE DEF c, d
        <5> QED BY <1>0, <5>1 DEF Call
      <4> QED BY <3>2, <4>1 DEF Ahead
    <3>6. CASE RecordFinal(w)
      BY <1>3, <3>0, <3>6
    <3>7. CASE RecordRequest(w)
      <4>1. /\ c.pc = "submitted" /\ log' = log
            /\ index' = [index EXCEPT !.requests[r] =
                   [bind |-> c.what, id |-> c.id, created |-> c.ref,
                    final |-> FALSE, out |-> None]]
        BY <3>7 DEF RecordRequest
      <4>2. index'.requests[r] = [bind |-> c.what, id |-> c.id, created |-> c.ref,
                                  final |-> FALSE, out |-> None]
        <5>1. r \in Request
          BY <3>0
        <5> HIDE DEF c, r
        <5> QED BY <1>0, <4>1, <5>1 DEF Index
      <4> QED BY <1>0, <3>0, <4>1, <4>2 DEF SendHolds
    <3>8. Quits(w) \/ Decides(w) => ~ Ahead(c)
      BY DEF Quits, Decides, Ahead, Writing, Evaluating
    <3>9. c.pc \in Sends
      BY <3>0 DEF Sending
    <3>10. \/ Verify(w) \/ RecordSeen(w) \/ Accept(w) \/ Publish(w) \/ IssueAck(w)
           \/ RecordAck(w) \/ (ConfirmClaim(w) /\ ~ Finish(w)) \/ AppendConfirm(w)
           \/ RecordConfirm(w) \/ InboxReturn(w)
           => c.pc \notin Sends
      BY DEF Verify, RecordSeen, Accept, Publish, IssueAck, RecordAck, ConfirmClaim,
             AppendConfirm, RecordConfirm, InboxReturn, Sends, Evaluating
    <3> QED
      BY <3>1, <3>3, <3>4, <3>5, <3>6, <3>7, <3>8, <3>9, <3>10, StepKinds
  <2> QED BY <2>1, <2>2
<1>5. SentShown'
  <2> SUFFICES ASSUME logState' = "open", NEW id \in OutId
               PROVE  \/ index'.sent[id] = RebuiltSent(log', id)
                      \/ \E v \in Worker : call'[v].pc = "released" /\ call'[v].id = id
    BY DEF SentShown
  <2>0. \/ index.sent[id] = RebuiltSent(log, id)
        \/ \E v \in Worker : call[v].pc = "released" /\ call[v].id = id
    BY <1>0, <1>1 DEF SentShown
  <2>1. CASE c.pc \in {"release", "released"} /\ c.id = id
    <3>0. Sending(c)
      BY <1>0, <2>1, KindOf
    <3>1. CASE RecordFinal(w)
      <4>1. c.pc = "released"
        BY <2>1, <3>1 DEF RecordFinal
      <4> QED BY <1>3, <2>1, <3>1, <4>1
    <3>2. CASE Release(w)
      <4>1. d = [c EXCEPT !.pc = "released", !.ref = NextSeq, !.what = SignedEnvelope(c)]
        BY <1>0, <3>2 DEF Release, Commit
      <4>2. d.pc = "released" /\ d.id = c.id
        <5> HIDE DEF c, d
        <5> QED BY <1>0, <4>1 DEF Call
      <4> QED BY <2>1, <4>2
    <3>3. CASE Quits(w)
      <4>1. /\ index' = index /\ c.pc = "release"
            /\ \/ log' = log
               \/ \E e \in Appending(c) : Quiet(e) /\ log' = Append(log, e)
        BY <2>1, <3>3 DEF Quits, Writing
      <4>2. RebuiltSent(log', id) = RebuiltSent(log, id)
        BY <1>0, <4>1, QuietReplay, Appendable
      <4>3. ASSUME NEW v \in Worker, call[v].pc = "released", call[v].id = id
            PROVE  call'[v].pc = "released" /\ call'[v].id = id
        BY <1>0, <4>1, <4>3
      <4> QED BY <2>0, <4>1, <4>2, <4>3
    <3>4. ~ Decides(w)
      BY <2>1 DEF Decides, Evaluating
    <3>5. ~ (\/ Submit(w) \/ RecordRequest(w) \/ (Block(w) /\ c.dir = "outbound")
             \/ Verify(w) \/ RecordSeen(w) \/ Accept(w) \/ Publish(w) \/ IssueAck(w)
             \/ RecordAck(w) \/ (ConfirmClaim(w) /\ ~ Finish(w)) \/ AppendConfirm(w)
             \/ RecordConfirm(w) \/ InboxReturn(w))
      BY <2>1 DEF Submit, RecordRequest, Block, Verify, RecordSeen, Accept, Publish,
             IssueAck, RecordAck, ConfirmClaim, AppendConfirm, RecordConfirm, InboxReturn
    <3> QED BY <3>1, <3>2, <3>3, <3>4, <3>5, StepKinds
  <2>2. CASE ~ (c.pc \in {"release", "released"} /\ c.id = id)
    <3>1. index'.sent[id] = index.sent[id]
      BY <2>2, IndexTouched
    <3>2. RebuiltSent(log', id) = RebuiltSent(log, id)
      BY <2>2, LogTouched
    <3>3. ASSUME NEW v \in Worker, call[v].pc = "released", call[v].id = id
          PROVE  call'[v].pc = "released" /\ call'[v].id = id
      BY <1>0, <2>2, <3>3
    <3> QED BY <2>0, <3>1, <3>2, <3>3
  <2> QED BY <2>1, <2>2
<1>6. FinalsShown'
  <2> SUFFICES ASSUME NEW q \in Request, index'.requests[q] # None, index'.requests[q].final
               PROVE  index'.requests[q] = RebuiltRequest(log', q)
    BY DEF FinalsShown
  <2>1. CASE index'.requests[q] = index.requests[q]
    <3>1. RebuiltRequest(log, q) = index.requests[q]
      BY <1>0, <2>1 DEF FinalsShown
    <3> QED BY <2>1, <3>1, LogTouched
  <2>2. CASE index'.requests[q] # index.requests[q]
    <3>1. (RecordRequest(w) \/ RecordFinal(w)) /\ c.key = <<"send", q>>
      BY <2>2, IndexTouched
    <3>2. CASE RecordFinal(w)
      BY <1>3, <3>1, <3>2
    <3>3. CASE RecordRequest(w)
      <4> DEFINE rec == [bind |-> c.what, id |-> c.id, created |-> c.ref,
                         final |-> FALSE, out |-> None]
      <4>1. index' = [index EXCEPT !.requests[r] = rec]
        BY <3>3 DEF RecordRequest
      <4>2. r = q
        BY <3>1
      <4>3. rec.final = FALSE
        OBVIOUS
      <4>4. index'.requests[q] = rec
        <5> HIDE DEF c, r, rec
        <5> QED BY <1>0, <4>1, <4>2 DEF Index
      <4> QED BY <4>3, <4>4
    <3> QED BY <3>1, <3>2, <3>3
  <2> QED BY <2>1, <2>2
<1>7. SentAnswersStand'
  <2> SUFFICES ASSUME NEW a \in answers', a.key[1] = "send"
               PROVE  LET R == RebuiltRequest(log', a.key[2]) IN
                      R # None /\ R.final /\ R.out = a.out
    BY DEF SentAnswersStand
  <2>1. CASE a \in answers
    <3>1. LET R == RebuiltRequest(log, a.key[2]) IN R # None /\ R.final /\ R.out = a.out
      BY <1>0, <2>1 DEF SentAnswersStand
    <3>2. a.key[2] \in Request
      <4>1. a.key \in Key
        BY <2>1 DEF TInv, TypeOK
      <4> QED BY <2>1, <4>1 DEF Key
    <3>3. RebuiltRequest(log', a.key[2]) = RebuiltRequest(log, a.key[2])
      BY <3>1, <3>2, LogTouched
    <3> QED BY <3>1, <3>3
  <2>2. CASE a \notin answers
    <3>1. RecordFinal(w) \/ RecordAck(w)
      BY <2>2, StepFrame
    <3>2. CASE RecordFinal(w)
      <4>1. a = [key |-> <<"send", r>>, out |-> SendResultOf(c)]
        BY <1>3, <2>2, <3>2
      <4>2. a.key[2] = r /\ a.out = SendResultOf(c)
        BY <4>1
      <4> QED BY <1>3, <3>2, <4>2
    <3>3. CASE RecordAck(w)
      <4>1. a.key = c.key /\ c.pc = "acked"
        BY <2>2, <3>3 DEF RecordAck, Answer
      <4>2. Receiving(c)
        BY <1>0, <4>1, KindOf
      <4> QED BY <2>2, <4>1, <4>2 DEF Receiving
    <3> QED BY <3>1, <3>2, <3>3
  <2> QED BY <2>1, <2>2
<1>8. SentOnce(log')
  BY LogTouched
<1> QED BY <1>2, <1>4, <1>5, <1>6, <1>7, <1>8 DEF SInv

LEMMA InitSInv == Init => SInv
<1> SUFFICES ASSUME Init PROVE SInv
  OBVIOUS
<1>1. SentOnce(log)
  BY DEF Init, SentOnce
<1>2. \A w \in Worker : ~ Sending(call[w])
  BY IdleOK DEF Init, Sending, Sends, Evaluating
<1>3. logState # "open" /\ answers = {}
  BY DEF Init
<1>4. \A r \in Request : index.requests[r] = RebuiltRequest(<< >>, r)
  BY DEF Init, Rebuild
<1>5. \A r \in Request : index.requests[r] = None
  BY <1>4, EmptyReplay
<1> QED
  BY <1>1, <1>2, <1>3, <1>5 DEF SInv, RequestsShown, SentShown, FinalsShown, SentAnswersStand

\* The start of a call.
LEMMA BeginsSInv ==
    ASSUME TInv, SInv, NEW w \in Worker, Begins(w)
    PROVE  SInv'
<1>0. /\ call \in [Worker -> Call] /\ index \in Index /\ call[w] = Idle
      /\ \A v \in Worker \ {w} : call'[v] = call[v]
      /\ log' = log /\ logState' = logState /\ index' = index /\ answers' = answers
  BY StartGoes, BeginsKeeps DEF TInv, TypeOK, Begins
<1>1. ASSUME NEW v \in Worker, Sending(call'[v]) PROVE SendHolds(call[v])'
  <2>1. CASE v # w
    <3>1. call'[v] = call[v] /\ SendHolds(call[v])
      BY <1>0, <1>1, <2>1 DEF SInv
    <3> QED BY <1>0, <3>1 DEF SendHolds
  <2>2. CASE v = w
    <3>1. PICK r \in Request, t \in Text : SendClaim(w, r, t)
      <4>1. call'[w].dir = "outbound" /\ call'[w].pc \in Sends
        BY <1>1, <2>2, SendKey DEF Sending
      <4>2. ASSUME NEW e \in Inbound, ReceiveClaim(w, e) PROVE FALSE
        <5>1. PICK pc : call'[w] = [Idle EXCEPT !.pc = pc, !.key = <<"receive", e.id>>,
                           !.dir = "inbound", !.what = e, !.id = e.id,
                           !.rec = index.received[e.id]]
          BY <1>0, <4>2 DEF ReceiveClaim
        <5>2. call'[w].dir = "inbound"
          BY <5>1, IdleOK DEF Call
        <5> QED BY <4>1, <5>2
      <4>3. ASSUME NEW id \in OutId, ConfirmLookup(w, id) PROVE FALSE
        <5>1. call'[w] = [Idle EXCEPT !.pc = "confirm_claim", !.dir = "outbound", !.id = id]
          BY <1>0, <4>3 DEF ConfirmLookup
        <5>2. call'[w].pc = "confirm_claim"
          BY <5>1, IdleOK DEF Call
        <5> QED BY <4>1, <5>2 DEF Sends, Evaluating
      <4>4. ASSUME InboxSelect(w) PROVE FALSE
        <5>1. call'[w] = [Idle EXCEPT !.pc = "read", !.page = Page]
          BY <1>0, <4>4 DEF InboxSelect
        <5>2. call'[w].pc = "read"
          BY <5>1, IdleOK DEF Call
        <5> QED BY <4>1, <5>2 DEF Sends, Evaluating
      <4> QED BY <4>2, <4>3, <4>4 DEF Begins
    <3> DEFINE rec == index.requests[r]
               d == call'[w]
    <3>2. d = [Idle EXCEPT !.pc = IF rec = None THEN "submit" ELSE "scan",
                        !.key = <<"send", r>>, !.dir = "outbound", !.what = t,
                        !.id = IF rec = None THEN None ELSE rec.id,
                        !.rec = rec]
      BY <1>0, <3>1 DEF SendClaim
    <3>3. rec # None => rec.bind = t /\ ~ rec.final
      BY <3>1 DEF SendClaim
    <3> HIDE DEF d, rec
    <3>4. /\ d.pc = (IF rec = None THEN "submit" ELSE "scan")
          /\ d.key = <<"send", r>> /\ d.what = t /\ d.rec = rec
          /\ d.id = (IF rec = None THEN None ELSE rec.id)
      BY <3>2, IdleOK DEF Call
    <3>5. d.key[2] = r /\ index'.requests[r] = rec
      BY <1>0, <3>4 DEF rec
    <3> QED BY <2>2, <3>3, <3>4, <3>5 DEF SendHolds, d
  <2> QED BY <2>1, <2>2
<1>2. RequestsShown'
  <2>1. ASSUME NEW v \in Worker, NEW r \in Request, call[v].key = <<"send", r>>, Ahead(call[v])
        PROVE  call'[v] = call[v]
    BY <1>0, <2>1, IdleOK DEF Ahead
  <2> QED BY <1>0, <2>1 DEF SInv, RequestsShown, Ahead
<1>3. SentShown'
  <2>1. ASSUME NEW v \in Worker, call[v].pc = "released"
        PROVE  call'[v] = call[v]
    BY <1>0, <2>1, IdleOK
  <2> QED BY <1>0, <2>1 DEF SInv, SentShown
<1>4. SentOnce(log') /\ FinalsShown' /\ SentAnswersStand'
  BY <1>0 DEF SInv, FinalsShown, SentAnswersStand
<1> QED BY <1>1, <1>2, <1>3, <1>4 DEF SInv

\* What a start's own entry leaves of the log.
LEMMA StartedStands ==
    ASSUME TInv, SInv, log' = log \/ log' = Append(log, Started)
    PROVE  /\ SentOnce(log')
           /\ \A r : RebuiltRequest(log', r) = RebuiltRequest(log, r)
           /\ \A id : RebuiltSent(log', id) = RebuiltSent(log, id)
<1>1. log \in Seq(Entry) /\ SentOnce(log) /\ Started \in Entry
  BY StartedOK DEF TInv, TypeOK, SInv
<1>2. /\ Started.type # "message_submitted" /\ ~ Final(Started)
      /\ Started.type # "outbound_released"
  BY DEF Started, EntryOf, Final
<1>3. SentOnce(Append(log, Started))
  BY <1>1, <1>2, SentOnceOther
<1> QED BY <1>1, <1>3, StartedQuiet, QuietReplay

LEMMA NextSInv == TInv /\ CInv /\ SInv /\ [Next]_vars => SInv'
<1> SUFFICES ASSUME TInv, CInv, SInv, [Next]_vars PROVE SInv'
  OBVIOUS
<1>0. \A w \in Worker : ~ Sending(Idle)
  BY IdleOK DEF Sending, Sends, Evaluating
<1>1. ASSUME NEW w \in Worker, Step(w) PROVE SInv'
  BY <1>1, StepSInv
<1>2. ASSUME NEW w \in Worker, Begins(w) PROVE SInv'
  BY <1>2, BeginsSInv
<1>3. CASE Crash
  <2>1. /\ log' = log /\ answers' = answers /\ logState' = "closed"
        /\ index' = Rebuild(<< >>) /\ call' = [w \in Worker |-> Idle]
    BY <1>3 DEF Crash
  <2>2. \A r \in Request : index'.requests[r] = None
    BY <2>1, EmptyReplay DEF Rebuild
  <2>3. \A w \in Worker : ~ Sending(call'[w])
    BY <1>0, <2>1
  <2> QED
    BY <2>1, <2>2, <2>3 DEF SInv, RequestsShown, SentShown, FinalsShown, SentAnswersStand
<1>4. CASE Start
  <2>1. /\ log' = Append(log, Started) /\ answers' = answers /\ call' = call
        /\ index' = Rebuild(log') /\ ~ up
    BY <1>4 DEF Start
  <2>2. /\ \A r \in Request : index'.requests[r] = RebuiltRequest(log', r)
        /\ \A id \in OutId : index'.sent[id] = RebuiltSent(log', id)
    BY <2>1 DEF Rebuild
  <2>3. \A w \in Worker : ~ Sending(call'[w])
    BY <1>0, <2>1 DEF TInv, DownIsQuiet
  <2>4. SentOnce(log') /\ \A r : RebuiltRequest(log', r) = RebuiltRequest(log, r)
    BY <2>1, StartedStands
  <2> QED
    BY <2>1, <2>2, <2>3, <2>4
       DEF SInv, RequestsShown, SentShown, FinalsShown, SentAnswersStand
<1>5. CASE Aside
  <2>1. /\ index' = index /\ call' = call
        /\ log' = log \/ (~ up /\ log' = Append(log, Started))
        /\ logState' = logState \/ logState' = "closed"
    BY <1>5, AsideKeeps
  <2>2. /\ SentOnce(log')
        /\ \A r : RebuiltRequest(log', r) = RebuiltRequest(log, r)
        /\ \A id : RebuiltSent(log', id) = RebuiltSent(log, id)
    BY <2>1, StartedStands
  <2>3. ASSUME NEW a \in answers', a \notin answers, a.key[1] = "send"
        PROVE  LET R == RebuiltRequest(log, a.key[2]) IN R # None /\ R.final /\ R.out = a.out
    <3>1. PICK r \in Request, t \in Text : SendCached(r, t)
      <4>1. ASSUME NEW e \in Inbound, ReceiveCached(e) PROVE FALSE
        <5>1. a.key = <<"receive", e.id>>
          BY <2>3, <4>1 DEF ReceiveCached, Answer
        <5> QED BY <2>3, <5>1
      <4> QED
        BY <1>5, <2>3, <4>1 DEF Aside, Approve, Shutdown, CloseLog, StartFails, vars
    <3>2. /\ a = [key |-> <<"send", r>>, out |-> index.requests[r].out]
          /\ index.requests[r] # None /\ index.requests[r].final
      BY <2>3, <3>1 DEF SendCached, Answer
    <3>3. a.key[2] = r /\ a.out = index.requests[r].out
      BY <3>2
    <3> QED BY <3>2, <3>3 DEF SInv, FinalsShown
  <2>4. SentAnswersStand'
    BY <2>2, <2>3 DEF SentAnswersStand, SInv
  <2>5. \A w \in Worker : Sending(call'[w]) => SendHolds(call[w])'
    <3>1. ASSUME NEW w \in Worker, Sending(call'[w]) PROVE SendHolds(call[w])'
      <4>1. call'[w] = call[w] /\ SendHolds(call[w])
        BY <2>1, <3>1 DEF SInv
      <4> QED BY <2>1, <2>2, <4>1 DEF SendHolds
    <3> QED BY <3>1
  <2>6. RequestsShown' /\ SentShown' /\ FinalsShown'
    BY <2>1, <2>2 DEF SInv, RequestsShown, SentShown, FinalsShown, Ahead
  <2> QED BY <2>2, <2>4, <2>5, <2>6 DEF SInv
<1> QED BY <1>1, <1>2, <1>3, <1>4, <1>5, NextIs

LEMMA SendsInvariant == Spec => []SInv
<1>1. Init => TInv /\ CInv /\ SInv
  BY InitTInv, InitCInv, InitSInv
<1>2. (TInv /\ CInv /\ SInv) /\ [Next]_vars => (TInv /\ CInv /\ SInv)'
  BY NextTInv, NextCInv, NextSInv
<1> QED BY <1>1, <1>2, PTL DEF Spec

\* Send proposes a request once, under a message ID of its own, ends it at most
\* once and releases for it what was proposed (RequestBinds), however calls,
\* retries, failed appends and restarts interleave.
THEOREM RequestsBound == Spec => []RequestBinds
<1>1. SInv => RequestBinds
  BY SentOnceBinds DEF SInv
<1> QED BY <1>1, SendsInvariant, PTL

(***************************************************************************)
(* Receive: one envelope, one acceptance and one receipt for a message ID. *)
(***************************************************************************)

\* Every entry about a verified envelope is about the one the ID is bound to,
\* and the message is accepted once.
FromPeer(e) == e.type \in {"inbound_verified", "inbound_accepted", "acknowledgement_issued"}
Bound(l) ==
    /\ \A i \in DOMAIN l : FromPeer(l[i]) => RebuiltSeen(l, l[i].id) = l[i].what
    /\ \A i, j \in DOMAIN l :
           /\ l[i].type = "inbound_accepted" /\ l[j].type = "inbound_accepted"
           /\ l[i].id = l[j].id
           => i = j

\* The record of an accepted message, and with its receipt.
AcceptedOf(c) ==
    [env |-> c.what, seq |-> c.ref, out |-> ReceiveOut(c.id, c.dec, c.why, None, c.ref)]
AckedOf(c) ==
    [c.rec EXCEPT !.out = [c.rec.out EXCEPT
        !.ack = [env |-> c.rec.env, seq |-> c.rec.seq], !.seq = c.ref]]

\* A Receive call has appended what the index does not show yet.
Trails(c) == c.pc \in {"accepted", "acked"}

\* What a Receive call knows of its message: before it is bound, while it is
\* being decided, between the append of the acceptance or of the receipt and
\* their entry in the index.
ReceiveHolds(c) ==
    LET x == index.received[c.id]
        s == index.seen[c.id] IN
    /\ c.pc \notin {"ack", "acked"} => x = None
    /\ c.pc \in {"verify", "verified"} => s \in {None, c.what}
    /\ c.pc = "verified" => RebuiltSeen(log, c.id) = c.what
    /\ c.pc \in Evaluating \cup {"accept", "accepted"} => s = c.what
    /\ c.pc = "accepted" => RebuiltReceived(log, c.id) = AcceptedOf(c)
    /\ c.pc \in {"ack", "acked"} =>
           x = c.rec /\ c.rec.env = c.what /\ c.rec.out.ack = None
    /\ c.pc = "acked" => RebuiltReceived(log, c.id) = AckedOf(c)

ReceivedShown ==
    logState = "open" =>
        \A id \in InId :
            \/ index.received[id] = RebuiltReceived(log, id)
            \/ \E w \in Worker : call[w].key = <<"receive", id>> /\ Trails(call[w])
SeenShown ==
    logState = "open" =>
        \A id \in InId :
            \/ index.seen[id] = RebuiltSeen(log, id)
            \/ \E w \in Worker : call[w].key = <<"receive", id>> /\ call[w].pc = "verified"
AcksShown ==
    \A id \in InId :
        index.received[id] # None /\ index.received[id].out.ack # None
            => index.received[id] = RebuiltReceived(log, id)
ReceiptsStand ==
    \A a \in answers :
        /\ a.key[1] \in {"send", "receive"}
        /\ a.key[1] = "receive" =>
               LET R == RebuiltReceived(log, a.key[2]) IN
               R # None /\ R.out.ack # None /\ R.out = a.out

\* The accepted messages of the log, and of the calls about to publish one.
Shown(l) == {[id |-> l[i].id, env |-> l[i].what, seq |-> i] : i \in Acceptances(l)}
Unpublished ==
    {[id |-> call[w].id, env |-> call[w].what, seq |-> call[w].ref] :
        w \in {v \in Worker : call[v].pc = "accepted"}}
InboxShown ==
    logState = "open" => Shown(log) = ToSet(index.inbox) \cup Unpublished

RInv ==
    /\ Bound(log)
    /\ ReplayOK(log)
    /\ \A w \in Worker : Receiving(call[w]) => ReceiveHolds(call[w])
    /\ ReceivedShown
    /\ SeenShown
    /\ AcksShown
    /\ ReceiptsStand
    /\ InboxShown

\* rebuildIndex goes on accepting the log: a receipt follows its acceptance.
LEMMA ReplayAppended ==
    ASSUME NEW l \in Seq(Entry), NEW e \in Entry, ReplayOK(l),
           e.type = "acknowledgement_issued" =>
               LET R == RebuiltReceived(l, e.id) IN
               R # None /\ e.ack = [env |-> R.env, seq |-> R.seq]
    PROVE  ReplayOK(Append(l, e))
<1> DEFINE m == Append(l, e)
           n == Len(l) + 1
<1>0. ASSUME NEW x, NEW id
      PROVE  LastPos(x, LAMBDA y : y.type = "inbound_accepted" /\ y.id = id)
                 = Latest(At(x, "inbound_accepted", id))
  BY DEF LastPos, SelectLastInSeq, Latest, At
<1>1. /\ DOMAIN m = DOMAIN l \cup {n} /\ m[n] = e /\ m \in Seq(Entry) /\ Len(m) = n
      /\ \A i \in DOMAIN l : m[i] = l[i]
      /\ n \notin DOMAIN l /\ DOMAIN l = 1..Len(l) /\ Len(l) \in Nat
  BY Appended
<1>2. \A k \in DOMAIN l : SubSeq(m, 1, k) = SubSeq(l, 1, k)
  <2>1. ASSUME NEW k \in DOMAIN l PROVE SubSeq(m, 1, k) = SubSeq(l, 1, k)
    <3>1. k \in 1..Len(l) /\ k \in Nat
      BY <1>1
    <3>2. SubSeq(m, 1, k) = [i \in 1..k |-> m[i]] /\ SubSeq(l, 1, k) = [i \in 1..k |-> l[i]]
      BY <1>1, <3>1
    <3>3. \A i \in 1..k : m[i] = l[i]
      BY <1>1, <3>1
    <3> QED BY <3>2, <3>3
  <2> QED BY <2>1
<1>3. SubSeq(m, 1, n) = m
  <2>1. SubSeq(m, 1, n) = [i \in 1..n |-> m[i]]
    BY <1>1
  <2>2. m = [i \in 1..n |-> m[i]]
    <3> HIDE DEF m, n
    <3> QED BY <1>1
  <2> QED BY <2>1, <2>2
<1> HIDE DEF m, n
<1> SUFFICES ASSUME NEW k \in DOMAIN m, m[k].type = "acknowledgement_issued"
             PROVE  LET a == Latest(At(SubSeq(m, 1, k), "inbound_accepted", m[k].id))
                    IN  a > 0 /\ m[k].ack = [env |-> m[a].what, seq |-> a]
  BY <1>0 DEF ReplayOK, m
<1>4. CASE k \in DOMAIN l
  <2> DEFINE a == Latest(At(SubSeq(l, 1, k), "inbound_accepted", l[k].id))
  <2>1. Latest(At(SubSeq(m, 1, k), "inbound_accepted", m[k].id)) = a
    BY <1>1, <1>2, <1>4
  <2>2. a > 0 /\ l[k].ack = [env |-> l[a].what, seq |-> a]
    BY <1>0, <1>1, <1>4 DEF ReplayOK
  <2>3. a \in DOMAIN l
    <3>1. k \in 1..Len(l) /\ k \in Nat
      BY <1>1, <1>4
    <3>2. SubSeq(l, 1, k) \in Seq(Entry) /\ Len(SubSeq(l, 1, k)) = k
      BY <1>1, <3>1
    <3>3. a \in 0..k
      BY <3>2, LatestWithin
    <3> QED BY <1>1, <2>2, <3>1, <3>3
  <2> HIDE DEF a
  <2> QED BY <1>1, <1>4, <2>1, <2>2, <2>3
<1>5. CASE k = n
  <2> DEFINE a == Latest(At(l, "inbound_accepted", e.id))
             R == RebuiltReceived(l, e.id)
  <2>1. e.type = "acknowledgement_issued" /\ m[k] = e
    BY <1>1, <1>5
  <2>2. Latest(At(SubSeq(m, 1, k), "inbound_accepted", m[k].id))
            = Latest(At(m, "inbound_accepted", e.id))
    BY <1>3, <1>5, <2>1
  <2>3. Latest(At(m, "inbound_accepted", e.id)) = a
    BY <2>1, AppendedLatest DEF m
  <2>4. R # None /\ e.ack = [env |-> R.env, seq |-> R.seq]
    BY <2>1
  <2>5. /\ a # 0 /\ R.env = l[a].what /\ R.seq = a
    BY <2>4, Rebuilt
  <2>6. a \in 0..Len(l)
    BY LatestWithin
  <2> HIDE DEF a, R
  <2>7. a > 0 /\ m[a] = l[a]
    BY <1>1, <2>5, <2>6
  <2> QED BY <2>1, <2>2, <2>3, <2>4, <2>5, <2>7
<1> QED BY <1>1, <1>4, <1>5

\* What the replay shows of a message says where its entries are.
LEMMA ReplayedMessage ==
    ASSUME NEW l \in Seq(Entry), \A i \in DOMAIN l : EntryOK(l[i]), Bound(l),
           NEW id \in InId
    PROVE  LET R == RebuiltReceived(l, id) IN
           /\ R = None =>
                  \A i \in DOMAIN l : l[i].type = "inbound_accepted" => l[i].id # id
           /\ R # None =>
                  /\ R \in ReceivedRecord
                  /\ R.env = RebuiltSeen(l, id)
                  /\ R.out.id = id /\ R.out.status = "accepted"
                  /\ R = [env |-> R.env, seq |-> R.seq,
                          out |-> ReceiveOut(id, R.out.dec, R.out.why, R.out.ack, R.out.seq)]
<1> DEFINE a == Latest(At(l, "inbound_accepted", id))
           k == Latest(At(l, "acknowledgement_issued", id))
           R == RebuiltReceived(l, id)
<1>1. R = IF a = 0 THEN None
          ELSE [env |-> l[a].what, seq |-> a,
                out |-> ReceiveOut(id, l[a].dec, l[a].why,
                                   IF k > a THEN l[k].ack ELSE None,
                                   IF k > a THEN k ELSE a)]
  BY Rebuilt
<1>2. /\ a \in 0..Len(l) /\ Len(l) \in Nat /\ DOMAIN l = 1..Len(l)
      /\ a > 0 => l[a].type = "inbound_accepted" /\ l[a].id = id
      /\ a = 0 <=> At(l, "inbound_accepted", id) = {}
  BY LatestWithin, PositionsWithin, LatestIs
<1>3. ASSUME a = 0, NEW i \in DOMAIN l, l[i].type = "inbound_accepted" PROVE l[i].id # id
  BY <1>2, <1>3 DEF At
<1>4. ASSUME a # 0
      PROVE  /\ R \in ReceivedRecord
             /\ R.env = RebuiltSeen(l, id)
             /\ R.out.id = id /\ R.out.status = "accepted"
             /\ R = [env |-> R.env, seq |-> R.seq,
                     out |-> ReceiveOut(id, R.out.dec, R.out.why, R.out.ack, R.out.seq)]
  <2>1. R \in ReceivedRecord
    BY <1>4, RebuildOK
  <2>2. a \in DOMAIN l /\ FromPeer(l[a]) /\ l[a].id = id
    BY <1>2, <1>4 DEF FromPeer
  <2>3. RebuiltSeen(l, id) = l[a].what
    BY <2>2 DEF Bound
  <2> DEFINE ack == IF k > a THEN l[k].ack ELSE None
             seq == IF k > a THEN k ELSE a
  <2>4. R = [env |-> l[a].what, seq |-> a,
             out |-> ReceiveOut(id, l[a].dec, l[a].why, ack, seq)]
    BY <1>1, <1>4
  <2> HIDE DEF R, a, k, ack, seq
  <2>5. /\ R.env = l[a].what /\ R.seq = a
        /\ R.out.id = id /\ R.out.status = "accepted" /\ R.out.dec = l[a].dec
        /\ R.out.why = l[a].why /\ R.out.ack = ack /\ R.out.seq = seq
    BY <2>4 DEF ReceiveOut
  <2>6. R = [env |-> R.env, seq |-> R.seq,
             out |-> ReceiveOut(id, R.out.dec, R.out.why, R.out.ack, R.out.seq)]
    <3>1. ReceiveOut(id, R.out.dec, R.out.why, R.out.ack, R.out.seq)
              = ReceiveOut(id, l[a].dec, l[a].why, ack, seq)
      BY <2>5 DEF ReceiveOut
    <3> QED BY <2>4, <2>5, <3>1
  <2> QED BY <2>1, <2>3, <2>5, <2>6
<1>5. a = 0 => R = None
  BY <1>1
<1> HIDE DEF a, k, R
<1>6. a # 0 => R # None
  BY <1>4, AbsentAssumption
<1> QED BY <1>3, <1>4, <1>5, <1>6 DEF R

\* The appended entry keeps the binding: a verified envelope its message ID is
\* free for or bound to, or an entry about the envelope it is bound to.
LEMMA BoundAppended ==
    ASSUME NEW l \in Seq(Entry), \A i \in DOMAIN l : EntryOK(l[i]), Bound(l),
           NEW e \in Entry, EntryOK(e),
           e.type = "inbound_verified" => RebuiltSeen(l, e.id) \in {None, e.what},
           FromPeer(e) /\ e.type # "inbound_verified" => RebuiltSeen(l, e.id) = e.what,
           e.type = "inbound_accepted" => RebuiltReceived(l, e.id) = None
    PROVE  Bound(Append(l, e))
<1> DEFINE m == Append(l, e)
           n == Len(l) + 1
<1>1. /\ DOMAIN m = DOMAIN l \cup {n} /\ m[n] = e
      /\ \A i \in DOMAIN l : m[i] = l[i]
  BY Appended
<1>2. \A id : RebuiltSeen(m, id) = IF e.type = "inbound_verified" /\ e.id = id
                                   THEN e.what ELSE RebuiltSeen(l, id)
  BY AppendedReplay
<1>3. \A i \in DOMAIN l : FromPeer(l[i]) =>
          RebuiltSeen(l, l[i].id) = l[i].what /\ l[i].what # None
  BY AbsentAssumption DEF Bound, FromPeer, EntryOK
<1>4. e.type = "inbound_accepted" =>
          \A i \in DOMAIN l : l[i].type = "inbound_accepted" => l[i].id # e.id
  <2> SUFFICES ASSUME e.type = "inbound_accepted"
               PROVE  \A i \in DOMAIN l : l[i].type = "inbound_accepted" => l[i].id # e.id
    OBVIOUS
  <2>1. PICK id : id = e.id
    OBVIOUS
  <2>2. id \in InId /\ RebuiltReceived(l, id) = None
    BY <2>1 DEF EntryOK
  <2> QED BY <2>1, <2>2, ReplayedMessage
<1> HIDE DEF m, n
<1>5. ASSUME NEW i \in DOMAIN m, FromPeer(m[i]) PROVE RebuiltSeen(m, m[i].id) = m[i].what
  <2>1. CASE i \in DOMAIN l
    BY <1>1, <1>2, <1>3, <1>5, <2>1
  <2>2. CASE i = n
    BY <1>1, <1>2, <1>5, <2>2
  <2> QED BY <1>1, <2>1, <2>2
<1>6. ASSUME NEW i \in DOMAIN m, NEW j \in DOMAIN m,
             m[i].type = "inbound_accepted", m[j].type = "inbound_accepted",
             m[i].id = m[j].id
      PROVE  i = j
  BY <1>1, <1>4, <1>6 DEF Bound
<1> QED BY <1>5, <1>6 DEF Bound, m

\* The inbox a log is replayed to.
LEMMA InboxIs ==
    ASSUME NEW l \in Seq(Entry)
    PROVE  ToSet(RebuiltInbox(l)) = Shown(l)
<1> DEFINE A == Acceptances(l)
           order == InOrder(A)
           n == Cardinality(A)
<1>1. A \in SUBSET (1..Len(l)) /\ Len(l) \in Nat
  BY PositionsWithin
<1>2. /\ n \in Nat /\ Len(order) = n
      /\ \A k \in 1..n : order[k] \in A
      /\ \A i \in A : \E k \in 1..n : order[k] = i
  BY <1>1, InOrderIs
<1>3. RebuiltInbox(l) = [k \in 1..n |-> [id |-> l[order[k]].id, env |-> l[order[k]].what,
                                         seq |-> order[k]]]
  BY <1>2 DEF RebuiltInbox, Acceptances
<1> HIDE DEF order, n, A
<1> DEFINE View(i) == [id |-> l[i].id, env |-> l[i].what, seq |-> i]
           x == RebuiltInbox(l)
<1>4. x = [k \in 1..n |-> View(order[k])]
  BY <1>3
<1>5. Shown(l) = {View(i) : i \in A}
  BY DEF Shown, A
<1> HIDE DEF View, x
<1>6. ToSet(x) = {x[k] : k \in 1..n}
  BY <1>4 DEF ToSet
<1>7. \A k \in 1..n : x[k] = View(order[k])
  BY <1>4
<1> QED BY <1>2, <1>5, <1>6, <1>7 DEF x

LEMMA ReceiveKey ==
    ASSUME NEW c, Receiving(c)
    PROVE  /\ c.id \in InId /\ c.key = <<"receive", c.id>> /\ c.key # None
           /\ c.dir = "inbound" /\ c.pc # "idle" /\ ~ Sending(c)
           /\ c.what \in Inbound /\ c.what # None
<1>1. c.id \in InId /\ c.key = <<"receive", c.id>> /\ c.dir = "inbound" /\ c.what \in Inbound
  BY DEF Receiving
<1>2. c.key # None /\ c.what # None
  BY <1>1, AbsentAssumption DEF Key
<1>3. c.pc # "idle" /\ ~ Sending(c)
  BY <1>1 DEF Receiving, Sending, Receives, Evaluating
<1> QED BY <1>1, <1>2, <1>3

\* Only a Receive call has the key of a message.
LEMMA MessageKey ==
    ASSUME NEW c, CallOK(c), NEW id \in InId, c.key = <<"receive", id>>
    PROVE  Receiving(c) /\ c.id = id
<1>1. c.key # None
  BY AbsentAssumption DEF Key
<1>2. c # Idle /\ ~ Reading(c)
  BY <1>1, IdleOK DEF Reading
<1>3. ~ Sending(c)
  BY DEF Sending
<1>4. ~ Confirming(c)
  BY <1>1 DEF Confirming
<1> QED BY <1>2, <1>3, <1>4 DEF CallOK, Receiving

\* While the log is open, a call that is not ahead of the index finds in the
\* index what the log would be replayed to.
LEMMA MessageSettled ==
    ASSUME TInv, CInv, RInv, logState = "open", NEW w \in Worker, Receiving(call[w])
    PROVE  /\ ~ Trails(call[w]) =>
                  RebuiltReceived(log, call[w].id) = index.received[call[w].id]
           /\ call[w].pc # "verified" =>
                  RebuiltSeen(log, call[w].id) = index.seen[call[w].id]
<1> DEFINE id == call[w].id
<1>1. id \in InId /\ call[w].key = <<"receive", id>> /\ call[w].key # None
  BY ReceiveKey
<1>2. ASSUME NEW u \in Worker, call[u].key = <<"receive", id>> PROVE u = w
  BY <1>1, <1>2, OneCall
<1> QED BY <1>1, <1>2 DEF RInv, ReceivedShown, SeenShown

\* What the appending call may rely on.
LEMMA ReceiveAppends ==
    ASSUME TInv, CInv, RInv, Usable, NEW w \in Worker, Receiving(call[w]),
           call[w].pc \in {"verify", "accept", "ack"}
    PROVE  LET c == call[w]
               R == RebuiltReceived(log, c.id)
               S == RebuiltSeen(log, c.id) IN
           /\ c.pc = "verify" => R = None /\ S \in {None, c.what}
           /\ c.pc = "accept" => R = None /\ S = c.what
           /\ c.pc = "ack" => /\ R = c.rec /\ c.rec \in ReceivedRecord /\ R # None
                              /\ R.env = c.what /\ R.out.ack = None /\ S = c.what
<1> DEFINE c == call[w]
<1>1. ReceiveHolds(c) /\ logState = "open" /\ ~ Trails(c) /\ c.pc # "verified"
  BY DEF RInv, Usable, Trails
<1>2. /\ RebuiltReceived(log, c.id) = index.received[c.id]
      /\ RebuiltSeen(log, c.id) = index.seen[c.id]
  BY <1>1, MessageSettled
<1>3. c.pc = "ack" => c.rec \in ReceivedRecord
  BY DEF Receiving
<1>4. \A i \in DOMAIN log : EntryOK(log[i])
  BY DEF TInv
<1>5. log \in Seq(Entry) /\ Bound(log) /\ c.id \in InId
  BY ReceiveKey DEF TInv, TypeOK, RInv
<1>6. LET R == RebuiltReceived(log, c.id) IN R # None => R.env = RebuiltSeen(log, c.id)
  <2> HIDE DEF c
  <2> QED BY <1>4, <1>5, ReplayedMessage
<1> HIDE DEF c
<1>7. c.pc = "verify" => index.received[c.id] = None /\ index.seen[c.id] \in {None, c.what}
  BY <1>1 DEF ReceiveHolds
<1>8. c.pc = "accept" => index.received[c.id] = None /\ index.seen[c.id] = c.what
  BY <1>1 DEF ReceiveHolds
<1>9. c.pc = "ack" => /\ index.received[c.id] = c.rec /\ c.rec.env = c.what
                      /\ c.rec.out.ack = None
  BY <1>1 DEF ReceiveHolds
<1> QED BY <1>2, <1>3, <1>6, <1>7, <1>8, <1>9, AbsentAssumption DEF c

\* A receipt stands: no entry a call may append changes it.
LEMMA ReceiptStands ==
    ASSUME TInv, CInv, RInv, Usable, NEW w \in Worker, NEW e \in Appending(call[w]),
           NEW id \in InId, RebuiltReceived(log, id) # None,
           RebuiltReceived(log, id).out.ack # None
    PROVE  RebuiltReceived(Append(log, e), id) = RebuiltReceived(log, id)
<1>0. call[w] \in Call /\ CallOK(call[w]) /\ log \in Seq(Entry) /\ e \in Entry
  BY Appendable DEF TInv, TypeOK
<1>1. ASSUME e.type \in {"inbound_accepted", "acknowledgement_issued"}, e.id = id
      PROVE  FALSE
  <2>1. /\ Receiving(call[w]) /\ call[w].pc \in {"accept", "ack"}
        /\ e = Accepted(call[w]) \/ e = AckIssued(call[w])
    BY <1>0, <1>1, EntryOwner
  <2>2. e.id = call[w].id
    BY <2>1 DEF Accepted, AckIssued, EntryOf
  <2> QED BY <1>1, <2>1, <2>2, ReceiveAppends
<1> QED BY <1>0, <1>1, AppendedReplay

\* The log keeps binding message IDs, and stays replayable, whatever is appended.
LEMMA BoundStep ==
    ASSUME TInv, CInv, RInv, Usable, NEW w \in Worker, NEW e \in Appending(call[w])
    PROVE  Bound(Append(log, e)) /\ ReplayOK(Append(log, e))
<1> DEFINE c == call[w]
<1>0. /\ c \in Call /\ CallOK(c) /\ log \in Seq(Entry) /\ e \in Entry /\ EntryOK(e)
      /\ Bound(log) /\ ReplayOK(log)
  BY Appendable DEF TInv, TypeOK, RInv
<1>1. \A i \in DOMAIN log : EntryOK(log[i])
  BY DEF TInv
<1>2. ASSUME FromPeer(e)
      PROVE  /\ Receiving(c) /\ c.pc \in {"verify", "accept", "ack"}
             /\ e.id = c.id /\ e.what = c.what
             /\ e.type = "inbound_verified" => c.pc = "verify"
             /\ e.type = "inbound_accepted" => c.pc = "accept"
             /\ e.type = "acknowledgement_issued" =>
                    c.pc = "ack" /\ e.ack = [env |-> c.rec.env, seq |-> c.rec.seq]
  <2>1. /\ Receiving(c) /\ c.pc \in {"verify", "accept", "ack"}
        /\ e.type = "inbound_verified" => c.pc = "verify" /\ e = InboundVerified(c)
        /\ e.type = "inbound_accepted" => c.pc = "accept" /\ e = Accepted(c)
        /\ e.type = "acknowledgement_issued" => c.pc = "ack" /\ e = AckIssued(c)
    <3> HIDE DEF c
    <3> QED BY <1>0, <1>2, EntryOwner DEF FromPeer, c
  <2>2. /\ e = InboundVerified(c) => e.id = c.id /\ e.what = c.what
        /\ e = Accepted(c) => e.id = c.id /\ e.what = c.what
        /\ e = AckIssued(c) => /\ e.id = c.id /\ e.what = c.what
                               /\ e.ack = [env |-> c.rec.env, seq |-> c.rec.seq]
    <3> HIDE DEF c
    <3> QED BY DEF InboundVerified, Accepted, AckIssued, EntryOf
  <2> QED BY <1>2, <2>1, <2>2 DEF FromPeer
<1>3. FromPeer(e) =>
          /\ c.pc = "verify" => RebuiltSeen(log, c.id) \in {None, c.what}
          /\ c.pc = "accept" => RebuiltReceived(log, c.id) = None /\ RebuiltSeen(log, c.id) = c.what
          /\ c.pc = "ack" => /\ RebuiltReceived(log, c.id) = c.rec
                             /\ RebuiltReceived(log, c.id) # None
                             /\ RebuiltSeen(log, c.id) = c.what
  BY <1>2, ReceiveAppends
<1>4. PICK id : id = e.id
  OBVIOUS
<1>5. /\ e.type = "inbound_verified" => RebuiltSeen(log, id) \in {None, e.what}
      /\ FromPeer(e) /\ e.type # "inbound_verified" => RebuiltSeen(log, id) = e.what
      /\ e.type = "inbound_accepted" => RebuiltReceived(log, id) = None
      /\ e.type = "acknowledgement_issued" =>
             LET R == RebuiltReceived(log, id) IN
             R # None /\ e.ack = [env |-> R.env, seq |-> R.seq]
  <2> HIDE DEF c
  <2> QED BY <1>2, <1>3, <1>4 DEF FromPeer
<1>6. Bound(Append(log, e))
  BY <1>0, <1>1, <1>4, <1>5, BoundAppended
<1>7. ReplayOK(Append(log, e))
  BY <1>0, <1>4, <1>5, ReplayAppended
<1> QED BY <1>6, <1>7

\* What the log shows of another call's message is not touched by a step.
LEMMA MessageTouched ==
    ASSUME TInv, CInv, RInv, NEW w \in Worker, Step(w)
    PROVE  /\ Bound(log') /\ ReplayOK(log')
           /\ \A id \in InId : call[w].key # <<"receive", id>> =>
                  /\ RebuiltReceived(log', id) = RebuiltReceived(log, id)
                  /\ RebuiltSeen(log', id) = RebuiltSeen(log, id)
           /\ \A id \in InId :
                  RebuiltReceived(log, id) # None /\ RebuiltReceived(log, id).out.ack # None
                  => RebuiltReceived(log', id) = RebuiltReceived(log, id)
<1>0. call[w] \in Call /\ CallOK(call[w]) /\ log \in Seq(Entry)
  BY DEF TInv, TypeOK
<1>1. CASE log' = log
  BY <1>1 DEF RInv
<1>2. ASSUME NEW e \in Appending(call[w]), log' = Append(log, e), Usable,
             NEW id \in InId, call[w].key # <<"receive", id>>
      PROVE  /\ RebuiltReceived(log', id) = RebuiltReceived(log, id)
             /\ RebuiltSeen(log', id) = RebuiltSeen(log, id)
  <2>1. ASSUME FromPeer(e), e.id = id PROVE FALSE
    <3>1. /\ Receiving(call[w])
          /\ \/ e = InboundVerified(call[w]) \/ e = Accepted(call[w]) \/ e = AckIssued(call[w])
      BY <1>0, <2>1, EntryOwner DEF FromPeer
    <3>2. e.id = call[w].id
      BY <3>1 DEF InboundVerified, Accepted, AckIssued, EntryOf
    <3> QED BY <1>2, <2>1, <3>1, <3>2, ReceiveKey
  <2>2. e \in Entry
    BY <1>0, Appendable
  <2> QED BY <1>0, <1>2, <2>1, <2>2, AppendedReplay DEF FromPeer
<1>3. ASSUME NEW e \in Appending(call[w]), log' = Append(log, e), Usable
      PROVE  /\ Bound(log') /\ ReplayOK(log')
             /\ \A id \in InId :
                  RebuiltReceived(log, id) # None /\ RebuiltReceived(log, id).out.ack # None
                  => RebuiltReceived(log', id) = RebuiltReceived(log, id)
  BY <1>3, BoundStep, ReceiptStands
<1> QED BY <1>1, <1>2, <1>3, StepFrame, StepAppends

LEMMA OtherReceives ==
    ASSUME TInv, CInv, RInv, NEW w \in Worker, Step(w),
           NEW v \in Worker, v # w, Receiving(call[v])
    PROVE  Receiving(call'[v]) /\ ReceiveHolds(call[v])'
<1> DEFINE c == call[v]
           id == c.id
<1>1. call'[v] = call[v]
  BY StepCalls DEF TInv, TypeOK
<1>2. id \in InId /\ c.key = <<"receive", id>> /\ call[w].key # <<"receive", id>>
  <2>1. id \in InId /\ c.key = <<"receive", id>> /\ c.key # None
    BY ReceiveKey
  <2> QED BY <2>1, OneCall
<1>3. CallOK(call[w]) /\ (call[w].id = id => ~ Receiving(call[w]))
  BY <1>2, ReceiveKey DEF TInv
<1>4. /\ RebuiltReceived(log', id) = RebuiltReceived(log, id)
      /\ RebuiltSeen(log', id) = RebuiltSeen(log, id)
  BY <1>2, MessageTouched
<1>5. Publish(w) \/ RecordAck(w) \/ RecordSeen(w) => Receiving(call[w])
  BY <1>3, KindOf DEF Publish, RecordAck, RecordSeen
<1>6. /\ index'.received[id] = index.received[id]
      /\ index'.seen[id] = index.seen[id]
  BY <1>2, <1>3, <1>5, IndexTouched
<1>7. ReceiveHolds(c)
  BY DEF RInv
<1> QED BY <1>1, <1>4, <1>6, <1>7 DEF ReceiveHolds

\* The record of a message with its receipt, field by field.
LEMMA AckedRecord ==
    ASSUME NEW c, c.rec \in ReceivedRecord, c.ref \in Nat
    PROVE  /\ AckedOf(c) =
                  [env |-> c.rec.env, seq |-> c.rec.seq,
                   out |-> ReceiveOut(c.rec.out.id, c.rec.out.dec, c.rec.out.why,
                                      [env |-> c.rec.env, seq |-> c.rec.seq], c.ref)]
           /\ AckedOf(c) # None /\ AckedOf(c).out.ack # None
<1>1. PICK q : q = c.rec
  OBVIOUS
<1>2. /\ q \in ReceivedRecord /\ q.out \in ReceiveResult
      /\ q = [env |-> q.env, seq |-> q.seq, out |-> q.out]
  BY <1>1 DEF ReceivedRecord
<1>3. PICK o : o = q.out
  OBVIOUS
<1>4. PICK ack : ack = [env |-> q.env, seq |-> q.seq]
  OBVIOUS
<1>5. PICK n : n = c.ref
  OBVIOUS
<1>6. o \in ReceiveResult /\ o.status = "accepted"
  BY <1>2, <1>3 DEF ReceiveResult
<1> DEFINE p == [o EXCEPT !.ack = ack, !.seq = n]
           x == ReceiveOut(o.id, o.dec, o.why, ack, n)
           Fields == {"id", "status", "dec", "why", "ack", "seq"}
<1>7. p = x
  <2>1. /\ p = [f \in Fields |-> p[f]]
        /\ p.id = o.id /\ p.status = "accepted" /\ p.dec = o.dec /\ p.why = o.why
        /\ p.ack = ack /\ p.seq = n
    BY <1>6 DEF ReceiveResult
  <2>2. /\ x = [f \in Fields |-> x[f]]
        /\ x.id = o.id /\ x.status = "accepted" /\ x.dec = o.dec /\ x.why = o.why
        /\ x.ack = ack /\ x.seq = n
    BY DEF ReceiveOut
  <2> HIDE DEF p, x
  <2>3. \A f \in Fields : p[f] = x[f]
    BY <2>1, <2>2
  <2> QED BY <2>1, <2>2, <2>3
<1>8. ack \in Receipt /\ ack # None
  BY <1>2, <1>4, AbsentAssumption DEF ReceivedRecord, Receipt
<1>9. x \in ReceiveResult
  BY <1>1, <1>5, <1>6, <1>8 DEF ReceiveOut, ReceiveResult
<1>10. x.ack = ack
  BY DEF ReceiveOut
<1> HIDE DEF p, x
<1>11. [q EXCEPT !.out = p] = [env |-> q.env, seq |-> q.seq, out |-> p]
  BY <1>2
<1>12. [env |-> q.env, seq |-> q.seq, out |-> x] \in ReceivedRecord
  BY <1>2, <1>9 DEF ReceivedRecord
<1>13. AckedOf(c) = [q EXCEPT !.out = p]
  BY <1>1, <1>3, <1>4, <1>5 DEF AckedOf, p
<1>14. AckedOf(c) = [env |-> q.env, seq |-> q.seq, out |-> x]
  BY <1>7, <1>11, <1>13
<1>15. [env |-> q.env, seq |-> q.seq, out |-> x].out.ack = ack
  BY <1>10
<1>16. AckedOf(c) # None /\ AckedOf(c).out.ack # None
  BY <1>8, <1>12, <1>14, <1>15, AbsentAssumption
<1>17. AckedOf(c) = [env |-> c.rec.env, seq |-> c.rec.seq,
                   out |-> ReceiveOut(c.rec.out.id, c.rec.out.dec, c.rec.out.why,
                                      [env |-> c.rec.env, seq |-> c.rec.seq], c.ref)]
  BY <1>1, <1>3, <1>4, <1>5, <1>14 DEF x
<1> QED BY <1>16, <1>17

\* What a step makes of the call's own message.
LEMMA OwnReceive ==
    ASSUME TInv, CInv, RInv, NEW w \in Worker, Step(w), Receiving(call'[w])
    PROVE  ReceiveHolds(call[w])'
<1> DEFINE c == call[w]
           d == call'[w]
           id == c.id
           x == index.received[id]
           s == index.seen[id]
<1>0. /\ call \in [Worker -> Call] /\ c \in Call /\ CallOK(c) /\ log \in Seq(Entry)
      /\ index \in Index
      /\ Receiving(c) => ReceiveHolds(c)
  BY DEF TInv, TypeOK, RInv
<1>1. d.pc # "idle" /\ d.dir = "inbound" /\ d.pc \in Receives
  BY ReceiveKey DEF Receiving
<1>2. CASE Decides(w)
  <2>1. /\ c.pc \in Evaluating /\ d.key = c.key /\ d.dir = c.dir /\ d.id = c.id
        /\ d.what = c.what /\ d.rec = c.rec /\ index' = index
        /\ d.pc \in (Evaluating \ {"scan"}) \cup {"release", "accept"}
    BY <1>2 DEF Decides
  <2>2. Receiving(c)
    BY <1>0, <1>1, <2>1, KindOf DEF Sending
  <2>3. x = None /\ s = c.what
    BY <1>0, <2>1, <2>2 DEF ReceiveHolds, Evaluating
  <2>4. d.pc \in Evaluating \cup {"accept"}
    BY <1>1, <2>1 DEF Receives
  <2> HIDE DEF c, d
  <2> QED BY <2>1, <2>3, <2>4 DEF ReceiveHolds, Evaluating, c, d
<1>3. CASE Verify(w)
  <2> DEFINE e == InboundVerified(c)
  <2>1. /\ c.pc = "verify" /\ index' = index /\ log' = Append(log, e)
        /\ d = [c EXCEPT !.pc = "verified"]
    BY <1>3, <1>0 DEF Verify, Commit
  <2>2. Receiving(c)
    BY <1>0, <2>1, KindOf
  <2>3. d.pc = "verified" /\ d.id = c.id /\ d.what = c.what
    <3> HIDE DEF c, d
    <3> QED BY <1>0, <2>1, MovedFields
  <2>4. e \in Appending(c) /\ e.type = "inbound_verified" /\ e.id = id /\ e.what = c.what
    BY <2>1 DEF Appending, InboundVerified, EntryOf
  <2>5. e \in Entry
    BY <1>0, <2>4, Appendable
  <2> HIDE DEF e
  <2>6. RebuiltSeen(log', id) = c.what
    BY <1>0, <2>1, <2>4, <2>5, AppendedReplay
  <2>7. x = None /\ s \in {None, c.what}
    BY <1>0, <2>1, <2>2 DEF ReceiveHolds
  <2> HIDE DEF c, d
  <2> QED BY <2>1, <2>3, <2>6, <2>7 DEF ReceiveHolds, Evaluating, c, d
<1>4. CASE RecordSeen(w)
  <2>1. /\ c.pc = "verified" /\ index' = [index EXCEPT !.seen[id] = c.what]
        /\ d = [c EXCEPT !.pc = "scan"]
    BY <1>4, <1>0 DEF RecordSeen, Moves
  <2>2. Receiving(c) /\ id \in InId
    BY <1>0, <2>1, KindOf, ReceiveKey
  <2>3. d.pc = "scan" /\ d.id = c.id /\ d.what = c.what
    <3> HIDE DEF c, d
    <3> QED BY <1>0, <2>1, MovedFields
  <2>4. x = None
    BY <1>0, <2>1, <2>2 DEF ReceiveHolds
  <2>5. index'.seen[id] = c.what /\ index'.received = index.received
    <3> HIDE DEF c
    <3> QED BY <1>0, <2>1, <2>2 DEF Index
  <2> HIDE DEF c, d
  <2> QED BY <2>3, <2>4, <2>5 DEF ReceiveHolds, Evaluating, c, d
<1>5. CASE Accept(w)
  <2> DEFINE e == Accepted(c)
  <2>1. /\ c.pc = "accept" /\ index' = index /\ log' = Append(log, e)
        /\ d = [c EXCEPT !.pc = "accepted", !.ref = NextSeq]
    BY <1>5, <1>0 DEF Accept, Commit
  <2>2. Receiving(c)
    BY <1>0, <2>1, KindOf
  <2>3. /\ d.pc = "accepted" /\ d.id = c.id /\ d.what = c.what /\ d.ref = Len(log) + 1
        /\ d.dec = c.dec /\ d.why = c.why
    <3> HIDE DEF c, d
    <3> QED BY <1>0, <2>1, MovedFields DEF NextSeq
  <2>4. /\ e \in Appending(c) /\ e.type = "inbound_accepted" /\ e.id = id /\ e.what = c.what
        /\ e.dec = c.dec /\ e.why = c.why
    BY <2>1 DEF Appending, Accepted, EntryOf
  <2>5. e \in Entry
    BY <1>0, <2>4, Appendable
  <2> HIDE DEF e
  <2>6. RebuiltReceived(log', id) =
            [env |-> c.what, seq |-> Len(log) + 1,
             out |-> ReceiveOut(id, c.dec, c.why, None, Len(log) + 1)]
    BY <1>0, <2>1, <2>4, <2>5, AppendedReplay
  <2>7. x = None /\ s = c.what
    BY <1>0, <2>1, <2>2 DEF ReceiveHolds
  <2>8. AcceptedOf(call[w])' = [env |-> c.what, seq |-> Len(log) + 1,
                                out |-> ReceiveOut(id, c.dec, c.why, None, Len(log) + 1)]
    <3> HIDE DEF c, d, id
    <3> QED BY <2>3 DEF AcceptedOf, ReceiveOut, d, id
  <2> HIDE DEF c, d
  <2> QED BY <2>1, <2>3, <2>6, <2>7, <2>8 DEF ReceiveHolds, Evaluating, c, d
<1>6. CASE Publish(w)
  <2> DEFINE rec == AcceptedOf(c)
  <2>1. /\ c.pc = "accepted"
        /\ index' = [index EXCEPT !.received[id] = rec,
               !.inbox = Append(@, [id |-> id, env |-> c.what, seq |-> c.ref])]
        /\ call' = [call EXCEPT ![w].pc = "ack", ![w].rec = rec]
    BY <1>6 DEF Publish, AcceptedOf
  <2>2. Receiving(c) /\ id \in InId
    BY <1>0, <2>1, KindOf, ReceiveKey
  <2>3. d = [c EXCEPT !.pc = "ack", !.rec = rec]
    BY <1>0, <2>1
  <2>4. rec.env = c.what /\ rec.out.ack = None
    BY DEF AcceptedOf, ReceiveOut
  <2> HIDE DEF rec
  <2>5. d.pc = "ack" /\ d.id = c.id /\ d.what = c.what /\ d.rec = rec
    <3> HIDE DEF c, d
    <3> QED BY <1>0, <2>3, MovedFields
  <2>6. index'.received[id] = rec
    <3> HIDE DEF c
    <3> QED BY <1>0, <2>1, <2>2 DEF Index
  <2> HIDE DEF c, d
  <2> QED BY <2>4, <2>5, <2>6 DEF ReceiveHolds, Evaluating, c, d
<1>7. CASE IssueAck(w)
  <2> DEFINE e == AckIssued(c)
             R == RebuiltReceived(log, id)
  <2>1. /\ c.pc = "ack" /\ index' = index /\ log' = Append(log, e) /\ Usable
        /\ d = [c EXCEPT !.pc = "acked", !.ref = NextSeq]
    BY <1>7, <1>0 DEF IssueAck, Commit
  <2>2. Receiving(c) /\ id \in InId
    BY <1>0, <2>1, KindOf, ReceiveKey
  <2>3. /\ d.pc = "acked" /\ d.id = c.id /\ d.what = c.what /\ d.ref = Len(log) + 1
        /\ d.rec = c.rec
    <3> HIDE DEF c, d
    <3> QED BY <1>0, <2>1, MovedFields DEF NextSeq
  <2>4. /\ e \in Appending(c) /\ e.type = "acknowledgement_issued" /\ e.id = id
        /\ e.ack = [env |-> c.rec.env, seq |-> c.rec.seq]
    BY <2>1 DEF Appending, AckIssued, EntryOf
  <2>5. e \in Entry
    BY <1>0, <2>4, Appendable
  <2>6. R = c.rec /\ c.rec \in ReceivedRecord /\ R # None
    BY <2>1, <2>2, ReceiveAppends
  <2>7. x = c.rec /\ c.rec.env = c.what /\ c.rec.out.ack = None
    BY <1>0, <2>1, <2>2 DEF ReceiveHolds
  <2>8. R.out.id = id
    <3>1. Bound(log) /\ \A i \in DOMAIN log : EntryOK(log[i])
      BY DEF RInv, TInv
    <3> HIDE DEF id
    <3> QED BY <1>0, <2>2, <2>6, <3>1, ReplayedMessage
  <2>9. Latest(At(log, "inbound_accepted", id)) # 0
    BY <2>6, Rebuilt
  <2> HIDE DEF e
  <2>10. RebuiltReceived(log', id) =
            [env |-> R.env, seq |-> R.seq,
             out |-> ReceiveOut(id, R.out.dec, R.out.why, e.ack, Len(log) + 1)]
    BY <1>0, <2>1, <2>4, <2>5, <2>9, AppendedReplay
  <2>11. AckedOf(call[w])' = [env |-> c.rec.env, seq |-> c.rec.seq,
                   out |-> ReceiveOut(c.rec.out.id, c.rec.out.dec, c.rec.out.why,
                                      [env |-> c.rec.env, seq |-> c.rec.seq], Len(log) + 1)]
    <3>1. d.ref \in Nat /\ d.rec \in ReceivedRecord
      BY <1>0, <2>3, <2>6
    <3>2. AckedOf(d) = [env |-> d.rec.env, seq |-> d.rec.seq,
                   out |-> ReceiveOut(d.rec.out.id, d.rec.out.dec, d.rec.out.why,
                                      [env |-> d.rec.env, seq |-> d.rec.seq], d.ref)]
      <4> HIDE DEF d
      <4> QED BY <3>1, AckedRecord
    <3>3. AckedOf(call[w])' = AckedOf(d)
      BY DEF AckedOf
    <3> HIDE DEF c, d
    <3> QED BY <2>3, <3>2, <3>3
  <2>12. RebuiltReceived(log', id) = AckedOf(call[w])'
    <3> HIDE DEF c, d, R
    <3> QED BY <2>4, <2>6, <2>8, <2>10, <2>11
  <2> HIDE DEF c, d
  <2> QED BY <2>1, <2>3, <2>7, <2>12 DEF ReceiveHolds, Evaluating, c, d
<1>8. CASE Quits(w) \/ RecordFinal(w) \/ RecordAck(w) \/ RecordConfirm(w) \/ InboxReturn(w)
  <2>1. Finish(w)
    BY <1>8, Moved DEF Quits
  <2>2. d = Idle
    BY <1>0, <2>1 DEF Finish
  <2> QED BY <1>1, <2>2, IdleOK
<1>9. CASE (ConfirmClaim(w) /\ ~ Finish(w)) \/ AppendConfirm(w)
  <2>1. d.pc \in {"confirm", "confirmed"}
    BY <1>9, Moved
  <2> QED BY <1>1, <2>1 DEF Receives, Evaluating
<1>10. CASE Submit(w) \/ RecordRequest(w) \/ (Block(w) /\ c.dir = "outbound") \/ Release(w)
  <2>1. c.pc \in {"submit", "submitted", "deny", "release"}
        /\ (c.pc = "deny" => c.dir = "outbound")
    BY <1>10 DEF Submit, RecordRequest, Block, Release
  <2>2. Sending(c)
    BY <1>0, <2>1, KindOf DEF Evaluating, Receiving
  <2>3. c.dir = "outbound"
    BY <2>2, SendKey
  <2>4. ASSUME NEW n, NEW i, d = [c EXCEPT !.pc = "submitted", !.id = i, !.ref = n] PROVE FALSE
    <3>1. d.dir = c.dir
      <4> HIDE DEF c, d
      <4> QED BY <1>0, <2>4 DEF Call
    <3> QED BY <1>1, <2>3, <3>1
  <2>5. ASSUME NEW rec, d = [c EXCEPT !.pc = "scan", !.rec = rec] PROVE FALSE
    <3>1. d.dir = c.dir
      <4> HIDE DEF c, d
      <4> QED BY <1>0, <2>5, MovedFields
    <3> QED BY <1>1, <2>3, <3>1
  <2>6. ASSUME NEW n, d = [c EXCEPT !.pc = "denied", !.ref = n] PROVE FALSE
    <3>1. d.dir = c.dir
      <4> HIDE DEF c, d
      <4> QED BY <1>0, <2>6, MovedFields
    <3> QED BY <1>1, <2>3, <3>1
  <2>7. ASSUME NEW n, NEW env, d = [c EXCEPT !.pc = "released", !.ref = n, !.what = env]
        PROVE FALSE
    <3>1. d.dir = c.dir
      <4> HIDE DEF c, d
      <4> QED BY <1>0, <2>7 DEF Call
    <3> QED BY <1>1, <2>3, <3>1
  <2>8. Submit(w) => FALSE
    BY <1>0, <2>4 DEF Submit, Commit
  <2>9. RecordRequest(w) => \E rec : d = [c EXCEPT !.pc = "scan", !.rec = rec]
    <3>1. ASSUME NEW rec, call' = [call EXCEPT ![w].pc = "scan", ![w].rec = rec]
          PROVE  d = [c EXCEPT !.pc = "scan", !.rec = rec]
      BY <1>0, <3>1
    <3> QED BY <3>1 DEF RecordRequest
  <2>10. (Block(w) /\ c.dir = "outbound") => d = [c EXCEPT !.pc = "denied", !.ref = NextSeq]
    BY <1>0 DEF Block
  <2>11. Release(w) => FALSE
    BY <1>0, <2>7 DEF Release, Commit
  <2> QED BY <1>10, <2>5, <2>6, <2>8, <2>9, <2>10, <2>11
<1> QED
  BY <1>2, <1>3, <1>4, <1>5, <1>6, <1>7, <1>8, <1>9, <1>10, StepKinds

LEMMA AppendedSet ==
    ASSUME NEW S, NEW q \in Seq(S), NEW e \in S
    PROVE  ToSet(Append(q, e)) = ToSet(q) \cup {e}
<1>1. /\ DOMAIN Append(q, e) = DOMAIN q \cup {Len(q) + 1}
      /\ Append(q, e)[Len(q) + 1] = e
      /\ \A i \in DOMAIN q : Append(q, e)[i] = q[i]
  OBVIOUS
<1> QED BY <1>1 DEF ToSet

LEMMA AppendedShown ==
    ASSUME NEW l \in Seq(Entry), NEW e \in Entry
    PROVE  Shown(Append(l, e)) =
               IF e.type = "inbound_accepted"
               THEN Shown(l) \cup {[id |-> e.id, env |-> e.what, seq |-> Len(l) + 1]}
               ELSE Shown(l)
<1> DEFINE m == Append(l, e)
           n == Len(l) + 1
           View(i) == [id |-> l[i].id, env |-> l[i].what, seq |-> i]
           ViewM(i) == [id |-> m[i].id, env |-> m[i].what, seq |-> i]
<1>1. /\ m[n] = e /\ \A i \in 1..Len(l) : m[i] = l[i]
  BY Appended
<1>2. /\ Acceptances(m) = IF e.type = "inbound_accepted"
                          THEN Acceptances(l) \cup {n} ELSE Acceptances(l)
      /\ \A i \in Acceptances(l) : i \in 1..Len(l)
  BY AppendedPositions, PositionsWithin
<1>3. \A i \in Acceptances(l) : ViewM(i) = View(i)
  BY <1>1, <1>2
<1>4. ViewM(n) = [id |-> e.id, env |-> e.what, seq |-> n]
  BY <1>1
<1>5. Shown(m) = {ViewM(i) : i \in Acceptances(m)} /\ Shown(l) = {View(i) : i \in Acceptances(l)}
  BY DEF Shown
<1> HIDE DEF m, n, View, ViewM
<1>6. {ViewM(i) : i \in Acceptances(l)} = {View(i) : i \in Acceptances(l)}
  BY <1>3
<1>7. {ViewM(i) : i \in Acceptances(l) \cup {n}}
          = {ViewM(i) : i \in Acceptances(l)} \cup {ViewM(n)}
  OBVIOUS
<1> QED BY <1>2, <1>4, <1>5, <1>6, <1>7 DEF m, n

\* The inbox, or what is about to enter it, grows by an acceptance only.
LEMMA StepInbox ==
    ASSUME TInv, RInv, NEW w \in Worker, Step(w)
    PROVE  InboxShown'
<1> DEFINE c == call[w]
           d == call'[w]
           Seen(k) == [id |-> k.id, env |-> k.what, seq |-> k.ref]
           Others == {Seen(call[v]) : v \in {u \in Worker \ {w} : call[u].pc = "accepted"}}
<1>0. /\ call \in [Worker -> Call] /\ call' \in [Worker -> Call]
      /\ c \in Call /\ CallOK(c) /\ log \in Seq(Entry)
      /\ index \in Index /\ InboxShown
      /\ \A v \in Worker \ {w} : call'[v] = call[v]
  <2>1. call' \in [Worker -> Call]
    BY NextCalls DEF Next
  <2>2. \A v \in Worker \ {w} : call'[v] = call[v]
    BY StepCalls DEF TInv, TypeOK
  <2> QED BY <2>1, <2>2 DEF TInv, TypeOK, RInv
<1>1. /\ Unpublished = Others \cup (IF c.pc = "accepted" THEN {Seen(c)} ELSE {})
      /\ Unpublished' = Others \cup (IF d.pc = "accepted" THEN {Seen(d)} ELSE {})
  <2>1. Unpublished = {Seen(call[v]) : v \in {u \in Worker : call[u].pc = "accepted"}}
    BY DEF Unpublished
  <2>2. Unpublished' = {Seen(call'[v]) : v \in {u \in Worker : call'[u].pc = "accepted"}}
    BY DEF Unpublished
  <2> HIDE DEF Seen
  <2>3. Unpublished = Others \cup (IF c.pc = "accepted" THEN {Seen(c)} ELSE {})
    BY <2>1
  <2>4. \A v \in Worker \ {w} : Seen(call'[v]) = Seen(call[v])
    BY <1>0
  <2>5. Unpublished' = Others \cup (IF d.pc = "accepted" THEN {Seen(d)} ELSE {})
    BY <1>0, <2>2, <2>4
  <2> QED BY <2>3, <2>5
<1> SUFFICES ASSUME logState' = "open"
             PROVE  Shown(log') = ToSet(index'.inbox) \cup Unpublished'
  BY DEF InboxShown
<1>2. Shown(log) = ToSet(index.inbox) \cup Unpublished
  BY <1>0, StepFrame DEF InboxShown
<1> HIDE DEF Seen, Others
<1>3. CASE Accept(w)
  <2> DEFINE e == Accepted(c)
  <2>1. /\ c.pc = "accept" /\ index' = index /\ log' = Append(log, e)
        /\ d = [c EXCEPT !.pc = "accepted", !.ref = NextSeq]
    BY <1>3, <1>0 DEF Accept, Commit
  <2>2. /\ d.pc = "accepted" /\ d.id = c.id /\ d.what = c.what /\ d.ref = Len(log) + 1
    <3> HIDE DEF c, d
    <3> QED BY <1>0, <2>1, MovedFields DEF NextSeq
  <2>3. /\ e \in Appending(c) /\ e.type = "inbound_accepted" /\ e.id = c.id
        /\ e.what = c.what
    BY <2>1 DEF Appending, Accepted, EntryOf
  <2>4. e \in Entry
    BY <1>0, <2>3, Appendable
  <2> HIDE DEF e
  <2>5. Shown(log') = Shown(log) \cup {[id |-> e.id, env |-> e.what, seq |-> Len(log) + 1]}
    BY <1>0, <2>1, <2>3, <2>4, AppendedShown
  <2>6. Seen(d) = [id |-> e.id, env |-> e.what, seq |-> Len(log) + 1]
    BY <2>2, <2>3 DEF Seen
  <2> QED BY <1>1, <1>2, <2>1, <2>2, <2>5, <2>6
<1>4. CASE ~ Accept(w)
  <2>1. Shown(log') = Shown(log)
    <3>1. CASE log' = log
      BY <3>1
    <3>2. CASE log' # log
      <4>1. PICK e \in Appending(c) : log' = Append(log, e)
        BY <3>2, StepAppends
      <4>2. ASSUME e.type = "inbound_accepted" PROVE FALSE
        <5>1. c.pc = "accept"
          BY <1>0, <4>2, EntryOwner
        <5>2. AppendFails(w)
          BY <1>4, <5>1, Step(w)
             DEF Step, Submit, RecordRequest, DeterministicGuard, ModelGuard, GuardFailed,
                 Block, CheckApproval, SavePending, SavePendingFails, ApprovalRequired,
                 ConsumeApproval, Release, RecordFinal, Verify, RecordSeen, Publish,
                 IssueAck, RecordAck, ConfirmClaim, AppendConfirm, RecordConfirm, InboxReturn
        <5> QED BY <3>2, <5>2 DEF AppendFails
      <4>3. e \in Entry
        BY <1>0, <4>1, Appendable
      <4> QED BY <1>0, <4>1, <4>2, <4>3, AppendedShown
    <3> QED BY <3>1, <3>2
  <2>2. d.pc # "accepted"
    BY <1>0, <1>4, StepGoes
  <2>3. CASE Publish(w)
    <3> DEFINE view == [id |-> c.id, env |-> c.what, seq |-> c.ref]
    <3>1. /\ c.pc = "accepted"
          /\ index' = [index EXCEPT !.received[c.id] = AcceptedOf(c),
                                    !.inbox = Append(@, view)]
      BY <2>3 DEF Publish, AcceptedOf
    <3>2. view \in Message
      <4>1. Receiving(c)
        BY <1>0, <3>1, KindOf
      <4>2. c.id \in InId /\ c.what \in Inbound /\ c.ref \in Nat
        BY <1>0, <4>1, ReceiveKey DEF Call
      <4> QED BY <4>2 DEF Message
    <3>3. index'.inbox = Append(index.inbox, view) /\ index.inbox \in Seq(Message)
      <4> HIDE DEF c, view
      <4> QED BY <1>0, <3>1 DEF Index
    <3>4. view = Seen(c)
      BY DEF Seen
    <3> HIDE DEF view
    <3>5. ToSet(index'.inbox) = ToSet(index.inbox) \cup {view}
      BY <3>2, <3>3, AppendedSet
    <3> QED BY <1>1, <1>2, <2>1, <2>2, <3>1, <3>4, <3>5
  <2>4. CASE ~ Publish(w)
    <3>1. index'.inbox = index.inbox
      BY <2>4, IndexTouched
    <3>2. c.pc # "accepted"
      BY <2>4, Step(w)
         DEF Step, Submit, RecordRequest, DeterministicGuard, ModelGuard, GuardFailed,
             Block, CheckApproval, SavePending, SavePendingFails, ApprovalRequired,
             ConsumeApproval, Release, RecordFinal, Verify, RecordSeen, Accept,
             IssueAck, RecordAck, ConfirmClaim, AppendConfirm, RecordConfirm, InboxReturn,
             AppendFails, Writing
    <3> QED BY <1>1, <1>2, <2>1, <2>2, <3>1, <3>2
  <2> QED BY <2>3, <2>4
<1> QED BY <1>3, <1>4

LEMMA StepRInv ==
    ASSUME TInv, CInv, RInv, NEW w \in Worker, Step(w)
    PROVE  RInv'
<1> DEFINE c == call[w]
           d == call'[w]
<1>0. /\ call \in [Worker -> Call] /\ call' \in [Worker -> Call]
      /\ c \in Call /\ CallOK(c) /\ log \in Seq(Entry)
      /\ index \in Index /\ index' \in Index
      /\ ReceivedShown /\ SeenShown /\ AcksShown /\ ReceiptsStand
      /\ Receiving(c) => ReceiveHolds(c)
      /\ \A v \in Worker \ {w} : call'[v] = call[v]
  <2>1. [Next]_vars
    BY DEF Next
  <2>2. call' \in [Worker -> Call] /\ index' \in Index
    BY <2>1, NextCalls, NextIndex
  <2>3. \A v \in Worker \ {w} : call'[v] = call[v]
    BY StepCalls DEF TInv, TypeOK
  <2> QED BY <2>2, <2>3 DEF TInv, TypeOK, RInv
<1>1. logState' = "open" => logState = "open"
  BY StepFrame
<1>2. \A v \in Worker : Receiving(call'[v]) => ReceiveHolds(call[v])'
  <2>1. ASSUME NEW v \in Worker, Receiving(call'[v]) PROVE ReceiveHolds(call[v])'
    <3>1. CASE v = w
      BY <2>1, <3>1, OwnReceive
    <3>2. CASE v # w
      <4>1. Receiving(call[v])
        BY <1>0, <2>1, <3>2
      <4> QED BY <3>2, <4>1, OtherReceives
    <3> QED BY <3>1, <3>2
  <2> QED BY <2>1
\* The record with its receipt is what the log is replayed to.
<1>3. ASSUME RecordAck(w)
      PROVE  /\ Receiving(c) /\ c.id \in InId /\ log' = log
             /\ index'.received[c.id] = RebuiltReceived(log, c.id)
             /\ answers' = answers \cup {[key |-> <<"receive", c.id>>,
                                          out |-> RebuiltReceived(log, c.id).out]}
             /\ RebuiltReceived(log, c.id) # None
             /\ RebuiltReceived(log, c.id).out.ack # None
  <2> DEFINE out == [c.rec.out EXCEPT !.ack = [env |-> c.rec.env, seq |-> c.rec.seq],
                                      !.seq = c.ref]
             rec == [c.rec EXCEPT !.out = out]
  <2>1. /\ c.pc = "acked" /\ log' = log
        /\ index' = [index EXCEPT !.received[c.id] = rec]
        /\ answers' = answers \cup {[key |-> c.key, out |-> out]}
    BY <1>3 DEF RecordAck, Answer
  <2>2. Receiving(c) /\ c.id \in InId /\ c.key = <<"receive", c.id>>
    BY <1>0, <2>1, KindOf, ReceiveKey
  <2>3. c.rec \in ReceivedRecord /\ c.ref \in Nat
    BY <1>0, <2>1, <2>2 DEF Receiving, Call
  <2>4. rec = AckedOf(c)
    BY DEF AckedOf
  <2>5. rec.out = out
    <3> HIDE DEF out
    <3> QED BY <2>3 DEF ReceivedRecord
  <2> HIDE DEF rec, out
  <2>6. RebuiltReceived(log, c.id) = rec
    BY <1>0, <2>1, <2>2, <2>4 DEF ReceiveHolds
  <2>7. rec # None /\ rec.out.ack # None
    <3> HIDE DEF c
    <3> QED BY <2>3, <2>4, AckedRecord
  <2>8. index'.received[c.id] = rec
    <3> HIDE DEF c
    <3> QED BY <1>0, <2>1, <2>2 DEF Index
  <2> QED BY <2>1, <2>2, <2>5, <2>6, <2>7, <2>8
\* What the pc of a receiving call leaves of the kinds of steps.
<1>4. ASSUME Receiving(c)
      PROVE  \/ (Quits(w) \/ Decides(w)) /\ ~ Trails(c) /\ c.pc # "verified"
             \/ Verify(w) \/ RecordSeen(w) \/ Accept(w) \/ Publish(w)
             \/ IssueAck(w) \/ RecordAck(w)
  <2>1. c.pc \in Receives /\ c.dir = "inbound"
    BY <1>4 DEF Receiving
  <2>2. ~ (\/ Submit(w) \/ RecordRequest(w) \/ (Block(w) /\ c.dir = "outbound") \/ Release(w)
           \/ RecordFinal(w) \/ (ConfirmClaim(w) /\ ~ Finish(w)) \/ AppendConfirm(w)
           \/ RecordConfirm(w) \/ InboxReturn(w))
    BY <2>1 DEF Submit, RecordRequest, Release, RecordFinal, ConfirmClaim,
           AppendConfirm, RecordConfirm, InboxReturn, Receives, Evaluating
  <2>3. Quits(w) \/ Decides(w) => ~ Trails(c) /\ c.pc # "verified"
    BY DEF Quits, Decides, Trails, Writing, Evaluating
  <2> QED BY <2>2, <2>3, StepKinds
<1>5. ASSUME Quits(w) \/ Decides(w), logState' = "open"
      PROVE  /\ index' = index
             /\ \A id : RebuiltReceived(log', id) = RebuiltReceived(log, id)
             /\ \A id : RebuiltSeen(log', id) = RebuiltSeen(log, id)
  <2>1. \/ log' = log
        \/ \E e \in Appending(c) : Quiet(e) /\ log' = Append(log, e)
    BY <1>5 DEF Quits, Decides
  <2>2. index' = index
    BY <1>5 DEF Quits, Decides
  <2> QED BY <1>0, <2>1, <2>2, QuietReplay, Appendable
<1>6. /\ Verify(w) => /\ log' = Append(log, InboundVerified(c)) /\ c.pc = "verify"
                      /\ InboundVerified(c) \in Appending(c) /\ index' = index
                      /\ InboundVerified(c).type = "inbound_verified"
                      /\ d.pc = "verified" /\ d.key = c.key
      /\ Accept(w) => /\ log' = Append(log, Accepted(c)) /\ c.pc = "accept"
                      /\ Accepted(c) \in Appending(c) /\ index' = index
                      /\ Accepted(c).type = "inbound_accepted"
                      /\ d.pc = "accepted" /\ d.key = c.key
      /\ IssueAck(w) => /\ log' = Append(log, AckIssued(c)) /\ c.pc = "ack"
                        /\ AckIssued(c) \in Appending(c) /\ index' = index
                        /\ AckIssued(c).type = "acknowledgement_issued"
                        /\ d.pc = "acked" /\ d.key = c.key
  <2>1. /\ Verify(w) => /\ log' = Append(log, InboundVerified(c)) /\ c.pc = "verify"
                        /\ index' = index
        /\ Accept(w) => /\ log' = Append(log, Accepted(c)) /\ c.pc = "accept"
                        /\ index' = index
        /\ IssueAck(w) => /\ log' = Append(log, AckIssued(c)) /\ c.pc = "ack"
                          /\ index' = index
    BY DEF Verify, Accept, IssueAck, Commit
  <2>2. /\ InboundVerified(c).type = "inbound_verified" /\ Accepted(c).type = "inbound_accepted"
        /\ AckIssued(c).type = "acknowledgement_issued"
    BY DEF InboundVerified, Accepted, AckIssued, EntryOf
  <2>3. /\ c.pc = "verify" => InboundVerified(c) \in Appending(c)
        /\ c.pc = "accept" => Accepted(c) \in Appending(c)
        /\ c.pc = "ack" => AckIssued(c) \in Appending(c)
    BY DEF Appending
  <2>0. c \in Call
    BY <1>0
  <2>4. Verify(w) => d = [c EXCEPT !.pc = "verified"] /\ d.pc = "verified"
    BY Moved
  <2>5. Accept(w) => d = [c EXCEPT !.pc = "accepted", !.ref = NextSeq] /\ d.pc = "accepted"
    BY Moved
  <2>6. IssueAck(w) => d = [c EXCEPT !.pc = "acked", !.ref = NextSeq] /\ d.pc = "acked"
    BY Moved
  <2> HIDE DEF c, d
  <2>7. ASSUME Verify(w) PROVE d.key = c.key
    <3>1. d = [c EXCEPT !.pc = "verified"]
      BY <2>4, <2>7
    <3> QED BY <2>0, <3>1, MovedFields
  <2>8. ASSUME Accept(w) PROVE d.key = c.key
    <3>1. d = [c EXCEPT !.pc = "accepted", !.ref = NextSeq]
      BY <2>5, <2>8
    <3> QED BY <2>0, <3>1, MovedFields
  <2>9. ASSUME IssueAck(w) PROVE d.key = c.key
    <3>1. d = [c EXCEPT !.pc = "acked", !.ref = NextSeq]
      BY <2>6, <2>9
    <3> QED BY <2>0, <3>1, MovedFields
  <2> QED BY <2>1, <2>2, <2>3, <2>4, <2>5, <2>6, <2>7, <2>8, <2>9
<1>7. ReceivedShown'
  <2> SUFFICES ASSUME logState' = "open", NEW id \in InId
               PROVE  \/ index'.received[id] = RebuiltReceived(log', id)
                      \/ \E v \in Worker : call'[v].key = <<"receive", id>> /\ Trails(call'[v])
    BY DEF ReceivedShown, Trails
  <2>0. \/ index.received[id] = RebuiltReceived(log, id)
        \/ \E v \in Worker : call[v].key = <<"receive", id>> /\ Trails(call[v])
    BY <1>0, <1>1 DEF ReceivedShown
  <2>1. CASE c.key # <<"receive", id>>
    <3>1. index'.received[id] = index.received[id]
      <4>1. Publish(w) \/ RecordAck(w) => Receiving(c)
        BY <1>0, KindOf DEF Publish, RecordAck
      <4> QED BY <2>1, <4>1, IndexTouched, ReceiveKey
    <3>2. RebuiltReceived(log', id) = RebuiltReceived(log, id)
      BY <2>1, MessageTouched
    <3>3. ASSUME NEW v \in Worker, call[v].key = <<"receive", id>>, Trails(call[v])
          PROVE  call'[v].key = <<"receive", id>> /\ Trails(call'[v])
      BY <1>0, <2>1, <3>3
    <3> QED BY <2>0, <3>1, <3>2, <3>3
  <2>2. CASE c.key = <<"receive", id>>
    <3>0. Receiving(c) /\ c.id = id
      BY <1>0, <2>2, MessageKey
    <3>1. ~ Trails(c) => RebuiltReceived(log, id) = index.received[id]
      BY <1>1, <3>0, MessageSettled
    <3>2. CASE (Quits(w) \/ Decides(w)) /\ ~ Trails(c)
      BY <1>5, <3>1, <3>2
    <3>3. CASE Verify(w)
      <4>1. PICK e \in Appending(c) : /\ log' = Append(log, e) /\ e.type = "inbound_verified"
                                      /\ index' = index /\ c.pc = "verify"
        BY <1>6, <3>3
      <4>2. e \in Entry
        BY <1>0, <4>1, Appendable
      <4>3. RebuiltReceived(log', id) = RebuiltReceived(log, id)
        BY <1>0, <4>1, <4>2, AppendedReplay
      <4> QED BY <3>1, <4>1, <4>3 DEF Trails
    <3>4. CASE RecordSeen(w)
      <4>1. log' = log /\ c.pc = "verified"
        BY <3>4 DEF RecordSeen
      <4>2. index'.received[id] = index.received[id]
        BY <4>1, IndexTouched DEF Publish, RecordAck
      <4> QED BY <3>1, <4>1, <4>2 DEF Trails
    <3>5. CASE Accept(w) \/ IssueAck(w)
      BY <1>6, <2>2, <3>5 DEF Trails
    <3>6. CASE Publish(w)
      <4>1. /\ c.pc = "accepted" /\ log' = log
            /\ index' = [index EXCEPT !.received[id] = AcceptedOf(c),
                !.inbox = Append(@, [id |-> id, env |-> c.what, seq |-> c.ref])]
        BY <3>0, <3>6 DEF Publish, AcceptedOf
      <4>2. index'.received[id] = AcceptedOf(c)
        <5> HIDE DEF c
        <5> QED BY <1>0, <4>1 DEF Index
      <4> QED BY <1>0, <3>0, <4>1, <4>2 DEF ReceiveHolds
    <3>7. CASE RecordAck(w)
      BY <1>3, <3>0, <3>7
    <3> QED BY <1>4, <3>0, <3>2, <3>3, <3>4, <3>5, <3>6, <3>7
  <2> QED BY <2>1, <2>2
<1>8. SeenShown'
  <2> SUFFICES ASSUME logState' = "open", NEW id \in InId
               PROVE  \/ index'.seen[id] = RebuiltSeen(log', id)
                      \/ \E v \in Worker : /\ call'[v].key = <<"receive", id>>
                                           /\ call'[v].pc = "verified"
    BY DEF SeenShown
  <2>0. \/ index.seen[id] = RebuiltSeen(log, id)
        \/ \E v \in Worker : call[v].key = <<"receive", id>> /\ call[v].pc = "verified"
    BY <1>0, <1>1 DEF SeenShown
  <2>1. CASE c.key # <<"receive", id>>
    <3>1. index'.seen[id] = index.seen[id]
      <4>1. RecordSeen(w) => Receiving(c)
        BY <1>0, KindOf DEF RecordSeen
      <4> QED BY <2>1, <4>1, IndexTouched, ReceiveKey
    <3>2. RebuiltSeen(log', id) = RebuiltSeen(log, id)
      BY <2>1, MessageTouched
    <3>3. ASSUME NEW v \in Worker, call[v].key = <<"receive", id>>, call[v].pc = "verified"
          PROVE  call'[v].key = <<"receive", id>> /\ call'[v].pc = "verified"
      BY <1>0, <2>1, <3>3
    <3> QED BY <2>0, <3>1, <3>2, <3>3
  <2>2. CASE c.key = <<"receive", id>>
    <3>0. Receiving(c) /\ c.id = id
      BY <1>0, <2>2, MessageKey
    <3>1. c.pc # "verified" => RebuiltSeen(log, id) = index.seen[id]
      BY <1>1, <3>0, MessageSettled
    <3>2. CASE (Quits(w) \/ Decides(w)) /\ c.pc # "verified"
      BY <1>5, <3>1, <3>2
    <3>3. CASE Verify(w)
      BY <1>6, <2>2, <3>3
    <3>4. CASE RecordSeen(w)
      <4>1. /\ log' = log /\ c.pc = "verified"
            /\ index' = [index EXCEPT !.seen[id] = c.what]
        BY <3>0, <3>4 DEF RecordSeen
      <4>2. index'.seen[id] = c.what
        <5> HIDE DEF c
        <5> QED BY <1>0, <4>1 DEF Index
      <4> QED BY <1>0, <3>0, <4>1, <4>2 DEF ReceiveHolds
    <3>5. CASE Accept(w) \/ IssueAck(w)
      <4>1. PICK e \in Appending(c) : /\ log' = Append(log, e) /\ e.type # "inbound_verified"
                                      /\ index' = index /\ c.pc # "verified"
        BY <1>6, <3>5
      <4>2. e \in Entry
        BY <1>0, <4>1, Appendable
      <4>3. RebuiltSeen(log', id) = RebuiltSeen(log, id)
        BY <1>0, <4>1, <4>2, AppendedReplay
      <4> QED BY <3>1, <4>1, <4>3
    <3>6. CASE Publish(w) \/ RecordAck(w)
      <4>1. log' = log /\ c.pc # "verified"
        BY <3>6 DEF Publish, RecordAck
      <4>2. index'.seen[id] = index.seen[id]
        BY <4>1, IndexTouched DEF RecordSeen
      <4> QED BY <3>1, <4>1, <4>2
    <3> QED BY <1>4, <3>0, <3>2, <3>3, <3>4, <3>5, <3>6
  <2> QED BY <2>1, <2>2
<1>9. AcksShown'
  <2> SUFFICES ASSUME NEW id \in InId, index'.received[id] # None,
                      index'.received[id].out.ack # None
               PROVE  index'.received[id] = RebuiltReceived(log', id)
    BY DEF AcksShown
  <2>1. CASE index'.received[id] = index.received[id]
    <3>1. RebuiltReceived(log, id) = index.received[id]
      BY <1>0, <2>1 DEF AcksShown
    <3> QED BY <2>1, <3>1, MessageTouched
  <2>2. CASE index'.received[id] # index.received[id]
    <3>1. (Publish(w) \/ RecordAck(w)) /\ c.id = id
      BY <2>2, IndexTouched
    <3>2. CASE RecordAck(w)
      BY <1>3, <3>1, <3>2
    <3>3. CASE Publish(w)
      <4>1. index' = [index EXCEPT !.received[id] = AcceptedOf(c),
                !.inbox = Append(@, [id |-> id, env |-> c.what, seq |-> c.ref])]
        BY <3>1, <3>3 DEF Publish, AcceptedOf
      <4>2. index'.received[id] = AcceptedOf(c)
        <5> HIDE DEF c
        <5> QED BY <1>0, <4>1 DEF Index
      <4>3. AcceptedOf(c).out.ack = None
        BY DEF AcceptedOf, ReceiveOut
      <4> QED BY <4>2, <4>3
    <3> QED BY <3>1, <3>2, <3>3
  <2> QED BY <2>1, <2>2
<1>10. ReceiptsStand'
  <2> SUFFICES ASSUME NEW a \in answers'
               PROVE  /\ a.key[1] \in {"send", "receive"}
                      /\ a.key[1] = "receive" =>
                             LET R == RebuiltReceived(log', a.key[2]) IN
                             R # None /\ R.out.ack # None /\ R.out = a.out
    BY DEF ReceiptsStand
  <2>0. CASE a \in answers /\ a.key[1] # "receive"
    BY <1>0, <2>0 DEF ReceiptsStand
  <2>1. CASE a \in answers /\ a.key[1] = "receive"
    <3>1. LET R == RebuiltReceived(log, a.key[2]) IN
          R # None /\ R.out.ack # None /\ R.out = a.out
      BY <1>0, <2>1 DEF ReceiptsStand
    <3>2. a.key[2] \in InId
      <4>1. a.key \in Key
        BY <2>1 DEF TInv, TypeOK
      <4> QED BY <2>1, <4>1 DEF Key
    <3>3. RebuiltReceived(log', a.key[2]) = RebuiltReceived(log, a.key[2])
      BY <3>1, <3>2, MessageTouched
    <3> QED BY <2>1, <3>1, <3>3
  <2>2. CASE a \notin answers
    <3>1. RecordFinal(w) \/ RecordAck(w)
      BY <2>2, StepFrame
    <3>2. CASE RecordAck(w)
      <4>1. a = [key |-> <<"receive", c.id>>, out |-> RebuiltReceived(log, c.id).out]
        BY <1>3, <2>2, <3>2
      <4>2. a.key[2] = c.id /\ a.out = RebuiltReceived(log, c.id).out
        BY <4>1
      <4>3. a.key[1] = "receive"
        BY <4>1
      <4> QED BY <1>3, <3>2, <4>2, <4>3
    <3>3. CASE RecordFinal(w)
      <4>1. a.key = c.key /\ c.pc \in {"released", "denied"}
        BY <2>2, <3>3 DEF RecordFinal, Answer
      <4>2. PICK r \in Request : c.key = <<"send", r>>
        BY <1>0, <4>1, SendKey, KindOf
      <4>3. a.key[1] = "send"
        BY <4>1, <4>2
      <4> QED BY <4>3
    <3> QED BY <3>1, <3>2, <3>3
  <2> QED BY <2>0, <2>1, <2>2
<1>11. Bound(log') /\ ReplayOK(log')
  BY MessageTouched
<1>12. InboxShown'
  BY StepInbox
<1> QED BY <1>2, <1>7, <1>8, <1>9, <1>10, <1>11, <1>12 DEF RInv

LEMMA InitRInv == Init => RInv
<1> SUFFICES ASSUME Init PROVE RInv
  OBVIOUS
<1>1. log = << >> /\ logState # "open" /\ answers = {}
  BY DEF Init
<1>2. Bound(log) /\ ReplayOK(log)
  BY <1>1 DEF Bound, ReplayOK
<1>3. \A w \in Worker : ~ Receiving(call[w])
  BY IdleOK DEF Init, Receiving, Receives, Evaluating
<1>4. \A id \in InId : index.received[id] = None
  BY EmptyReplay DEF Init, Rebuild
<1> QED
  BY <1>1, <1>2, <1>3, <1>4
     DEF RInv, ReceivedShown, SeenShown, AcksShown, ReceiptsStand, InboxShown

\* The start of a call.
LEMMA BeginsRInv ==
    ASSUME TInv, RInv, NEW w \in Worker, Begins(w)
    PROVE  RInv'
<1>0. /\ call \in [Worker -> Call] /\ index \in Index /\ call[w] = Idle
      /\ \A v \in Worker \ {w} : call'[v] = call[v]
      /\ call'[w].pc # "accepted"
      /\ log' = log /\ logState' = logState /\ index' = index /\ answers' = answers
  BY StartGoes, BeginsKeeps DEF TInv, TypeOK, Begins
<1>1. ASSUME NEW v \in Worker, Receiving(call'[v]) PROVE ReceiveHolds(call[v])'
  <2>1. CASE v # w
    <3>1. call'[v] = call[v] /\ ReceiveHolds(call[v])
      BY <1>0, <1>1, <2>1 DEF RInv
    <3> QED BY <1>0, <3>1 DEF ReceiveHolds
  <2>2. CASE v = w
    <3>1. PICK e \in Inbound : ReceiveClaim(w, e)
      <4>1. call'[w].dir = "inbound" /\ call'[w].pc \in Receives
        BY <1>1, <2>2, ReceiveKey DEF Receiving
      <4>2. ASSUME NEW r \in Request, NEW t \in Text, SendClaim(w, r, t) PROVE FALSE
        <5>1. PICK pc, id, rec :
                  call'[w] = [Idle EXCEPT !.pc = pc, !.key = <<"send", r>>,
                           !.dir = "outbound", !.what = t, !.id = id, !.rec = rec]
          BY <1>0, <4>2 DEF SendClaim
        <5>2. call'[w].dir = "outbound"
          BY <5>1, IdleOK DEF Call
        <5> QED BY <4>1, <5>2
      <4>3. ASSUME NEW id \in OutId, ConfirmLookup(w, id) PROVE FALSE
        <5>1. call'[w] = [Idle EXCEPT !.pc = "confirm_claim", !.dir = "outbound", !.id = id]
          BY <1>0, <4>3 DEF ConfirmLookup
        <5>2. call'[w].pc = "confirm_claim"
          BY <5>1, IdleOK DEF Call
        <5> QED BY <4>1, <5>2 DEF Receives, Evaluating
      <4>4. ASSUME InboxSelect(w) PROVE FALSE
        <5>1. call'[w] = [Idle EXCEPT !.pc = "read", !.page = Page]
          BY <1>0, <4>4 DEF InboxSelect
        <5>2. call'[w].pc = "read"
          BY <5>1, IdleOK DEF Call
        <5> QED BY <4>1, <5>2 DEF Receives, Evaluating
      <4> QED BY <4>2, <4>3, <4>4 DEF Begins
    <3> DEFINE rec == index.received[e.id]
               d == call'[w]
    <3>2. d = [Idle EXCEPT !.pc = IF rec = None THEN "verify" ELSE "ack",
                        !.key = <<"receive", e.id>>, !.dir = "inbound",
                        !.what = e, !.id = e.id, !.rec = rec]
      BY <1>0, <3>1 DEF ReceiveClaim
    <3>3. IF rec # None THEN rec.env = e /\ rec.out.ack = None
                        ELSE index.seen[e.id] \in {None, e}
      BY <3>1 DEF ReceiveClaim
    <3> HIDE DEF d, rec
    <3>4. /\ d.pc = (IF rec = None THEN "verify" ELSE "ack")
          /\ d.what = e /\ d.rec = rec /\ d.id = e.id
      BY <3>2, IdleOK DEF Call
    <3>5. index'.received[d.id] = rec /\ index'.seen[d.id] = index.seen[e.id]
      BY <1>0, <3>4 DEF rec
    <3> QED BY <2>2, <3>3, <3>4, <3>5 DEF ReceiveHolds, Evaluating, d
  <2> QED BY <2>1, <2>2
<1>2. ASSUME NEW v \in Worker, Trails(call[v]) \/ call[v].pc = "verified"
      PROVE  call'[v] = call[v]
  BY <1>0, <1>2, IdleOK DEF Trails
<1>3. ReceivedShown' /\ SeenShown'
  <2>1. ReceivedShown /\ SeenShown
    BY DEF RInv
  <2>2. ReceivedShown'
    BY <1>0, <1>2, <2>1 DEF ReceivedShown
  <2>3. SeenShown'
    BY <1>0, <1>2, <2>1 DEF SeenShown
  <2> QED BY <2>2, <2>3
<1>4. InboxShown'
  <2>1. {v \in Worker : call'[v].pc = "accepted"} = {v \in Worker : call[v].pc = "accepted"}
    BY <1>0, IdleOK
  <2>2. \A v \in {u \in Worker : call[u].pc = "accepted"} : call'[v] = call[v]
    BY <1>2 DEF Trails
  <2>3. Unpublished' = Unpublished
    <3> DEFINE A == {v \in Worker : call[v].pc = "accepted"}
               Seen(k) == [id |-> k.id, env |-> k.what, seq |-> k.ref]
    <3>1. Unpublished = {Seen(call[v]) : v \in A} /\ Unpublished' = {Seen(call'[v]) : v \in A}
      BY <2>1 DEF Unpublished
    <3> HIDE DEF A, Seen
    <3>2. \A v \in A : Seen(call'[v]) = Seen(call[v])
      BY <2>2 DEF A
    <3> QED BY <3>1, <3>2
  <2> QED BY <1>0, <2>3 DEF RInv, InboxShown
<1>5. Bound(log') /\ ReplayOK(log') /\ AcksShown' /\ ReceiptsStand'
  BY <1>0 DEF RInv, AcksShown, ReceiptsStand
<1> QED BY <1>1, <1>3, <1>4, <1>5 DEF RInv

\* What a start's own entry leaves of the log.
LEMMA StartedKeeps ==
    ASSUME TInv, RInv, log' = log \/ log' = Append(log, Started)
    PROVE  /\ Bound(log') /\ ReplayOK(log')
           /\ \A id : RebuiltReceived(log', id) = RebuiltReceived(log, id)
           /\ \A id : RebuiltSeen(log', id) = RebuiltSeen(log, id)
<1>1. /\ log \in Seq(Entry) /\ Bound(log) /\ ReplayOK(log)
      /\ Started \in Entry /\ EntryOK(Started)
      /\ \A i \in DOMAIN log : EntryOK(log[i])
  BY StartedOK DEF TInv, TypeOK, RInv
<1>2. ~ FromPeer(Started)
  BY DEF Started, EntryOf, FromPeer
<1>3. Bound(Append(log, Started))
  BY <1>1, <1>2, BoundAppended DEF FromPeer
<1>4. ReplayOK(Append(log, Started))
  BY <1>1, <1>2, ReplayAppended DEF FromPeer
<1> QED BY <1>1, <1>3, <1>4, StartedQuiet, QuietReplay

LEMMA NextRInv == TInv /\ CInv /\ RInv /\ [Next]_vars => RInv'
<1> SUFFICES ASSUME TInv, CInv, RInv, [Next]_vars PROVE RInv'
  OBVIOUS
<1>0. \A w \in Worker : ~ Receiving(Idle)
  BY IdleOK DEF Receiving, Receives, Evaluating
<1>1. ASSUME NEW w \in Worker, Step(w) PROVE RInv'
  BY <1>1, StepRInv
<1>2. ASSUME NEW w \in Worker, Begins(w) PROVE RInv'
  BY <1>2, BeginsRInv
<1>3. CASE Crash
  <2>1. /\ log' = log /\ answers' = answers /\ logState' = "closed"
        /\ index' = Rebuild(<< >>) /\ call' = [w \in Worker |-> Idle]
    BY <1>3 DEF Crash
  <2>2. \A id \in InId : index'.received[id] = None
    BY <2>1, EmptyReplay DEF Rebuild
  <2>3. \A w \in Worker : ~ Receiving(call'[w])
    BY <1>0, <2>1
  <2> QED
    BY <2>1, <2>2, <2>3
       DEF RInv, ReceivedShown, SeenShown, AcksShown, ReceiptsStand, InboxShown
<1>4. CASE Start
  <2>1. /\ log' = Append(log, Started) /\ answers' = answers /\ call' = call
        /\ index' = Rebuild(log') /\ ~ up
    BY <1>4 DEF Start
  <2>2. /\ \A id \in InId : index'.received[id] = RebuiltReceived(log', id)
        /\ \A id \in InId : index'.seen[id] = RebuiltSeen(log', id)
        /\ index'.inbox = RebuiltInbox(log')
    BY <2>1 DEF Rebuild
  <2>3. \A w \in Worker : call'[w] = Idle
    BY <2>1 DEF TInv, DownIsQuiet
  <2>4. /\ Bound(log') /\ ReplayOK(log')
        /\ \A id : RebuiltReceived(log', id) = RebuiltReceived(log, id)
    BY <2>1, StartedKeeps
  <2>5. InboxShown'
    <3>1. Unpublished' = {}
      BY <2>3, IdleOK DEF Unpublished
    <3>2. log' \in Seq(Entry)
      BY LogKept
    <3>3. ToSet(RebuiltInbox(log')) = Shown(log')
      BY <3>2, InboxIs
    <3> QED BY <2>2, <3>1, <3>3 DEF InboxShown
  <2>6. \A w \in Worker : ~ Receiving(call'[w])
    BY <1>0, <2>3
  <2> QED
    BY <2>1, <2>2, <2>4, <2>5, <2>6
       DEF RInv, ReceivedShown, SeenShown, AcksShown, ReceiptsStand
<1>5. CASE Aside
  <2>1. /\ index' = index /\ call' = call
        /\ log' = log \/ (~ up /\ log' = Append(log, Started))
        /\ logState' = logState \/ logState' = "closed"
    BY <1>5, AsideKeeps
  <2>2. /\ Bound(log') /\ ReplayOK(log')
        /\ \A id : RebuiltReceived(log', id) = RebuiltReceived(log, id)
        /\ \A id : RebuiltSeen(log', id) = RebuiltSeen(log, id)
    BY <2>1, StartedKeeps
  <2>3. ASSUME NEW a \in answers', a \notin answers
        PROVE  /\ a.key[1] \in {"send", "receive"}
               /\ a.key[1] = "receive" =>
                      LET R == RebuiltReceived(log, a.key[2]) IN
                      R # None /\ R.out.ack # None /\ R.out = a.out
    <3>1. CASE \E r \in Request, t \in Text : SendCached(r, t)
      <4>1. PICK r \in Request, t \in Text : SendCached(r, t)
        BY <3>1
      <4>2. a.key = <<"send", r>>
        BY <2>3, <4>1 DEF SendCached, Answer
      <4> QED BY <4>2
    <3>2. CASE \E e \in Inbound : ReceiveCached(e)
      <4>1. PICK e \in Inbound : ReceiveCached(e)
        BY <3>2
      <4>2. /\ a = [key |-> <<"receive", e.id>>, out |-> index.received[e.id].out]
            /\ index.received[e.id] # None /\ index.received[e.id].out.ack # None
        BY <2>3, <4>1 DEF ReceiveCached, Answer
      <4>3. a.key = <<"receive", e.id>> /\ a.out = index.received[e.id].out
        BY <4>2
      <4>4. index.received[e.id] = RebuiltReceived(log, e.id)
        BY <4>2, MailboxAssumption DEF RInv, AcksShown
      <4> QED BY <4>2, <4>3, <4>4
    <3> QED
      BY <1>5, <2>3, <3>1, <3>2 DEF Aside, Approve, Shutdown, CloseLog, StartFails, vars
  <2>4. ReceiptsStand'
    BY <2>2, <2>3 DEF ReceiptsStand, RInv
  <2>5. ASSUME NEW w \in Worker, Receiving(call'[w]) PROVE ReceiveHolds(call[w])'
    <3>1. call'[w] = call[w] /\ ReceiveHolds(call[w])
      BY <2>1, <2>5 DEF RInv
    <3> QED BY <2>1, <2>2, <3>1 DEF ReceiveHolds
  <2>6. ReceivedShown' /\ SeenShown' /\ AcksShown'
    BY <2>1, <2>2 DEF RInv, ReceivedShown, SeenShown, AcksShown, Trails
  <2>7. InboxShown'
    <3>1. Unpublished' = Unpublished
      BY <2>1 DEF Unpublished
    <3>2. logState' = "open" => logState = "open" /\ log' = log
      BY <2>1 DEF TInv, DownIsQuiet
    <3> QED BY <2>1, <3>1, <3>2 DEF RInv, InboxShown
  <2> QED BY <2>2, <2>4, <2>5, <2>6, <2>7 DEF RInv
<1> QED BY <1>1, <1>2, <1>3, <1>4, <1>5, NextIs

LEMMA ReceivesInvariant == Spec => []RInv
<1>1. Init => TInv /\ CInv /\ RInv
  BY InitTInv, InitCInv, InitRInv
<1>2. (TInv /\ CInv /\ RInv) /\ [Next]_vars => (TInv /\ CInv /\ RInv)'
  BY NextTInv, NextCInv, NextRInv
<1> QED BY <1>1, <1>2, PTL DEF Spec

\* Receive binds a message ID for ever to the first envelope verified under it
\* and accepts the message once (InboundBinds), also when its sender offers it
\* again after a crash between the acceptance and its acknowledgement.
THEOREM InboundBound == Spec => []InboundBinds
<1>1. RInv => InboundBinds
  <2> SUFFICES ASSUME RInv,
                      NEW i \in Types({"inbound_verified", "inbound_accepted",
                                       "acknowledgement_issued"}),
                      NEW j \in Types({"inbound_verified", "inbound_accepted",
                                       "acknowledgement_issued"}),
                      log[i].id = log[j].id
               PROVE  /\ log[i].what = log[j].what
                      /\ {log[i].type, log[j].type} = {"inbound_accepted"} => i = j
    BY DEF InboundBinds
  <2>1. i \in DOMAIN log /\ j \in DOMAIN log /\ FromPeer(log[i]) /\ FromPeer(log[j])
    BY DEF Types, FromPeer
  <2>2. Bound(log)
    BY DEF RInv
  <2>3. log[i].what = log[j].what
    BY <2>1, <2>2 DEF Bound
  <2>4. ASSUME {log[i].type, log[j].type} = {"inbound_accepted"} PROVE i = j
    <3>1. log[i].type = "inbound_accepted" /\ log[j].type = "inbound_accepted"
      BY <2>4
    <3> QED BY <2>1, <2>2, <3>1 DEF Bound
  <2> QED BY <2>3, <2>4
<1> QED BY <1>1, ReceivesInvariant, PTL

\* A final result a caller was given is what every later replay of the log yields
\* for the same request or message (AnswersStand): retries are answered alike
\* before and after any number of restarts.
THEOREM AnswersHold == Spec => []AnswersStand
<1>1. TInv /\ SInv /\ RInv => AnswersStand
  <2> SUFFICES ASSUME TInv, SInv, RInv, NEW a \in answers
               PROVE  \/ /\ a.key[1] = "send"
                         /\ Rebuild(log).requests[a.key[2]] # None
                         /\ Rebuild(log).requests[a.key[2]].final
                         /\ Rebuild(log).requests[a.key[2]].out = a.out
                      \/ /\ a.key[1] = "receive"
                         /\ Rebuild(log).received[a.key[2]] # None
                         /\ Rebuild(log).received[a.key[2]].out = a.out
    BY DEF AnswersStand
  <2>1. a.key \in Key /\ a.key[1] \in {"send", "receive"}
    BY DEF TInv, TypeOK, RInv, ReceiptsStand
  <2>2. CASE a.key[1] = "send"
    <3>1. a.key[2] \in Request
      BY <2>1, <2>2 DEF Key
    <3>2. Rebuild(log).requests[a.key[2]] = RebuiltRequest(log, a.key[2])
      BY <3>1 DEF Rebuild
    <3> QED BY <2>2, <3>2 DEF SInv, SentAnswersStand
  <2>3. CASE a.key[1] = "receive"
    <3>1. a.key[2] \in InId
      BY <2>1, <2>3 DEF Key
    <3>2. Rebuild(log).received[a.key[2]] = RebuiltReceived(log, a.key[2])
      BY <3>1 DEF Rebuild
    <3> QED BY <2>3, <3>2 DEF RInv, ReceiptsStand
  <2> QED BY <2>1, <2>2, <2>3
<1> QED BY <1>1, TypesInvariant, SendsInvariant, ReceivesInvariant, PTL

(***************************************************************************)
(* Confirm.                                                                *)
(***************************************************************************)

ConfirmsShown ==
    logState = "open" =>
        \A id \in OutId :
            \/ index.confirmed[id] = ConfirmedAt(log, id)
            \/ \E w \in Worker : call[w].key = <<"confirm", id>> /\ call[w].pc = "confirmed"
KInv ==
    /\ ConfirmsShown
    /\ \A w \in Worker : call[w].pc = "confirmed" => ConfirmedAt(log, call[w].id) = call[w].ref

LEMMA ConfirmKey ==
    ASSUME NEW c, CallOK(c)
    PROVE  /\ \A id \in OutId : c.key = <<"confirm", id>> =>
                  c.pc \in {"confirm", "confirmed"} /\ c.id = id
           /\ c.pc \in {"confirm", "confirmed"} =>
                  c.id \in OutId /\ c.key = <<"confirm", c.id>> /\ c.key # None
<1>1. ASSUME NEW id \in OutId, c.key = <<"confirm", id>>
      PROVE  c.pc \in {"confirm", "confirmed"} /\ c.id = id
  <2>1. c.key # None
    BY <1>1, AbsentAssumption DEF Key
  <2>2. c # Idle /\ ~ Reading(c)
    BY <2>1, IdleOK DEF Reading
  <2>3. ~ Sending(c) /\ ~ Receiving(c)
    BY <1>1 DEF Sending, Receiving
  <2>4. Confirming(c)
    BY <2>2, <2>3 DEF CallOK
  <2> QED BY <1>1, <2>1, <2>4 DEF Confirming
<1>2. ASSUME c.pc \in {"confirm", "confirmed"}
      PROVE  c.id \in OutId /\ c.key = <<"confirm", c.id>> /\ c.key # None
  <2>1. Confirming(c)
    BY <1>2, KindOf
  <2>2. c.id \in OutId /\ c.key = <<"confirm", c.id>>
    BY <1>2, <2>1 DEF Confirming
  <2> QED BY <2>2, AbsentAssumption DEF Key
<1> QED BY <1>1, <1>2

\* The steps of a call that holds the claim of a confirmation.
LEMMA ConfirmSteps ==
    ASSUME TInv, NEW w \in Worker, Step(w), call'[w].pc = "confirmed"
    PROVE  AppendConfirm(w)
<1>0. /\ call \in [Worker -> Call] /\ call[w] \in Call /\ CallOK(call[w])
      /\ call'[w] \in Call /\ CallOK(call'[w])
  BY StepCalls DEF TInv, TypeOK
<1>1. call'[w].id \in OutId /\ call'[w].key = <<"confirm", call'[w].id>>
  BY <1>0, ConfirmKey
<1>2. ~ Finish(w)
  BY <1>0, IdleOK DEF Finish
<1>3. ~ ConfirmClaim(w)
  BY <1>2, Moved
<1>4. call[w].key = <<"confirm", call'[w].id>>
  BY <1>0, <1>1, <1>2, <1>3, StepGoes
<1>5. call[w].pc \in {"confirm", "confirmed"}
  BY <1>0, <1>1, <1>4, ConfirmKey
<1>6. ~ Quits(w) /\ ~ Decides(w)
  BY <1>2, <1>5 DEF Quits, Decides, Evaluating
<1>7. ~ (RecordFinal(w) \/ RecordAck(w) \/ RecordConfirm(w) \/ InboxReturn(w))
  BY <1>2, Moved
<1>8. ~ (Submit(w) \/ RecordRequest(w) \/ Block(w) \/ Release(w) \/ Verify(w)
         \/ RecordSeen(w) \/ Accept(w) \/ Publish(w) \/ IssueAck(w))
  BY <1>5 DEF Submit, RecordRequest, Block, Release, Verify, RecordSeen, Accept,
              Publish, IssueAck
<1> QED BY <1>3, <1>6, <1>7, <1>8, StepKinds

\* What the log shows of another call's confirmation is not touched by a step.
LEMMA ConfirmTouched ==
    ASSUME TInv, NEW w \in Worker, Step(w), NEW id \in OutId,
           call[w].key # <<"confirm", id>>
    PROVE  ConfirmedAt(log', id) = ConfirmedAt(log, id)
<1>0. call[w] \in Call /\ CallOK(call[w]) /\ log \in Seq(Entry)
  BY DEF TInv, TypeOK
<1>1. ASSUME NEW e \in Appending(call[w]), log' = Append(log, e)
      PROVE  ConfirmedAt(log', id) = ConfirmedAt(log, id)
  <2>1. e \in Entry
    BY <1>0, Appendable
  <2>2. ASSUME e.type = "delivery_confirmed", e.id = id PROVE FALSE
    <3>1. call[w].pc = "confirm" /\ e = DeliveryConfirmed(call[w])
      BY <1>0, <2>2, EntryOwner
    <3>2. e.id = call[w].id
      BY <3>1 DEF DeliveryConfirmed, EntryOf
    <3>3. call[w].key = <<"confirm", call[w].id>>
      BY <1>0, <3>1, ConfirmKey
    <3> QED BY <2>2, <3>2, <3>3
  <2> QED BY <1>0, <1>1, <2>1, <2>2, AppendedReplay
<1> QED BY <1>1, StepAppends

LEMMA StepKInv ==
    ASSUME TInv, CInv, KInv, NEW w \in Worker, Step(w)
    PROVE  KInv'
<1> DEFINE c == call[w]
<1>0. /\ call \in [Worker -> Call] /\ c \in Call /\ CallOK(c) /\ log \in Seq(Entry)
      /\ call' \in [Worker -> Call] /\ CallOK(call'[w])
      /\ index \in Index /\ index' \in Index
      /\ \A v \in Worker \ {w} : call'[v] = call[v] /\ CallOK(call[v])
  <2>1. [Next]_vars
    BY DEF Next
  <2>2. index' \in Index
    BY <2>1, NextIndex
  <2>3. \A v \in Worker \ {w} : call'[v] = call[v] /\ CallOK(call[v])
    BY StepCalls DEF TInv, TypeOK
  <2> QED BY <2>2, <2>3, StepCalls DEF TInv, TypeOK
\* The entry is appended: the call knows where.
<1>1. ASSUME AppendConfirm(w)
      PROVE  /\ c.id \in OutId /\ c.key = <<"confirm", c.id>>
             /\ call'[w].id = c.id /\ call'[w].key = c.key
             /\ ConfirmedAt(log', c.id) = call'[w].ref
  <2>1. /\ call'[w] = [c EXCEPT !.pc = "confirmed", !.ref = NextSeq]
        /\ c.pc = "confirm"
    BY <1>1, Moved
  <2>2. c.id \in OutId /\ c.key = <<"confirm", c.id>>
    BY <1>0, <2>1, ConfirmKey
  <2>3. log' = Append(log, DeliveryConfirmed(c)) /\ DeliveryConfirmed(c) \in Appending(c)
    BY <1>1, <2>1 DEF AppendConfirm, Commit, Appending
  <2>4. DeliveryConfirmed(c) \in Entry
    BY <1>0, <2>3, Appendable
  <2>5. DeliveryConfirmed(c).type = "delivery_confirmed" /\ DeliveryConfirmed(c).id = c.id
    BY DEF DeliveryConfirmed, EntryOf
  <2>6. ConfirmedAt(log', c.id) = NextSeq
    BY <1>0, <2>3, <2>4, <2>5, AppendedReplay DEF NextSeq
  <2>7. call'[w].id = c.id /\ call'[w].key = c.key /\ call'[w].ref = NextSeq
    BY <1>0, <2>1 DEF Call
  <2> QED BY <2>2, <2>6, <2>7
<1>2. ConfirmsShown'
  <2> SUFFICES ASSUME logState' = "open", NEW id \in OutId,
                      index'.confirmed[id] # ConfirmedAt(log', id)
               PROVE  \E v \in Worker : /\ call'[v].key = <<"confirm", id>>
                                        /\ call'[v].pc = "confirmed"
    BY DEF ConfirmsShown
  <2>1. logState = "open"
    BY StepFrame
  <2>2. CASE AppendConfirm(w) /\ c.id = id
    BY <1>1, <2>2, Moved
  <2>3. CASE RecordConfirm(w) /\ c.id = id
    <3>1. index' = [index EXCEPT !.confirmed[id] = c.ref] /\ log' = log /\ c.pc = "confirmed"
      BY <2>3 DEF RecordConfirm
    <3>2. index'.confirmed[id] = c.ref
      <4> HIDE DEF c
      <4> QED BY <1>0, <3>1 DEF Index
    <3>3. ConfirmedAt(log, id) = c.ref
      BY <2>3, <3>1 DEF KInv
    <3> QED BY <3>1, <3>2, <3>3
  <2>4. CASE ~ (AppendConfirm(w) /\ c.id = id) /\ ~ (RecordConfirm(w) /\ c.id = id)
    <3>1. index'.confirmed[id] = index.confirmed[id]
      BY <2>4, IndexTouched
    <3>2. ConfirmedAt(log', id) = ConfirmedAt(log, id)
      <4>1. CASE c.key # <<"confirm", id>>
        BY <4>1, ConfirmTouched
      <4>2. CASE c.key = <<"confirm", id>>
        <5>1. c.pc \in {"confirm", "confirmed"} /\ c.id = id
          BY <1>0, <4>2, ConfirmKey
        <5>2. log' = log \/ logState' = "failed" \/ AppendConfirm(w)
          <6>1. Quits(w) => log' = log \/ logState' = "failed"
            <7>1. ASSUME NEW e \in Appending(c), Quiet(e) PROVE FALSE
              <8>1. e = DeliveryConfirmed(c)
                BY <5>1, <7>1 DEF Appending
              <8> QED BY <7>1, <8>1 DEF DeliveryConfirmed, EntryOf, Quiet
            <7> QED BY <7>1 DEF Quits
          <6>2. ~ Decides(w)
            BY <5>1 DEF Decides, Evaluating
          <6>3. ~ (Submit(w) \/ RecordRequest(w) \/ Block(w) \/ Release(w) \/ Verify(w)
                   \/ RecordSeen(w) \/ Accept(w) \/ Publish(w) \/ IssueAck(w)
                   \/ InboxReturn(w))
            BY <5>1 DEF Submit, RecordRequest, Block, Release, Verify, RecordSeen, Accept,
                        Publish, IssueAck, InboxReturn
          <6>4. RecordConfirm(w) \/ RecordFinal(w) \/ RecordAck(w) \/ ConfirmClaim(w)
                    => log' = log
            BY DEF RecordConfirm, RecordFinal, RecordAck, ConfirmClaim
          <6> QED BY <6>1, <6>2, <6>3, <6>4, StepKinds
        <5> QED BY <2>4, <5>1, <5>2
      <4> QED BY <4>1, <4>2
    <3>3. PICK v \in Worker : call[v].key = <<"confirm", id>> /\ call[v].pc = "confirmed"
      BY <2>1, <3>1, <3>2 DEF KInv, ConfirmsShown
    <3>4. CASE v # w
      BY <1>0, <3>3, <3>4
    <3>5. CASE v = w
      <4>1. c.id = id
        BY <1>0, <3>3, <3>5, ConfirmKey
      <4>2. ~ Quits(w) /\ ~ Decides(w)
        BY <3>3, <3>5 DEF Quits, Decides, Evaluating, Writing
      <4>3. ~ (Submit(w) \/ RecordRequest(w) \/ Block(w) \/ Release(w) \/ Verify(w)
               \/ RecordSeen(w) \/ Accept(w) \/ Publish(w) \/ IssueAck(w) \/ InboxReturn(w)
               \/ RecordFinal(w) \/ RecordAck(w) \/ ConfirmClaim(w) \/ AppendConfirm(w))
        BY <3>3, <3>5
           DEF Submit, RecordRequest, Block, Release, Verify, RecordSeen, Accept,
               Publish, IssueAck, InboxReturn, RecordFinal, RecordAck, ConfirmClaim,
               AppendConfirm
      <4>4. RecordConfirm(w)
        BY <4>2, <4>3, StepKinds
      <4> QED BY <2>4, <4>1, <4>4
    <3> QED BY <3>4, <3>5
  <2> QED BY <2>2, <2>3, <2>4
<1>3. ASSUME NEW v \in Worker, call'[v].pc = "confirmed"
      PROVE  ConfirmedAt(log', call'[v].id) = call'[v].ref
  <2>1. CASE v = w
    BY <1>1, <1>3, <2>1, ConfirmSteps
  <2>2. CASE v # w
    <3>1. call'[v] = call[v] /\ call[v].pc = "confirmed" /\ CallOK(call[v])
      BY <1>0, <1>3, <2>2
    <3>2. call[v].id \in OutId /\ call[v].key = <<"confirm", call[v].id>> /\ call[v].key # None
      BY <3>1, ConfirmKey
    <3>3. c.key # <<"confirm", call[v].id>>
      BY <2>2, <3>2, OneCall
    <3>4. ConfirmedAt(log', call[v].id) = ConfirmedAt(log, call[v].id)
      BY <3>2, <3>3, ConfirmTouched
    <3> QED BY <3>1, <3>4 DEF KInv
  <2> QED BY <2>1, <2>2
<1> QED BY <1>2, <1>3 DEF KInv

\* Where a call begins.
LEMMA BeginsAt ==
    ASSUME call \in [Worker -> Call], NEW w \in Worker, Begins(w)
    PROVE  call'[w].pc \in {"submit", "scan", "verify", "ack", "confirm_claim", "read"}
<1>1. ASSUME NEW r \in Request, NEW t \in Text, SendClaim(w, r, t)
      PROVE  call'[w].pc \in {"submit", "scan"}
  <2>1. PICK rec : rec = index.requests[r]
    OBVIOUS
  <2>2. PICK id : id = IF rec = None THEN None ELSE rec.id
    OBVIOUS
  <2>3. PICK pc : pc = IF rec = None THEN "submit" ELSE "scan"
    OBVIOUS
  <2>4. call'[w] = [Idle EXCEPT !.pc = pc, !.key = <<"send", r>>,
                     !.dir = "outbound", !.what = t, !.id = id, !.rec = rec]
    BY <1>1, <2>1, <2>2, <2>3 DEF SendClaim
  <2> QED BY <2>3, <2>4, IdleOK DEF Call
<1>2. ASSUME NEW e \in Inbound, ReceiveClaim(w, e)
      PROVE  call'[w].pc \in {"verify", "ack"}
  <2>1. PICK rec : rec = index.received[e.id]
    OBVIOUS
  <2>2. PICK pc : pc = IF rec = None THEN "verify" ELSE "ack"
    OBVIOUS
  <2>3. call'[w] = [Idle EXCEPT !.pc = pc, !.key = <<"receive", e.id>>,
                     !.dir = "inbound", !.what = e, !.id = e.id, !.rec = rec]
    BY <1>2, <2>1, <2>2 DEF ReceiveClaim
  <2> QED BY <2>2, <2>3, IdleOK DEF Call
<1>3. ASSUME NEW id \in OutId, ConfirmLookup(w, id)
      PROVE  call'[w].pc = "confirm_claim"
  <2>1. call'[w] = [Idle EXCEPT !.pc = "confirm_claim", !.dir = "outbound", !.id = id]
    BY <1>3 DEF ConfirmLookup
  <2> QED BY <2>1, IdleOK DEF Call
<1>4. InboxSelect(w) => call'[w].pc = "read"
  <2>1. InboxSelect(w) => call'[w] = [Idle EXCEPT !.pc = "read", !.page = Page]
    BY DEF InboxSelect
  <2> QED BY <2>1, IdleOK DEF Call
<1> QED BY <1>1, <1>2, <1>3, <1>4 DEF Begins

LEMMA InitKInv == Init => KInv
<1> SUFFICES ASSUME Init PROVE KInv
  OBVIOUS
<1>1. logState # "open" /\ \A w \in Worker : call[w].pc # "confirmed"
  BY IdleOK DEF Init
<1> QED BY <1>1 DEF KInv, ConfirmsShown

LEMMA NextKInv == TInv /\ CInv /\ KInv /\ [Next]_vars => KInv'
<1> SUFFICES ASSUME TInv, CInv, KInv, [Next]_vars PROVE KInv'
  OBVIOUS
<1>0. Idle.pc # "confirmed" /\ log \in Seq(Entry) /\ call \in [Worker -> Call]
  BY IdleOK DEF TInv, TypeOK
<1>1. ASSUME NEW w \in Worker, Step(w) PROVE KInv'
  BY <1>1, StepKInv
<1>2. ASSUME NEW w \in Worker, Begins(w) PROVE KInv'
  <2>1. /\ log' = log /\ logState' = logState /\ index' = index /\ call[w] = Idle
        /\ \A v \in Worker \ {w} : call'[v] = call[v]
    BY <1>0, <1>2, BeginsKeeps, StartGoes DEF Begins
  <2>2. call'[w].pc # "confirmed"
    BY <1>0, <1>2, BeginsAt
  <2>3. \A v \in Worker : call'[v].pc = "confirmed" => call'[v] = call[v]
    BY <2>1, <2>2
  <2>4. \A v \in Worker : call[v].pc = "confirmed" => call'[v] = call[v]
    BY <1>0, <2>1
  <2>5. ConfirmsShown'
    BY <2>1, <2>4 DEF KInv, ConfirmsShown
  <2> QED BY <2>1, <2>3, <2>5 DEF KInv
<1>3. CASE Crash
  <2>1. logState' = "closed" /\ call' = [w \in Worker |-> Idle]
    BY <1>3 DEF Crash
  <2> QED BY <1>0, <2>1 DEF KInv, ConfirmsShown
<1>4. CASE Start
  <2>1. call' = call /\ index' = Rebuild(log') /\ ~ up
    BY <1>4 DEF Start
  <2>2. \A id \in OutId : index'.confirmed[id] = ConfirmedAt(log', id)
    BY <2>1, LastPositions DEF Rebuild, ConfirmedAt
  <2>3. \A w \in Worker : call'[w].pc # "confirmed"
    BY <1>0, <2>1 DEF TInv, DownIsQuiet
  <2> QED BY <2>2, <2>3 DEF KInv, ConfirmsShown
<1>5. CASE Aside
  <2>1. /\ index' = index /\ call' = call
        /\ log' = log \/ log' = Append(log, Started)
        /\ logState' = logState \/ logState' = "closed"
    BY <1>5, AsideKeeps
  <2>2. \A id : ConfirmedAt(log', id) = ConfirmedAt(log, id)
    BY <1>0, <2>1, StartedOK, StartedQuiet, QuietReplay
  <2> QED BY <2>1, <2>2 DEF KInv, ConfirmsShown
<1> QED BY <1>1, <1>2, <1>3, <1>4, <1>5, NextIs

(***************************************************************************)
(* While the log accepts appends, the index is the replay of the log.      *)
(***************************************************************************)

LEMMA LiveReplayed ==
    ASSUME TInv, CInv, SInv, RInv, KInv
    PROVE  LiveIsReplay
<1> DEFINE L == Rebuild(log)
<1>0. \A w \in Worker : call[w].key # None => call[w].key \in active
  BY DEF CInv, ClaimsExact
<1>1. ASSUME logState = "open", NEW r \in Request, <<"send", r>> \notin active
      PROVE  index.requests[r] = L.requests[r]
  <2>1. L.requests[r] = RebuiltRequest(log, r)
    BY DEF Rebuild
  <2>2. <<"send", r>> # None
    BY AbsentAssumption DEF Key
  <2>3. \A w \in Worker : call[w].key # <<"send", r>>
    BY <1>0, <1>1, <2>2
  <2> QED BY <1>1, <2>1, <2>3 DEF SInv, RequestsShown
<1>2. ASSUME logState = "open", NEW id \in InId, <<"receive", id>> \notin active
      PROVE  index.received[id] = L.received[id] /\ index.seen[id] = L.seen[id]
  <2>1. L.received[id] = RebuiltReceived(log, id) /\ L.seen[id] = RebuiltSeen(log, id)
    BY DEF Rebuild
  <2>2. <<"receive", id>> # None
    BY AbsentAssumption DEF Key
  <2>3. \A w \in Worker : call[w].key # <<"receive", id>>
    BY <1>0, <1>2, <2>2
  <2> QED BY <1>2, <2>1, <2>3 DEF RInv, ReceivedShown, SeenShown
<1>3. ASSUME logState = "open", NEW id \in OutId
      PROVE  /\ (\A w \in Worker : call[w].id # id) => index.sent[id] = L.sent[id]
             /\ <<"confirm", id>> \notin active => index.confirmed[id] = L.confirmed[id]
  <2>1. L.sent[id] = RebuiltSent(log, id) /\ L.confirmed[id] = ConfirmedAt(log, id)
    BY LastPositions DEF Rebuild, ConfirmedAt
  <2>2. <<"confirm", id>> # None
    BY AbsentAssumption DEF Key
  <2>3. (\A w \in Worker : call[w].id # id) => index.sent[id] = L.sent[id]
    BY <1>3, <2>1 DEF SInv, SentShown
  <2>4. ASSUME <<"confirm", id>> \notin active
        PROVE  index.confirmed[id] = L.confirmed[id]
    <3>1. \A w \in Worker : call[w].key # <<"confirm", id>>
      BY <1>0, <2>2, <2>4
    <3> QED BY <1>3, <2>1, <3>1 DEF KInv, ConfirmsShown
  <2> QED BY <2>3, <2>4
<1>4. ASSUME logState = "open", \A w \in Worker : call[w].pc # "accepted"
      PROVE  ToSet(index.inbox) = ToSet(L.inbox)
  <2>1. Unpublished = {}
    BY <1>4 DEF Unpublished
  <2>2. ToSet(L.inbox) = Shown(log)
    BY InboxIs DEF Rebuild, TInv, TypeOK
  <2> QED BY <1>4, <2>1, <2>2 DEF RInv, InboxShown
<1>5. ReplayOK(log)
  BY DEF RInv
<1> QED BY <1>1, <1>2, <1>3, <1>4, <1>5 DEF LiveIsReplay

LEMMA AllInvariant == Spec => [](TInv /\ CInv /\ SInv /\ RInv /\ KInv)
<1>1. Init => KInv
  BY InitKInv
<1>2. TInv /\ CInv /\ KInv /\ [Next]_vars => KInv'
  BY NextKInv
<1> QED BY <1>1, <1>2, TypesInvariant, ClaimsInvariant, SendsInvariant, ReceivesInvariant, PTL
       DEF Spec

\* While the log accepts appends, the live index is the replay of the log in
\* all that no running call has claimed, so a restart changes nothing that a
\* caller can observe; and rebuildIndex never refuses the log (LiveIsReplay).
THEOREM LiveReplay == Spec => []LiveIsReplay
BY LiveReplayed, AllInvariant, PTL

(***************************************************************************)
(* evaluate: what is decided about a message, and what is released of it.  *)
(***************************************************************************)

ScanAt(l, dir, id) == Latest(About(l, "deterministic_guard", dir, id))
ModelAt(l, dir, id) == Latest(About(l, "model_guard", dir, id))
ConsumedAt(l, dir, id) == Latest(About(l, "approval_consumed", dir, id))

\* The entries an evaluation leaves, and those of them about one message.
Evaluates(e) == e.type \in {"deterministic_guard", "model_guard", "approval_consumed"}
EvaluatesFor(e, dir, id) == Evaluates(e) /\ e.dir = dir /\ e.id = id

\* The last evaluation of the message in the log had text body before it and
\* the effective decision v.
Judged(l, dir, id, body, v) ==
    LET d == ScanAt(l, dir, id)
        m == ModelAt(l, dir, id) IN
    /\ 0 < d /\ d < m
    /\ l[d].dec = Scan[body]
    /\ v = EffectiveDecision(l[d].dec, l[m].dec)

\* It let the message pass with the given decision and reason: by itself, or
\* with an approval consumed after it.
Passed(l, dir, id, body, dec, why) ==
    \/ dec = "allow" /\ Judged(l, dir, id, body, [dec |-> "allow", why |-> why])
    \/ /\ dec = "review_approved"
       /\ Judged(l, dir, id, body, [dec |-> "review", why |-> why])
       /\ ConsumedAt(l, dir, id) > ModelAt(l, dir, id)

\* What an entry that lets a message pass binds.
BoundBy(e) ==
    [id |-> e.id, dir |-> e.dir,
     what |-> IF e.dir = "outbound" THEN e.what.body ELSE <<e.what.src, e.what.body>>]

\* What a call knows of its own evaluation.
Evaluated(c) ==
    LET d == ScanAt(log, c.dir, c.id) IN
    /\ c.pc = "model" =>
           /\ 0 < d /\ ModelAt(log, c.dir, c.id) < d
           /\ log[d].dec = c.dec /\ c.dec = Scan[Body(c)]
    /\ c.pc \in {"review", "hold", "required", "consume"} =>
           Judged(log, c.dir, c.id, Body(c), [dec |-> "review", why |-> c.why])
    /\ c.pc \in {"release", "accept"} =>
           Passed(log, c.dir, c.id, Body(c), c.dec, c.why)
    /\ c.pc = "consume" \/ (c.pc \in {"release", "accept"} /\ c.dec = "review_approved")
           => approved[c.id] = Binding(c)

Deciding == {"model", "review", "hold", "required", "consume", "release", "accept"}

GInv ==
    /\ \A w \in Worker : call[w].pc \in Deciding => Evaluated(call[w])
    /\ \A i \in DOMAIN log : log[i].type \in {"outbound_released", "inbound_accepted"} =>
           /\ Passed(SubSeq(log, 1, i - 1), log[i].dir, log[i].id, log[i].what.body,
                     log[i].dec, log[i].why)
           /\ log[i].dec = "review_approved" => approved[log[i].id] = BoundBy(log[i])

\* An entry that is no decision about the message leaves what was decided.
LEMMA JudgedKept ==
    ASSUME NEW l \in Seq(Entry), NEW e \in Entry, NEW dir, NEW id,
           EvaluatesFor(e, dir, id) => e.type = "approval_consumed"
    PROVE  LET m == Append(l, e) IN
           /\ ScanAt(m, dir, id) = ScanAt(l, dir, id)
           /\ ModelAt(m, dir, id) = ModelAt(l, dir, id)
           /\ ScanAt(l, dir, id) > 0 => m[ScanAt(l, dir, id)] = l[ScanAt(l, dir, id)]
           /\ \A body, v : Judged(l, dir, id, body, v) => Judged(m, dir, id, body, v)
<1> DEFINE m == Append(l, e)
<1>1. /\ ScanAt(m, dir, id) = ScanAt(l, dir, id)
      /\ ModelAt(m, dir, id) = ModelAt(l, dir, id)
  BY AppendedLatest DEF ScanAt, ModelAt, EvaluatesFor, Evaluates
<1>2. /\ ScanAt(l, dir, id) \in 0..Len(l)
      /\ ModelAt(l, dir, id) \in 0..Len(l)
  BY LatestWithin DEF ScanAt, ModelAt
<1>3. Len(l) \in Nat /\ \A i \in 1..Len(l) : m[i] = l[i]
  BY Appended
<1> HIDE DEF m
<1>4. \A p \in 0..Len(l) : p > 0 => m[p] = l[p]
  BY <1>3
<1>5. ASSUME NEW body, NEW v, Judged(l, dir, id, body, v)
      PROVE  Judged(m, dir, id, body, v)
  <2> DEFINE d == ScanAt(l, dir, id)
             q == ModelAt(l, dir, id)
  <2>1. /\ 0 < d /\ d < q /\ l[d].dec = Scan[body]
        /\ v = EffectiveDecision(l[d].dec, l[q].dec)
    BY <1>5 DEF Judged
  <2>2. m[d] = l[d] /\ m[q] = l[q]
    <3>1. d \in 0..Len(l) /\ q \in 0..Len(l) /\ 0 < d /\ d < q
      BY <1>2, <2>1
    <3> HIDE DEF d, q
    <3>2. d > 0 /\ q > 0
      BY <1>3, <3>1
    <3> QED BY <1>4, <3>1, <3>2
  <2> QED BY <1>1, <2>1, <2>2 DEF Judged
<1> QED BY <1>1, <1>2, <1>4, <1>5 DEF m

\* An entry that is not about the message's evaluation leaves it as it was.
LEMMA EvaluationKept ==
    ASSUME NEW l \in Seq(Entry), NEW e \in Entry, NEW dir, NEW id,
           ~ EvaluatesFor(e, dir, id)
    PROVE  LET m == Append(l, e) IN
           /\ ScanAt(m, dir, id) = ScanAt(l, dir, id)
           /\ ModelAt(m, dir, id) = ModelAt(l, dir, id)
           /\ ScanAt(l, dir, id) > 0 => m[ScanAt(l, dir, id)] = l[ScanAt(l, dir, id)]
           /\ \A body, v : Judged(l, dir, id, body, v) => Judged(m, dir, id, body, v)
           /\ \A body, dec, why :
                  Passed(l, dir, id, body, dec, why) => Passed(m, dir, id, body, dec, why)
<1> DEFINE m == Append(l, e)
<1>1. ConsumedAt(m, dir, id) = ConsumedAt(l, dir, id)
  BY AppendedLatest DEF ConsumedAt, EvaluatesFor, Evaluates
<1>2. /\ ScanAt(m, dir, id) = ScanAt(l, dir, id)
      /\ ModelAt(m, dir, id) = ModelAt(l, dir, id)
      /\ ScanAt(l, dir, id) > 0 => m[ScanAt(l, dir, id)] = l[ScanAt(l, dir, id)]
      /\ \A body, v : Judged(l, dir, id, body, v) => Judged(m, dir, id, body, v)
  BY JudgedKept
<1> HIDE DEF m
<1>3. ASSUME NEW body, NEW dec, NEW why, Passed(l, dir, id, body, dec, why)
      PROVE  Passed(m, dir, id, body, dec, why)
  BY <1>1, <1>2, <1>3 DEF Passed
<1> QED BY <1>2, <1>3 DEF m

\* The log up to an entry stays what it is.
LEMMA Before ==
    ASSUME NEW l \in Seq(Entry), NEW e \in Entry
    PROVE  /\ \A i \in DOMAIN l : SubSeq(Append(l, e), 1, i - 1) = SubSeq(l, 1, i - 1)
           /\ SubSeq(Append(l, e), 1, (Len(l) + 1) - 1) = l
<1> DEFINE m == Append(l, e)
<1>1. /\ m \in Seq(Entry) /\ Len(m) = Len(l) + 1 /\ Len(l) \in Nat /\ DOMAIN l = 1..Len(l)
      /\ \A i \in 1..Len(l) : m[i] = l[i]
  BY Appended
<1> HIDE DEF m
<1>2. ASSUME NEW i \in DOMAIN l PROVE SubSeq(m, 1, i - 1) = SubSeq(l, 1, i - 1)
  <2>1. i - 1 \in Nat /\ i - 1 <= Len(l) /\ i - 1 <= Len(m)
    BY <1>1
  <2>2. /\ SubSeq(m, 1, i - 1) = [j \in 1..(i - 1) |-> m[j]]
        /\ SubSeq(l, 1, i - 1) = [j \in 1..(i - 1) |-> l[j]]
    BY <1>1, <2>1
  <2>3. \A j \in 1..(i - 1) : m[j] = l[j]
    BY <1>1, <2>1
  <2> QED BY <2>2, <2>3
<1>3. SubSeq(m, 1, (Len(l) + 1) - 1) = l
  <2>1. (Len(l) + 1) - 1 = Len(l)
    BY <1>1
  <2>2. SubSeq(m, 1, Len(l)) = [j \in 1..Len(l) |-> m[j]]
    BY <1>1
  <2>3. [j \in 1..Len(l) |-> m[j]] = [j \in 1..Len(l) |-> l[j]]
    BY <1>1
  <2>4. l = [j \in 1..Len(l) |-> l[j]]
    BY <1>1
  <2> QED BY <2>1, <2>2, <2>3, <2>4
<1> QED BY <1>2, <1>3 DEF m

\* GuardedAt, in these terms.
LEMMA GuardedIs ==
    ASSUME NEW i \in DOMAIN log, log \in Seq(Entry),
           Passed(SubSeq(log, 1, i - 1), log[i].dir, log[i].id, log[i].what.body,
                  log[i].dec, log[i].why),
           log[i].dec = "review_approved" => approved[log[i].id] = BoundBy(log[i])
    PROVE  GuardedAt(i)
<1> DEFINE before == SubSeq(log, 1, i - 1)
           dir == log[i].dir
           id == log[i].id
           d == ScanAt(before, dir, id)
           m == ModelAt(before, dir, id)
           a == ConsumedAt(before, dir, id)
           v == EffectiveDecision(log[d].dec, log[m].dec)
<1>1. /\ i \in 1..Len(log) /\ Len(log) \in Nat
      /\ before \in Seq(Entry) /\ Len(before) = i - 1
      /\ \A j \in 1..(i - 1) : before[j] = log[j]
  OBVIOUS
<1>2. d \in 0..(i - 1) /\ m \in 0..(i - 1)
  <2> HIDE DEF before
  <2> QED BY <1>1, LatestWithin DEF ScanAt, ModelAt
<1>3. /\ LastPos(before, LAMBDA e : /\ e.type = "deterministic_guard"
                                    /\ e.dir = dir /\ e.id = id) = d
      /\ LastPos(before, LAMBDA e : /\ e.type = "model_guard"
                                    /\ e.dir = dir /\ e.id = id) = m
      /\ LastPos(before, LAMBDA e : /\ e.type = "approval_consumed"
                                    /\ e.dir = dir /\ e.id = id) = a
  <2> HIDE DEF before, dir, id
  <2> QED BY DEF LastPos, SelectLastInSeq, ScanAt, ModelAt, ConsumedAt, Latest, About
<1> HIDE DEF before, d, m, a
<1>4. \A body, w : Judged(before, dir, id, body, w) =>
          0 < d /\ d < m /\ log[d].dec = Scan[body] /\ w = v
  <2> SUFFICES ASSUME NEW body, NEW w, Judged(before, dir, id, body, w)
               PROVE  0 < d /\ d < m /\ log[d].dec = Scan[body] /\ w = v
    OBVIOUS
  <2>1. /\ 0 < d /\ d < m /\ before[d].dec = Scan[body]
        /\ w = EffectiveDecision(before[d].dec, before[m].dec)
    BY DEF Judged, d, m
  <2>2. before[d] = log[d] /\ before[m] = log[m]
    BY <1>1, <1>2, <2>1
  <2> QED BY <2>1, <2>2
<1>5. /\ 0 < d /\ d < m
      /\ log[d].dec = Scan[log[i].what.body]
      /\ log[i].why = v.why
      /\ \/ v.dec = "allow" /\ log[i].dec = "allow"
         \/ /\ v.dec = "review" /\ log[i].dec = "review_approved" /\ a > m
            /\ approved[log[i].id] = BoundBy(log[i])
  <2>1. CASE /\ log[i].dec = "allow"
             /\ Judged(before, dir, id, log[i].what.body,
                       [dec |-> "allow", why |-> log[i].why])
    BY <1>4, <2>1
  <2>2. CASE /\ log[i].dec = "review_approved"
             /\ Judged(before, dir, id, log[i].what.body,
                       [dec |-> "review", why |-> log[i].why])
             /\ ConsumedAt(before, dir, id) > ModelAt(before, dir, id)
    BY <1>4, <2>2 DEF a, m
  <2> QED BY <2>1, <2>2 DEF Passed, before
<1> QED BY <1>3, <1>5 DEF GuardedAt, BoundBy, before

\* Who appends the entries of an evaluation.
LEMMA EvaluationOwner ==
    ASSUME NEW c, NEW e \in Appending(c), Evaluates(e)
    PROVE  c.pc \in {"scan", "model", "consume"}
<1>1. c.pc \in Writing
  BY DEF Appending, Writing
<1>2. c.pc # "submit"
  <2>1. ASSUME c.pc = "submit" PROVE FALSE
    <3>1. PICK id \in FreshIds : e = Submitted(c, id)
      BY <2>1 DEF Appending
    <3>2. e.type = "message_submitted"
      BY <3>1 DEF Submitted, EntryOf
    <3> QED BY <3>2 DEF Evaluates
  <2> QED BY <2>1
<1>3. /\ c.pc = "verify" => e = InboundVerified(c)
      /\ c.pc = "accept" => e = Accepted(c)
      /\ c.pc = "ack" => e = AckIssued(c)
      /\ c.pc = "confirm" => e = DeliveryConfirmed(c)
      /\ c.pc = "read" => e = InboxRead(c)
      /\ c.pc = "deny" => e = Blocked(c)
      /\ c.pc = "required" => e = ApprovalPending(c)
      /\ c.pc = "release" => e = Released(c)
  BY DEF Appending
<1>4. /\ ~ Evaluates(InboundVerified(c)) /\ ~ Evaluates(Accepted(c))
      /\ ~ Evaluates(AckIssued(c)) /\ ~ Evaluates(DeliveryConfirmed(c))
      /\ ~ Evaluates(InboxRead(c)) /\ ~ Evaluates(Blocked(c))
      /\ ~ Evaluates(ApprovalPending(c)) /\ ~ Evaluates(Released(c))
  BY DEF InboundVerified, Accepted, AckIssued, DeliveryConfirmed, InboxRead, Blocked,
         ApprovalPending, Released, EntryOf, Evaluates
<1> QED BY <1>1, <1>2, <1>3, <1>4 DEF Writing

\* No two running calls evaluate the same message.
LEMMA OneEvaluation ==
    ASSUME TInv, CInv, SInv, Usable, NEW v \in Worker, NEW w \in Worker, v # w,
           call[v].pc \in Deciding, call[w].pc \in Deciding \cup {"scan"},
           call[v].dir = call[w].dir, call[v].id = call[w].id
    PROVE  FALSE
<1>0. /\ call[v] \in Call /\ CallOK(call[v])
      /\ call[w] \in Call /\ CallOK(call[w])
  BY DEF TInv, TypeOK
<1>1. /\ Sending(call[v]) \/ Receiving(call[v])
      /\ Sending(call[w]) \/ Receiving(call[w])
  BY <1>0, KindOf DEF Deciding, Evaluating
<1>2. CASE Sending(call[v])
  <2>1. Sending(call[w])
    BY <1>1, <1>2, SendKey, ReceiveKey
  <2>2. /\ call[v].key[2] \in Request /\ call[v].key = <<"send", call[v].key[2]>>
        /\ call[w].key[2] \in Request /\ call[w].key = <<"send", call[w].key[2]>>
        /\ call[v].key # None
    BY <1>2, <2>1, SendKey
  <2>3. LET R == RebuiltRequest(log, call[v].key[2])
            Q == RebuiltRequest(log, call[w].key[2]) IN
        R # None /\ R.id = call[v].id /\ Q # None /\ Q.id = call[w].id
    BY <1>2, <2>1, SendAppends DEF Deciding, Ahead
  <2>4. call[v].key[2] = call[w].key[2]
    BY <2>2, <2>3, DistinctIds DEF SInv
  <2> QED BY <2>2, <2>4, OneCall
<1>3. CASE Receiving(call[v])
  <2>1. Receiving(call[w])
    BY <1>1, <1>3, SendKey, ReceiveKey
  <2>2. call[v].key = call[w].key /\ call[v].key # None
    BY <1>3, <2>1, ReceiveKey
  <2> QED BY <2>2, OneCall
<1> QED BY <1>1, <1>2, <1>3

\* The steps of an evaluation.
LEMMA EvaluationSteps ==
    ASSUME TInv, NEW w \in Worker, Step(w), call'[w].pc \in Deciding
    PROVE  \/ DeterministicGuard(w)
           \/ \E m \in {"allow", "review", "deny"} : ModelGuard(w, m)
           \/ (CheckApproval(w) /\ ~ Finish(w)) \/ SavePending(w) \/ ConsumeApproval(w)
<1>0. call \in [Worker -> Call] /\ call[w] \in Call
  BY DEF TInv, TypeOK
<1>1. ~ Finish(w)
  BY <1>0, IdleOK DEF Finish, Deciding
<1>2. ~ (\/ GuardFailed(w) \/ SavePendingFails(w) \/ ApprovalRequired(w)
         \/ AppendFails(w) \/ RecordFinal(w) \/ RecordAck(w) \/ RecordConfirm(w)
         \/ InboxReturn(w))
  BY <1>1 DEF GuardFailed, SavePendingFails, ApprovalRequired, AppendFails, RecordFinal,
              RecordAck, RecordConfirm, InboxReturn
<1>3. ~ (\/ Verify(w) \/ RecordSeen(w) \/ Accept(w) \/ Publish(w) \/ IssueAck(w)
         \/ AppendConfirm(w) \/ ConfirmClaim(w))
  BY <1>1, Moved DEF Deciding
<1>4. ~ Submit(w)
  <2>1. ASSUME NEW id, NEW n, call' = [call EXCEPT ![w] =
                   [call[w] EXCEPT !.pc = "submitted", !.id = id, !.ref = n]]
        PROVE  call'[w].pc = "submitted"
    BY <1>0, <2>1 DEF Call
  <2> QED BY <2>1 DEF Submit, Commit, Deciding
<1>5. ~ RecordRequest(w)
  <2>1. ASSUME NEW rec, call' = [call EXCEPT ![w].pc = "scan", ![w].rec = rec]
        PROVE  call'[w].pc = "scan"
    BY <1>0, <2>1 DEF Call
  <2> QED BY <2>1 DEF RecordRequest, Deciding
<1>6. ~ Block(w)
  <2>1. ASSUME call' = [call EXCEPT ![w].pc = "denied", ![w].ref = NextSeq]
        PROVE  call'[w].pc = "denied"
    BY <1>0, <2>1 DEF Call
  <2> QED BY <1>1, <2>1 DEF Block, Deciding
<1>7. ~ Release(w)
  <2>1. ASSUME NEW x, NEW n, call' = [call EXCEPT ![w] =
                   [call[w] EXCEPT !.pc = "released", !.ref = n, !.what = x]]
        PROVE  call'[w].pc = "released"
    BY <1>0, <2>1 DEF Call
  <2> QED BY <2>1 DEF Release, Commit, Deciding
<1> QED BY <1>1, <1>2, <1>3, <1>4, <1>5, <1>6, <1>7, Step(w) DEF Step

\* Another call's evaluation is not touched by a step.
LEMMA OtherEvaluation ==
    ASSUME TInv, CInv, SInv, GInv, NEW w \in Worker, Step(w),
           NEW v \in Worker, v # w, call'[v].pc \in Deciding
    PROVE  Evaluated(call[v])'
<1> DEFINE c == call[v]
<1>0. /\ call \in [Worker -> Call] /\ log \in Seq(Entry)
      /\ call[w] \in Call /\ CallOK(call[w]) /\ call'[v] = c
  BY StepCalls DEF TInv, TypeOK
<1>1. approved' = approved /\ (log' = log \/ Usable)
  BY StepFrame
<1>2. Evaluated(c) /\ c.pc \in Deciding
  BY <1>0 DEF GInv
<1>3. CASE log' = log
  BY <1>0, <1>1, <1>2, <1>3 DEF Evaluated
<1>4. CASE log' # log
  <2>1. PICK e \in Appending(call[w]) : log' = Append(log, e)
    BY <1>4, StepAppends
  <2>2. e \in Entry
    BY <1>0, Appendable
  <2>3. ~ EvaluatesFor(e, c.dir, c.id)
    <3> SUFFICES ASSUME EvaluatesFor(e, c.dir, c.id) PROVE FALSE
      OBVIOUS
    <3>1. call[w].pc \in {"scan", "model", "consume"}
      BY <1>0, EvaluationOwner DEF EvaluatesFor
    <3>2. e.dir = call[w].dir /\ e.id = call[w].id
      BY <1>0, <3>1, EntryOwner
    <3>3. c.dir = call[w].dir /\ c.id = call[w].id
      BY <3>2 DEF EvaluatesFor
    <3> QED BY <1>1, <1>2, <1>4, <3>1, <3>3, OneEvaluation DEF Deciding
  <2> DEFINE x == log'
             d == ScanAt(log, c.dir, c.id)
             dir == c.dir
             id == c.id
  <2> HIDE DEF dir, id
  <2>4. /\ ScanAt(x, dir, id) = ScanAt(log, dir, id)
        /\ ModelAt(x, dir, id) = ModelAt(log, dir, id)
        /\ ScanAt(log, dir, id) > 0 => x[ScanAt(log, dir, id)] = log[ScanAt(log, dir, id)]
        /\ \A body, u : Judged(log, dir, id, body, u) => Judged(x, dir, id, body, u)
        /\ \A body, dec, why : Passed(log, dir, id, body, dec, why)
                                   => Passed(x, dir, id, body, dec, why)
    <3>1. ~ EvaluatesFor(e, dir, id)
      BY <2>3 DEF dir, id
    <3> QED BY <1>0, <2>1, <2>2, <3>1, EvaluationKept
  <2> USE DEF dir, id
  <2>5. c.pc = "model" => d > 0
    BY <1>2, LatestWithin, <1>0 DEF Evaluated, ScanAt
  <2> HIDE DEF d
  <2>6. /\ c.pc = "model" =>
               /\ 0 < d /\ ModelAt(log, c.dir, c.id) < d
               /\ log[d].dec = c.dec /\ c.dec = Scan[Body(c)]
        /\ c.pc \in {"review", "hold", "required", "consume"} =>
               Judged(log, c.dir, c.id, Body(c), [dec |-> "review", why |-> c.why])
        /\ c.pc \in {"release", "accept"} =>
               Passed(log, c.dir, c.id, Body(c), c.dec, c.why)
        /\ c.pc = "consume" \/ (c.pc \in {"release", "accept"} /\ c.dec = "review_approved")
               => approved[c.id] = Binding(c)
    BY <1>2 DEF Evaluated, d
  <2>7. /\ c.pc = "model" =>
               /\ 0 < d /\ ModelAt(x, c.dir, c.id) < d
               /\ x[d].dec = c.dec /\ c.dec = Scan[Body(c)]
        /\ c.pc \in {"review", "hold", "required", "consume"} =>
               Judged(x, c.dir, c.id, Body(c), [dec |-> "review", why |-> c.why])
        /\ c.pc \in {"release", "accept"} =>
               Passed(x, c.dir, c.id, Body(c), c.dec, c.why)
    <3>1. c.pc = "model" => x[d] = log[d]
      BY <2>4, <2>5 DEF d
    <3> HIDE DEF x, c
    <3> QED BY <2>4, <2>6, <3>1
  <2>8. ScanAt(x, c.dir, c.id) = d /\ approved' = approved /\ call'[v] = c
    BY <1>0, <1>1, <2>4 DEF d
  <2> HIDE DEF c
  <2>9. Binding(call[v])' = Binding(c) /\ Body(call[v])' = Body(c)
    BY <2>8 DEF Binding, Body
  <2> QED BY <2>6, <2>7, <2>8, <2>9 DEF Evaluated
<1> QED BY <1>3, <1>4

\* The decision on a message, once the model has answered.
LEMMA EffectiveIs ==
    ASSUME NEW det, NEW m
    PROVE  LET v == EffectiveDecision(det, m) IN
           /\ v.dec \in {"review", m}
           /\ \A dec : v.dec = dec => v = [dec |-> dec, why |-> v.why]
BY DEF EffectiveDecision

\* A call's own evaluation goes on as the log says.
LEMMA OwnEvaluation ==
    ASSUME TInv, GInv, NEW w \in Worker, Step(w), call'[w].pc \in Deciding
    PROVE  Evaluated(call[w])'
<1> DEFINE c == call[w]
           d == call'[w]
           D == ScanAt(log, c.dir, c.id)
           M == ModelAt(log, c.dir, c.id)
<1>0. /\ call \in [Worker -> Call] /\ c \in Call /\ CallOK(c) /\ log \in Seq(Entry)
      /\ Len(log) \in Nat
      /\ c.pc \in Deciding => Evaluated(c)
  BY DEF TInv, TypeOK, GInv
<1>1. approved' = approved
  BY StepFrame
<1>2. D \in 0..Len(log) /\ M \in 0..Len(log)
  BY <1>0, LatestWithin DEF ScanAt, ModelAt
\* What is left to show, from the fields of the call.
<1>3. ASSUME d.dir = c.dir, d.id = c.id, d.what = c.what
      PROVE  Body(d) = Body(c) /\ Binding(d) = Binding(c)
  BY <1>3 DEF Body, Binding
<1>4. CASE DeterministicGuard(w)
  <2> DEFINE e == DeterministicVerdict(c)
  <2>1. log' = Append(log, e) /\ c.pc = "scan" /\ e \in Appending(c)
    BY <1>4 DEF DeterministicGuard, Commit, Appending
  <2>2. e \in Entry
    BY <1>0, <2>1, Appendable
  <2>3. /\ e.type = "deterministic_guard" /\ e.dir = c.dir /\ e.id = c.id
        /\ e.dec = Scan[Body(c)]
    BY DEF DeterministicVerdict, EntryOf
  <2>4. d = [c EXCEPT !.pc = "model", !.dec = Scan[Body(c)]]
    <3>1. CASE Scan[Body(c)] = "deny"
      <4>1. d = After(c, [dec |-> "deny", why |-> "scan"])
        BY <1>0, <1>4, <3>1 DEF DeterministicGuard, Commit
      <4>2. d.pc = "deny"
        BY <1>0, <4>1 DEF After, Call
      <4> QED BY <4>2 DEF Deciding
    <3>2. CASE Scan[Body(c)] # "deny"
      BY <1>0, <1>4, <3>2 DEF DeterministicGuard, Commit
    <3> QED BY <3>1, <3>2
  <2>5. /\ d.pc = "model" /\ d.dir = c.dir /\ d.id = c.id /\ d.what = c.what
        /\ d.dec = Scan[Body(c)]
    <3> HIDE DEF c, d
    <3> QED BY <1>0, <2>4 DEF Call
  <2>6. /\ ScanAt(log', c.dir, c.id) = Len(log) + 1
        /\ ModelAt(log', c.dir, c.id) = M
        /\ log'[Len(log) + 1] = e
    <3> HIDE DEF e
    <3>1. /\ ScanAt(log', c.dir, c.id) = Len(log) + 1
          /\ ModelAt(log', c.dir, c.id) = M
      BY <1>0, <2>1, <2>2, <2>3, AppendedLatest DEF ScanAt, ModelAt
    <3>2. log'[Len(log) + 1] = e
      BY <1>0, <2>1, <2>2, Appended
    <3> QED BY <3>1, <3>2
  <2> HIDE DEF e
  <2>7. 0 < Len(log) + 1 /\ M < Len(log) + 1
    BY <1>0, <1>2
  <2>8. Body(d) = Body(c)
    BY <1>3, <2>5
  <2> HIDE DEF c, d, M
  <2>9. LET p == ScanAt(log', d.dir, d.id) IN
        /\ 0 < p /\ ModelAt(log', d.dir, d.id) < p
        /\ log'[p].dec = d.dec /\ d.dec = Scan[Body(d)]
    BY <2>3, <2>5, <2>6, <2>7, <2>8
  <2> QED BY <2>5, <2>9 DEF Evaluated, d, Body
<1>5. ASSUME NEW m \in {"allow", "review", "deny"}, ModelGuard(w, m)
      PROVE  Evaluated(c)'
  <2> DEFINE e == ModelVerdict(c, m)
             v == EffectiveDecision(c.dec, m)
  <2>1. log' = Append(log, e) /\ c.pc = "model" /\ e \in Appending(c)
    BY <1>5 DEF ModelGuard, Commit, Appending
  <2>2. e \in Entry
    BY <1>0, <2>1, Appendable
  <2>3. /\ e.type = "model_guard" /\ e.dir = c.dir /\ e.id = c.id
        /\ e.dec = m
    BY DEF ModelVerdict, EntryOf
  <2>4. d = After(c, v)
    BY <1>0, <1>5 DEF ModelGuard, Commit
  <2>5. /\ d.dir = c.dir /\ d.id = c.id /\ d.what = c.what
        /\ d.dec = v.dec /\ d.why = v.why
        /\ d.pc = (CASE v.dec = "deny"   -> "deny"
                     [] v.dec = "review" -> "review"
                     [] OTHER -> IF c.dir = "outbound" THEN "release" ELSE "accept")
    <3> HIDE DEF c, d, v
    <3> QED BY <1>0, <2>4 DEF After, Call
  <2>6. /\ ScanAt(log', c.dir, c.id) = D
        /\ ModelAt(log', c.dir, c.id) = Len(log) + 1
        /\ log'[Len(log) + 1] = e
    <3> HIDE DEF e
    <3>1. /\ ScanAt(log', c.dir, c.id) = D
          /\ ModelAt(log', c.dir, c.id) = Len(log) + 1
      BY <1>0, <2>1, <2>2, <2>3, AppendedLatest DEF ScanAt, ModelAt
    <3>2. log'[Len(log) + 1] = e
      BY <1>0, <2>1, <2>2, Appended
    <3> QED BY <3>1, <3>2
  <2>7. 0 < D /\ log[D].dec = c.dec /\ c.dec = Scan[Body(c)]
    BY <1>0, <2>1 DEF Evaluated, Deciding
  <2>8. log'[D] = log[D] /\ D < Len(log) + 1
    <3> HIDE DEF D, e
    <3>1. D \in 1..Len(log)
      BY <1>0, <1>2, <2>7
    <3> QED BY <1>0, <2>1, <2>2, <3>1, Appended
  <2>9. Body(d) = Body(c)
    BY <1>3, <2>5
  <2> HIDE DEF c, d, D, v, e
  <2>10. Judged(log', d.dir, d.id, Body(d), v)
    BY <2>3, <2>5, <2>6, <2>7, <2>8, <2>9 DEF Judged, v
  <2>11. /\ v.dec \in {"allow", "review", "deny"}
         /\ \A dec : v.dec = dec => v = [dec |-> dec, why |-> d.why]
    BY <2>5, EffectiveIs DEF v
  <2>12. /\ d.pc # "model" /\ d.pc # "consume" /\ d.dec # "review_approved"
         /\ d.pc \in {"review", "hold", "required", "consume"} => v.dec = "review"
         /\ d.pc \in {"release", "accept"} => v.dec = "allow"
    BY <2>5, <2>11
  <2>13. /\ d.pc \in {"review", "hold", "required", "consume"} =>
               Judged(log', d.dir, d.id, Body(d), [dec |-> "review", why |-> d.why])
         /\ d.pc \in {"release", "accept"} =>
               Passed(log', d.dir, d.id, Body(d), d.dec, d.why)
    BY <2>5, <2>10, <2>11, <2>12 DEF Passed
  <2> QED BY <2>12, <2>13 DEF Evaluated, c, d, Body
<1>6. CASE (CheckApproval(w) /\ ~ Finish(w)) \/ SavePending(w)
  <2>1. PICK pc \in {"consume", "hold", "required"} :
            /\ log' = log /\ call' = [call EXCEPT ![w].pc = pc]
            /\ c.pc \in {"review", "hold"}
            /\ pc = "consume" => approved[c.id] = Binding(c)
    BY <1>6 DEF CheckApproval, SavePending, Moves
  <2>2. d = [c EXCEPT !.pc = pc]
    BY <1>0, <2>1
  <2>3. /\ d.pc = pc /\ d.dir = c.dir /\ d.id = c.id /\ d.what = c.what
        /\ d.why = c.why
    <3> HIDE DEF c, d
    <3> QED BY <1>0, <2>2, MovedFields
  <2>4. Judged(log, c.dir, c.id, Body(c), [dec |-> "review", why |-> c.why])
    BY <1>0, <2>1 DEF Evaluated, Deciding
  <2>5. Body(d) = Body(c) /\ Binding(d) = Binding(c)
    BY <1>3, <2>3
  <2> HIDE DEF c, d
  <2>6. /\ Judged(log', d.dir, d.id, Body(d), [dec |-> "review", why |-> d.why])
        /\ d.pc = "consume" => approved'[d.id] = Binding(d)
    BY <1>1, <2>1, <2>3, <2>4, <2>5
  <2> QED BY <2>1, <2>3, <2>6 DEF Evaluated, c, d, Body, Binding
<1>7. CASE ConsumeApproval(w)
  <2> DEFINE e == ApprovalUsed(c)
             pc == IF c.dir = "outbound" THEN "release" ELSE "accept"
  <2>1. log' = Append(log, e) /\ c.pc = "consume" /\ e \in Appending(c)
    BY <1>7 DEF ConsumeApproval, Commit, Appending
  <2>2. e \in Entry
    BY <1>0, <2>1, Appendable
  <2>3. e.type = "approval_consumed" /\ e.dir = c.dir /\ e.id = c.id
    BY DEF ApprovalUsed, EntryOf
  <2>4. d = [c EXCEPT !.pc = pc, !.dec = "review_approved", !.ref = NextSeq]
    BY <1>0, <1>7 DEF ConsumeApproval, Commit
  <2>5. /\ d.dir = c.dir /\ d.id = c.id /\ d.what = c.what
        /\ d.dec = "review_approved" /\ d.why = c.why /\ d.pc = pc
    <3> HIDE DEF c, d, pc
    <3> QED BY <1>0, <2>4 DEF Call
  <2>6. /\ Judged(log, c.dir, c.id, Body(c), [dec |-> "review", why |-> c.why])
        /\ approved[c.id] = Binding(c)
    BY <1>0, <2>1 DEF Evaluated, Deciding
  <2>7. /\ Judged(log', c.dir, c.id, Body(c), [dec |-> "review", why |-> c.why])
        /\ ModelAt(log', c.dir, c.id) = M
    <3> HIDE DEF e
    <3> QED BY <1>0, <2>1, <2>2, <2>3, <2>6, JudgedKept
  <2>8. ConsumedAt(log', c.dir, c.id) = Len(log) + 1
    <3> HIDE DEF e
    <3> QED BY <1>0, <2>1, <2>2, <2>3, AppendedLatest DEF ConsumedAt
  <2>9. Len(log) + 1 > M
    BY <1>0, <1>2
  <2>10. Body(d) = Body(c) /\ Binding(d) = Binding(c)
    BY <1>3, <2>5
  <2>11. pc \in {"release", "accept"}
    OBVIOUS
  <2> HIDE DEF c, d, M, e, pc
  <2>12. Passed(log', d.dir, d.id, Body(d), d.dec, d.why) /\ approved'[d.id] = Binding(d)
    BY <1>1, <2>5, <2>6, <2>7, <2>8, <2>9, <2>10 DEF Passed
  <2> QED BY <2>5, <2>11, <2>12 DEF Evaluated, c, d, Body, Binding
<1> QED BY <1>4, <1>5, <1>6, <1>7, EvaluationSteps

\* What an approval binds is never the absent value.
LEMMA BoundSome ==
    /\ \A c : CallOK(c) /\ c.pc \in Deciding => Binding(c) # None /\ c.id \in MsgId
    /\ \A e : EntryOK(e) /\ e.type \in {"outbound_released", "inbound_accepted"}
              => BoundBy(e) # None /\ e.id \in MsgId
<1>1. ASSUME NEW c, CallOK(c), c.pc \in Deciding
      PROVE  Binding(c) # None /\ c.id \in MsgId
  <2>1. Sending(c) \/ Receiving(c)
    BY <1>1, KindOf DEF Deciding, Evaluating
  <2>2. CASE Sending(c)
    <3>1. c.dir = "outbound" /\ c.id \in OutId /\ c.what \in Text
      BY <1>1, <2>2 DEF Sending, Deciding
    <3>2. Binding(c) \in Proposal
      BY <3>1 DEF Binding, Proposal
    <3> QED BY <3>1, <3>2, AbsentAssumption DEF MsgId
  <2>3. CASE Receiving(c)
    <3>1. c.dir = "inbound" /\ c.id \in InId /\ c.what \in Inbound
      BY <2>3 DEF Receiving
    <3>2. Binding(c) \in Proposal
      BY <3>1 DEF Binding, Proposal
    <3> QED BY <3>1, <3>2, AbsentAssumption DEF MsgId
  <2> QED BY <2>1, <2>2, <2>3
<1>2. ASSUME NEW e, EntryOK(e), e.type \in {"outbound_released", "inbound_accepted"}
      PROVE  BoundBy(e) # None /\ e.id \in MsgId
  <2>1. CASE e.type = "outbound_released"
    <3>1. e.dir = "outbound" /\ e.id \in OutId /\ e.what.body \in Text
      BY <1>2, <2>1 DEF EntryOK, Envelope
    <3>2. BoundBy(e) \in Proposal
      BY <3>1 DEF BoundBy, Proposal
    <3> QED BY <3>1, <3>2, AbsentAssumption DEF MsgId
  <2>2. CASE e.type = "inbound_accepted"
    <3>1. e.dir = "inbound" /\ e.id \in InId /\ e.what \in Inbound
      BY <1>2, <2>2 DEF EntryOK
    <3>2. BoundBy(e) \in Proposal
      BY <3>1 DEF BoundBy, Proposal
    <3> QED BY <3>1, <3>2, AbsentAssumption DEF MsgId
  <2> QED BY <1>2, <2>1, <2>2
<1> QED BY <1>1, <1>2

\* The guarded entries of the log.
Passing(l) ==
    \A i \in DOMAIN l : l[i].type \in {"outbound_released", "inbound_accepted"} =>
        Passed(SubSeq(l, 1, i - 1), l[i].dir, l[i].id, l[i].what.body, l[i].dec, l[i].why)
Approved(l) ==
    \A i \in DOMAIN l : l[i].type \in {"outbound_released", "inbound_accepted"} =>
        (l[i].dec = "review_approved" => approved[l[i].id] = BoundBy(l[i]))

LEMMA GInvIs ==
    GInv <=> /\ \A w \in Worker : call[w].pc \in Deciding => Evaluated(call[w])
             /\ Passing(log) /\ Approved(log)
<1>1. (\A i \in DOMAIN log : log[i].type \in {"outbound_released", "inbound_accepted"} =>
           /\ Passed(SubSeq(log, 1, i - 1), log[i].dir, log[i].id, log[i].what.body,
                     log[i].dec, log[i].why)
           /\ log[i].dec = "review_approved" => approved[log[i].id] = BoundBy(log[i]))
      <=> Passing(log) /\ Approved(log)
  BY DEF Passing, Approved
<1> QED BY <1>1 DEF GInv

LEMMA PassingAppended ==
    ASSUME NEW l \in Seq(Entry), NEW e \in Entry, Passing(l), Approved(l),
           e.type \in {"outbound_released", "inbound_accepted"} =>
               /\ Passed(l, e.dir, e.id, e.what.body, e.dec, e.why)
               /\ e.dec = "review_approved" => approved[e.id] = BoundBy(e)
    PROVE  Passing(Append(l, e)) /\ Approved(Append(l, e))
<1> DEFINE m == Append(l, e)
           n == Len(l) + 1
<1>1. /\ DOMAIN m = DOMAIN l \cup {n} /\ m[n] = e
      /\ \A i \in DOMAIN l : m[i] = l[i]
      /\ \A i \in DOMAIN l : SubSeq(m, 1, i - 1) = SubSeq(l, 1, i - 1)
      /\ SubSeq(m, 1, n - 1) = l
  BY Appended, Before
<1> HIDE DEF m, n
<1>2. Passing(m)
  <2> SUFFICES ASSUME NEW i \in DOMAIN m,
                      m[i].type \in {"outbound_released", "inbound_accepted"}
               PROVE  Passed(SubSeq(m, 1, i - 1), m[i].dir, m[i].id, m[i].what.body,
                             m[i].dec, m[i].why)
    BY DEF Passing
  <2>1. CASE i \in DOMAIN l
    BY <1>1, <2>1 DEF Passing
  <2>2. CASE i = n
    BY <1>1, <2>2
  <2> QED BY <1>1, <2>1, <2>2
<1>3. Approved(m)
  <2> SUFFICES ASSUME NEW i \in DOMAIN m,
                      m[i].type \in {"outbound_released", "inbound_accepted"},
                      m[i].dec = "review_approved"
               PROVE  approved[m[i].id] = BoundBy(m[i])
    BY DEF Approved
  <2>1. CASE i \in DOMAIN l
    BY <1>1, <2>1 DEF Approved
  <2>2. CASE i = n
    BY <1>1, <2>2
  <2> QED BY <1>1, <2>1, <2>2
<1> QED BY <1>2, <1>3 DEF m

LEMMA StepGInv ==
    ASSUME TInv, CInv, SInv, GInv, NEW w \in Worker, Step(w)
    PROVE  GInv'
<1> DEFINE c == call[w]
<1>0. /\ c \in Call /\ CallOK(c) /\ log \in Seq(Entry)
      /\ c.pc \in Deciding => Evaluated(c)
      /\ Passing(log) /\ Approved(log)
  BY GInvIs DEF TInv, TypeOK
<1>1. approved' = approved
  BY StepFrame
<1>2. \A v \in Worker : call'[v].pc \in Deciding => Evaluated(call[v])'
  BY OwnEvaluation, OtherEvaluation
<1>3. Passing(log') /\ Approved(log')
  <2>1. CASE log' = log
    BY <1>0, <2>1
  <2>2. ASSUME NEW e \in Appending(c), log' = Append(log, e)
        PROVE  Passing(log') /\ Approved(log')
    <3>1. e \in Entry
      BY <1>0, Appendable
    <3>2. ASSUME e.type \in {"outbound_released", "inbound_accepted"}
          PROVE  /\ Passed(log, e.dir, e.id, e.what.body, e.dec, e.why)
                 /\ e.dec = "review_approved" => approved[e.id] = BoundBy(e)
      <4>1. /\ c.pc \in {"release", "accept"}
            /\ \/ e = Released(c) /\ c.dir = "outbound"
               \/ e = Accepted(c) /\ c.dir = "inbound"
        BY <1>0, <3>2, EntryOwner DEF Sending, Receiving
      <4>2. /\ e.dir = c.dir /\ e.id = c.id /\ e.what.body = Body(c)
            /\ e.dec = c.dec /\ e.why = c.why
        <5> HIDE DEF c
        <5>1. CASE e = Released(c) /\ c.dir = "outbound"
          BY <5>1 DEF Released, EntryOf, SignedEnvelope, Body
        <5>2. CASE e = Accepted(c) /\ c.dir = "inbound"
          BY <5>2 DEF Accepted, EntryOf, Body
        <5> QED BY <4>1, <5>1, <5>2
      <4>3. BoundBy(e) = Binding(c)
        <5> HIDE DEF c
        <5>1. CASE e = Released(c) /\ c.dir = "outbound"
          BY <4>2, <5>1 DEF BoundBy, Binding, Body
        <5>2. CASE e = Accepted(c) /\ c.dir = "inbound"
          <6>1. e.what = c.what
            BY <5>2 DEF Accepted, EntryOf
          <6> QED BY <4>2, <5>2, <6>1 DEF BoundBy, Binding
        <5> QED BY <4>1, <5>1, <5>2
      <4>4. /\ Passed(log, c.dir, c.id, Body(c), c.dec, c.why)
            /\ c.dec = "review_approved" => approved[c.id] = Binding(c)
        BY <1>0, <4>1 DEF Evaluated, Deciding
      <4> HIDE DEF c
      <4> QED BY <4>2, <4>3, <4>4
    <3>3. Passing(Append(log, e)) /\ Approved(Append(log, e))
      BY <1>0, <3>1, <3>2, PassingAppended
    <3> QED BY <2>2, <3>3
  <2> QED BY <2>1, <2>2, StepAppends
<1>4. \A i \in DOMAIN log' : log'[i].type \in {"outbound_released", "inbound_accepted"} =>
          /\ Passed(SubSeq(log', 1, i - 1), log'[i].dir, log'[i].id, log'[i].what.body,
                    log'[i].dec, log'[i].why)
          /\ log'[i].dec = "review_approved" => approved'[log'[i].id] = BoundBy(log'[i])
  BY <1>1, <1>3 DEF Passing, Approved
<1> QED BY <1>2, <1>4 DEF GInv

\* An approval once given is never changed.
LEMMA ApprovalsKept ==
    ASSUME TInv, [Next]_vars, NEW id \in MsgId, approved[id] # None
    PROVE  approved'[id] = approved[id]
<1>1. CASE approved' = approved
  BY <1>1
<1>2. ASSUME NEW j \in MsgId, Approve(j) PROVE approved'[id] = approved[id]
  <2>1. PICK a : approved' = [approved EXCEPT ![j] = a] /\ approved[j] = None
    BY <1>2 DEF Approve
  <2> QED BY <2>1 DEF TInv, TypeOK
<1>3. (\E j \in MsgId : Approve(j)) \/ approved' = approved
  <2>1. ASSUME NEW w \in Worker, Step(w) PROVE approved' = approved
    BY <2>1, StepFrame
  <2>2. ASSUME NEW w \in Worker, Begins(w) PROVE approved' = approved
    BY <2>2, BeginsKeeps
  <2>3. Crash \/ Start => approved' = approved
    BY DEF Crash, Start, approvals
  <2>4. Aside => (\E j \in MsgId : Approve(j)) \/ approved' = approved
    BY DEF Aside, SendCached, ReceiveCached, Shutdown, CloseLog, StartFails, vars, approvals
  <2> QED BY <2>1, <2>2, <2>3, <2>4, NextIs
<1> QED BY <1>1, <1>2, <1>3

LEMMA InitGInv == Init => GInv
<1> SUFFICES ASSUME Init PROVE GInv
  OBVIOUS
<1>1. log = << >> /\ \A w \in Worker : call[w].pc \notin Deciding
  BY IdleOK DEF Init, Deciding
<1> QED BY <1>1 DEF GInv

\* A start's own entry is about no evaluation.
LEMMA StartedEvaluates ==
    ASSUME NEW l \in Seq(Entry), NEW dir, NEW id
    PROVE  LET m == Append(l, Started) IN
           /\ ScanAt(m, dir, id) = ScanAt(l, dir, id)
           /\ ModelAt(m, dir, id) = ModelAt(l, dir, id)
           /\ ScanAt(l, dir, id) > 0 => m[ScanAt(l, dir, id)] = l[ScanAt(l, dir, id)]
           /\ \A body, v : Judged(l, dir, id, body, v) => Judged(m, dir, id, body, v)
           /\ \A body, dec, why :
                  Passed(l, dir, id, body, dec, why) => Passed(m, dir, id, body, dec, why)
<1>1. ~ EvaluatesFor(Started, dir, id)
  BY DEF Started, EntryOf, Evaluates, EvaluatesFor
<1> QED BY <1>1, StartedOK, EvaluationKept

\* Outside the steps of the running calls, no evaluation goes on.
LEMMA AsideGInv ==
    ASSUME TInv, GInv, [Next]_vars,
           \A w \in Worker : call'[w].pc \in Deciding => call'[w] = call[w],
           log' = log \/ log' = Append(log, Started)
    PROVE  GInv'
<1>0. /\ log \in Seq(Entry) /\ Started \in Entry /\ ~ Evaluates(Started)
      /\ Started.type \notin {"outbound_released", "inbound_accepted"}
      /\ call \in [Worker -> Call] /\ \A w \in Worker : CallOK(call[w])
      /\ \A i \in DOMAIN log : EntryOK(log[i])
      /\ Passing(log) /\ Approved(log)
  <2>1. ~ Evaluates(Started) /\ Started.type \notin {"outbound_released", "inbound_accepted"}
    BY DEF Started, EntryOf, Evaluates
  <2> QED BY <2>1, StartedOK, GInvIs DEF TInv, TypeOK
<1>1. Passing(log') /\ Approved(log')
  BY <1>0, PassingAppended
<1>2. \A i \in DOMAIN log' : EntryOK(log'[i])
  BY LogKept
<1>3. \A i \in DOMAIN log' : log'[i].type \in {"outbound_released", "inbound_accepted"} =>
          /\ Passed(SubSeq(log', 1, i - 1), log'[i].dir, log'[i].id, log'[i].what.body,
                    log'[i].dec, log'[i].why)
          /\ log'[i].dec = "review_approved" => approved'[log'[i].id] = BoundBy(log'[i])
  <2> SUFFICES ASSUME NEW i \in DOMAIN log',
                      log'[i].type \in {"outbound_released", "inbound_accepted"}
               PROVE  /\ Passed(SubSeq(log', 1, i - 1), log'[i].dir, log'[i].id,
                                log'[i].what.body, log'[i].dec, log'[i].why)
                      /\ log'[i].dec = "review_approved" =>
                             approved'[log'[i].id] = BoundBy(log'[i])
    OBVIOUS
  <2>1. Passed(SubSeq(log', 1, i - 1), log'[i].dir, log'[i].id, log'[i].what.body,
               log'[i].dec, log'[i].why)
    BY <1>1 DEF Passing
  <2>2. ASSUME log'[i].dec = "review_approved"
        PROVE  approved'[log'[i].id] = BoundBy(log'[i])
    <3>1. approved[log'[i].id] = BoundBy(log'[i])
      BY <1>1, <2>2 DEF Approved
    <3>2. BoundBy(log'[i]) # None /\ log'[i].id \in MsgId
      BY <1>2, BoundSome
    <3> QED BY <3>1, <3>2, ApprovalsKept
  <2> QED BY <2>1, <2>2
<1>4. ASSUME NEW w \in Worker, call'[w].pc \in Deciding PROVE Evaluated(call[w])'
  <2> DEFINE c == call[w]
             dir == c.dir
             id == c.id
  <2>1. call'[w] = c /\ c.pc \in Deciding /\ Evaluated(c) /\ CallOK(c)
    BY <1>0, <1>4 DEF GInv
  <2>2. c.pc \in Deciding => Binding(c) # None /\ c.id \in MsgId
    <3> HIDE DEF c
    <3> QED BY <2>1, BoundSome
  <2>3. /\ c.pc = "consume" \/ (c.pc \in {"release", "accept"} /\ c.dec = "review_approved")
               => approved[c.id] = Binding(c)
    BY <2>1 DEF Evaluated
  <2>4. /\ c.pc = "consume" \/ (c.pc \in {"release", "accept"} /\ c.dec = "review_approved")
               => approved'[c.id] = Binding(c)
    <3> HIDE DEF c
    <3> QED BY <2>1, <2>2, <2>3, ApprovalsKept
  <2>5. Body(call[w])' = Body(c) /\ Binding(call[w])' = Binding(c)
    BY <2>1 DEF Body, Binding
  <2>6. LET d == ScanAt(log', dir, id) IN
        /\ c.pc = "model" =>
               /\ 0 < d /\ ModelAt(log', dir, id) < d
               /\ log'[d].dec = c.dec /\ c.dec = Scan[Body(c)]
        /\ c.pc \in {"review", "hold", "required", "consume"} =>
               Judged(log', dir, id, Body(c), [dec |-> "review", why |-> c.why])
        /\ c.pc \in {"release", "accept"} =>
               Passed(log', dir, id, Body(c), c.dec, c.why)
    <3>1. LET d == ScanAt(log, dir, id) IN
          /\ c.pc = "model" =>
                 /\ 0 < d /\ ModelAt(log, dir, id) < d
                 /\ log[d].dec = c.dec /\ c.dec = Scan[Body(c)]
          /\ c.pc \in {"review", "hold", "required", "consume"} =>
                 Judged(log, dir, id, Body(c), [dec |-> "review", why |-> c.why])
          /\ c.pc \in {"release", "accept"} =>
                 Passed(log, dir, id, Body(c), c.dec, c.why)
      BY <2>1 DEF Evaluated
    <3> HIDE DEF dir, id, c
    <3>2. CASE log' = log
      BY <3>1, <3>2
    <3>3. CASE log' = Append(log, Started)
      <4>1. log \in Seq(Entry)
        BY <1>0
      <4>2. /\ ScanAt(log', dir, id) = ScanAt(log, dir, id)
            /\ ModelAt(log', dir, id) = ModelAt(log, dir, id)
            /\ ScanAt(log, dir, id) > 0 =>
                   log'[ScanAt(log, dir, id)] = log[ScanAt(log, dir, id)]
            /\ \A body, v : Judged(log, dir, id, body, v) => Judged(log', dir, id, body, v)
            /\ \A body, dec, why : Passed(log, dir, id, body, dec, why)
                                       => Passed(log', dir, id, body, dec, why)
        BY <3>3, <4>1, StartedEvaluates
      <4>3. ScanAt(log, dir, id) \in 0..Len(log) /\ Len(log) \in Nat
        BY <1>0, LatestWithin DEF ScanAt
      <4> QED BY <3>1, <4>2, <4>3
    <3> QED BY <3>2, <3>3
  <2> QED BY <2>1, <2>4, <2>5, <2>6 DEF Evaluated
<1> QED BY <1>3, <1>4 DEF GInv

LEMMA NextGInv == TInv /\ CInv /\ SInv /\ GInv /\ [Next]_vars => GInv'
<1> SUFFICES ASSUME TInv, CInv, SInv, GInv, [Next]_vars PROVE GInv'
  OBVIOUS
<1>0. Idle.pc \notin Deciding /\ call \in [Worker -> Call]
  BY IdleOK DEF TInv, TypeOK, Deciding
<1>1. ASSUME NEW w \in Worker, Step(w) PROVE GInv'
  BY <1>1, StepGInv
<1>2. ASSUME NEW w \in Worker, Begins(w) PROVE GInv'
  <2>1. log' = log /\ \A v \in Worker \ {w} : call'[v] = call[v]
    BY <1>0, <1>2, BeginsKeeps, StartGoes DEF Begins
  <2>2. call'[w].pc \notin Deciding
    BY <1>0, <1>2, BeginsAt DEF Deciding
  <2> QED BY <2>1, <2>2, AsideGInv
<1>3. CASE Crash
  <2>1. call' = [w \in Worker |-> Idle] /\ log' = log
    BY <1>3 DEF Crash
  <2> QED BY <1>0, <2>1, AsideGInv
<1>4. CASE Start
  <2>1. call' = call /\ log' = Append(log, Started)
    BY <1>4 DEF Start
  <2> QED BY <2>1, AsideGInv
<1>5. CASE Aside
  <2>1. call' = call /\ (log' = log \/ log' = Append(log, Started))
    BY <1>5, AsideKeeps
  <2> QED BY <2>1, AsideGInv
<1> QED BY <1>1, <1>2, <1>3, <1>4, <1>5, NextIs

LEMMA EvaluationsInvariant == Spec => []GInv
<1>1. Init => GInv
  BY InitGInv
<1>2. TInv /\ CInv /\ SInv /\ GInv /\ [Next]_vars => GInv'
  BY NextGInv
<1> QED BY <1>1, <1>2, TypesInvariant, ClaimsInvariant, SendsInvariant, PTL DEF Spec

\* Nothing is released or accepted but by the evaluation just before it, of the
\* same text: an effective allow, or an effective review and the consumption of
\* an approval of exactly this message after it (Guarded).
THEOREM GuardHolds == Spec => []Guarded
<1>1. TInv /\ GInv => Guarded
  BY GuardedIs DEF GInv, Guarded, Types, TInv, TypeOK
<1> QED BY <1>1, TypesInvariant, EvaluationsInvariant, PTL

(***************************************************************************)
(* Inbox: with one call at a time, no message is skipped.                  *)
(***************************************************************************)

Lists(x, s) == \E i \in DOMAIN x : x[i].seq = s

\* The inbox lists accepted messages in the order of the log, with no gaps.
Ordered(x) == \A i, j \in DOMAIN x : i < j => x[i].seq < x[j].seq
Listed(x, l) == \A i \in DOMAIN x : x[i].seq \in Acceptances(l)
NoGap(x, l) ==
    \A s \in Acceptances(l) : (\E i \in DOMAIN x : s <= x[i].seq) => Lists(x, s)

\* A call about to publish holds the one acceptance the inbox does not list.
PublishesNext(c) ==
    /\ c.ref \in Acceptances(log)
    /\ \A i \in DOMAIN index.inbox : index.inbox[i].seq < c.ref
    /\ \A s \in Acceptances(log) : s = c.ref \/ Lists(index.inbox, s)

\* A page leaves nothing out between the cursor and its last message.
PageFull(page) ==
    \A s \in Acceptances(log) :
        cursor < s /\ (\E k \in DOMAIN page : s <= page[k].seq) => Lists(page, s)

OInv ==
    /\ Ordered(index.inbox) /\ Listed(index.inbox, log) /\ NoGap(index.inbox, log)
    /\ \A w \in Worker : call[w].pc = "accepted" => PublishesNext(call[w])
    /\ \A w \in Worker : call[w].pc = "read" => PageFull(call[w].page)
    /\ \A v, w \in Worker : call[v].pc = "read" /\ call[w].pc = "read" => v = w
    /\ \A s \in Acceptances(log) : s <= cursor => s \in fetched


\* With one slot, two calls that hold a claim are one call.
LEMMA OneClaim ==
    ASSUME CInv, MaxConcurrent = 1, NEW v \in Worker, NEW w \in Worker,
           call[v].key # None, call[w].key # None
    PROVE  v = w
<1> DEFINE a == call[v].key
           b == call[w].key
<1>1. a \in active /\ b \in active /\ IsFiniteSet(active) /\ Cardinality(active) <= 1
  BY DEF CInv, ClaimsExact
<1>2. ASSUME a # b PROVE FALSE
  <2>1. IsFiniteSet({a}) /\ Cardinality({a}) = 1
    BY FS_Singleton
  <2>2. Cardinality({a} \cup {b}) = 2
    BY <1>2, <2>1, FS_AddElement
  <2>3. {a} \cup {b} \in SUBSET active
    BY <1>1
  <2>4. Cardinality({a} \cup {b}) <= Cardinality(active)
    BY <1>1, <2>3, FS_Subset
  <2>5. Cardinality(active) \in Nat
    BY <1>1, FS_CardinalityType
  <2> QED BY <1>1, <2>2, <2>4, <2>5
<1> QED BY <1>2 DEF CInv, ClaimsExact

\* A call that accepts, or is about to publish, holds a claim.
LEMMA AcceptingClaims ==
    ASSUME TInv, NEW w \in Worker, call[w].pc \in {"accept", "accepted"}
    PROVE  call[w].key # None
<1>1. Receiving(call[w])
  <2>1. CallOK(call[w])
    BY DEF TInv
  <2> QED BY <2>1, IdleOK DEF CallOK, Sending, Confirming, Reading, Sends, Evaluating
<1> QED BY <1>1, ReceiveKey

\* New acceptances come behind all of the log.
LEMMA AcceptancesKept ==
    ASSUME TInv, [Next]_vars
    PROVE  /\ Acceptances(log) \subseteq Acceptances(log')
           /\ Acceptances(log') \subseteq DOMAIN log'
           /\ \A s \in Acceptances(log') : s <= Len(log) => s \in Acceptances(log)
BY LogKept DEF Acceptances

\* The rebuilt inbox lists every acceptance, in order.
LEMMA RebuiltOrdered ==
    ASSUME NEW l \in Seq(Entry)
    PROVE  /\ Ordered(RebuiltInbox(l)) /\ Listed(RebuiltInbox(l), l)
           /\ NoGap(RebuiltInbox(l), l)
<1> DEFINE A == Acceptances(l)
           order == InOrder(A)
           n == Cardinality(A)
<1>1. A \in SUBSET (1..Len(l)) /\ Len(l) \in Nat
  BY PositionsWithin
<1>2. /\ n \in Nat /\ Len(order) = n
      /\ \A k \in 1..n : order[k] \in A
      /\ \A i \in A : \E k \in 1..n : order[k] = i
      /\ \A j, k \in 1..n : j < k => order[j] < order[k]
  BY <1>1, InOrderIs
<1>3. RebuiltInbox(l) = [k \in 1..n |-> [id |-> l[order[k]].id, env |-> l[order[k]].what,
                                         seq |-> order[k]]]
  BY <1>2 DEF RebuiltInbox, Acceptances
<1> HIDE DEF order, n, A
<1>4. DOMAIN RebuiltInbox(l) = 1..n /\ \A k \in 1..n : RebuiltInbox(l)[k].seq = order[k]
  BY <1>3
<1>5. \A s \in A : Lists(RebuiltInbox(l), s)
  BY <1>2, <1>4 DEF Lists
<1>6. Ordered(RebuiltInbox(l))
  BY <1>2, <1>4 DEF Ordered
<1>7. Listed(RebuiltInbox(l), l)
  BY <1>2, <1>4 DEF Listed, A
<1> QED BY <1>5, <1>6, <1>7 DEF NoGap, A

\* An inbox that stays stays in order, whatever is appended to the log.
LEMMA InboxStays ==
    ASSUME TInv, [Next]_vars, index'.inbox = index.inbox,
           Ordered(index.inbox), Listed(index.inbox, log), NoGap(index.inbox, log)
    PROVE  Ordered(index'.inbox) /\ Listed(index'.inbox, log') /\ NoGap(index'.inbox, log')
<1> DEFINE x == index.inbox
<1>1. /\ \A i \in DOMAIN x : x[i].seq \in Nat /\ x[i].seq <= Len(log)
      /\ Len(log) \in Nat
      /\ \A s \in Acceptances(log') : s \in Nat
  <2>1. \A i \in DOMAIN x : x[i].seq \in DOMAIN log
    BY DEF TInv, Placed
  <2> QED BY <2>1, LogKept, AcceptancesKept
<1>2. Listed(x, log')
  BY AcceptancesKept DEF Listed
<1>3. NoGap(x, log')
  <2> SUFFICES ASSUME NEW s \in Acceptances(log'), NEW i \in DOMAIN x, s <= x[i].seq
               PROVE  Lists(x, s)
    BY DEF NoGap
  <2> HIDE DEF x
  <2>1. s <= Len(log)
    BY <1>1
  <2> QED BY <2>1, AcceptancesKept DEF NoGap, x
<1> QED BY <1>2, <1>3

\* Publishing appends the one acceptance the inbox did not list.
LEMMA PublishedOrdered ==
    ASSUME NEW x \in Seq(Message), NEW m \in Message, NEW l \in Seq(Entry),
           Ordered(x), Listed(x, l), m.seq \in Acceptances(l),
           \A i \in DOMAIN x : x[i].seq < m.seq,
           \A s \in Acceptances(l) : s = m.seq \/ Lists(x, s)
    PROVE  Ordered(Append(x, m)) /\ Listed(Append(x, m), l) /\ NoGap(Append(x, m), l)
<1> DEFINE y == Append(x, m)
           n == Len(x)
<1>1. /\ n \in Nat /\ DOMAIN x = 1..n /\ DOMAIN y = 1..(n + 1)
      /\ y[n + 1] = m /\ \A i \in 1..n : y[i] = x[i]
  OBVIOUS
<1> HIDE DEF y, n
<1>2. \A i \in 1..(n + 1) : i \in 1..n \/ i = n + 1
  BY <1>1
<1>3. Ordered(y)
  <2> SUFFICES ASSUME NEW i \in 1..(n + 1), NEW j \in 1..(n + 1), i < j
               PROVE  y[i].seq < y[j].seq
    BY <1>1 DEF Ordered
  <2>1. i \in 1..n
    BY <1>1
  <2> QED BY <1>1, <1>2, <2>1 DEF Ordered
<1>4. Listed(y, l)
  BY <1>1, <1>2 DEF Listed
<1>5. NoGap(y, l)
  <2>1. ASSUME NEW s \in Acceptances(l) PROVE Lists(y, s)
    <3>1. CASE s = m.seq
      <4>1. n + 1 \in DOMAIN y
        BY <1>1
      <4> QED BY <1>1, <3>1, <4>1 DEF Lists
    <3>2. CASE Lists(x, s)
      <4>1. PICK i \in 1..n : x[i].seq = s
        BY <1>1, <3>2 DEF Lists
      <4>2. i \in DOMAIN y /\ y[i].seq = s
        BY <1>1, <4>1
      <4> QED BY <4>2 DEF Lists
    <3> QED BY <3>1, <3>2
  <2> QED BY <2>1 DEF NoGap
<1> QED BY <1>3, <1>4, <1>5 DEF y

\* A page selected from an ordered inbox leaves nothing out.
LEMMA PageSelected ==
    ASSUME TInv, Ordered(index.inbox), NoGap(index.inbox, log)
    PROVE  PageFull(Page)
<1> DEFINE x == index.inbox
           S == {i \in 1..Len(x) : x[i].seq > cursor}
<1>1. /\ x \in Seq(Message) /\ Len(x) \in Nat /\ DOMAIN x = 1..Len(x)
      /\ \A i \in 1..Len(x) : x[i].seq \in Nat
      /\ cursor \in Nat /\ PageLimit \in Nat
  <2>1. log \in Seq(Entry) /\ cursor \in 0..Len(log) /\ x \in Seq(Message)
    BY DEF TInv, TypeOK, Index
  <2>2. \A m \in Message : m.seq \in Nat
    BY DEF Message
  <2> QED BY <2>1, <2>2, MailboxAssumption
<1>2. S \in SUBSET (1..Len(x)) /\ \A i \in 1..Len(x) : x[i].seq > cursor => i \in S
  OBVIOUS
<1>3. Unread = InOrder(S)
  BY DEF Unread
<1> HIDE DEF x, S
<1> DEFINE n == Cardinality(S)
<1>4. /\ n \in Nat /\ Len(Unread) = n
      /\ \A k \in 1..n : Unread[k] \in S
      /\ \A i \in S : \E k \in 1..n : Unread[k] = i
      /\ \A j, k \in 1..n : j < k => Unread[j] < Unread[k]
  BY <1>1, <1>2, <1>3, InOrderIs
<1> HIDE DEF n
<1>5. PageLength \in Nat /\ PageLength <= n
  BY <1>1, <1>4 DEF PageLength
<1>6. DOMAIN Page = 1..PageLength /\ \A k \in 1..PageLength : Page[k] = x[Unread[k]]
  BY DEF Page, x
<1> SUFFICES ASSUME NEW s \in Acceptances(log), cursor < s,
                    NEW k \in 1..PageLength, s <= Page[k].seq
             PROVE  Lists(Page, s)
  BY <1>6 DEF PageFull
<1>7. k \in 1..n /\ Unread[k] \in S /\ Unread[k] \in 1..Len(x) /\ s <= x[Unread[k]].seq
  <2>1. k \in 1..n
    BY <1>4, <1>5
  <2>2. Unread[k] \in S
    BY <1>4, <2>1
  <2>3. Unread[k] \in 1..Len(x)
    BY <1>2, <2>2
  <2>4. Page[k] = x[Unread[k]]
    BY <1>6
  <2> QED BY <2>1, <2>2, <2>3, <2>4
<1>8. PICK i \in 1..Len(x) : x[i].seq = s
  <2>1. Lists(x, s)
    BY <1>1, <1>7 DEF NoGap, x
  <2> QED BY <1>1, <2>1 DEF Lists
<1>9. PICK j \in 1..n : Unread[j] = i
  <2>1. i \in S
    BY <1>1, <1>2, <1>8
  <2> QED BY <1>4, <2>1
<1>10. ~ (k < j)
  <2> SUFFICES ASSUME k < j PROVE FALSE
    OBVIOUS
  <2>1. Unread[k] < i
    BY <1>4, <1>7, <1>9
  <2>2. x[Unread[k]].seq < x[i].seq
    BY <1>1, <1>7, <2>1 DEF Ordered, x
  <2> QED BY <1>1, <1>7, <1>8, <2>2
<1>11. j \in 1..PageLength
  BY <1>4, <1>5, <1>10
<1> QED BY <1>6, <1>8, <1>9, <1>11 DEF Lists

LEMMA InitOInv == Init => OInv
<1> SUFFICES ASSUME Init PROVE OInv
  OBVIOUS
<1>1. << >> \in Seq(Entry) /\ index.inbox = RebuiltInbox(<< >>) /\ log = << >>
  BY DEF Init, Rebuild
<1>2. \A w \in Worker : call[w].pc = "idle"
  BY IdleOK DEF Init
<1>3. Acceptances(log) = {}
  BY <1>1 DEF Acceptances
<1> QED BY <1>1, <1>2, <1>3, RebuiltOrdered DEF OInv

\* The inbox in order, and every message it lacks about to enter it.
LEMMA StepOrdered ==
    ASSUME TInv, CInv, RInv, OInv, MaxConcurrent = 1, NEW w \in Worker, Step(w)
    PROVE  /\ Ordered(index'.inbox) /\ Listed(index'.inbox, log')
           /\ NoGap(index'.inbox, log')
           /\ \A v \in Worker : call'[v].pc = "accepted" => PublishesNext(call[v])'
<1> DEFINE c == call[w]
<1>0. /\ call \in [Worker -> Call] /\ c \in Call /\ CallOK(c) /\ log \in Seq(Entry)
      /\ index \in Index /\ [Next]_vars
      /\ \A v \in Worker \ {w} : call'[v] = call[v]
  <2>1. \A v \in Worker \ {w} : call'[v] = call[v]
    BY StepCalls DEF TInv, TypeOK
  <2> QED BY <2>1 DEF TInv, TypeOK, Next
<1>1. ASSUME ~ Publish(w)
      PROVE  Ordered(index'.inbox) /\ Listed(index'.inbox, log') /\ NoGap(index'.inbox, log')
  <2>1. index'.inbox = index.inbox
    BY <1>1, IndexTouched
  <2> QED BY <1>0, <2>1, InboxStays DEF OInv
<1>2. ASSUME Publish(w)
      PROVE  Ordered(index'.inbox) /\ Listed(index'.inbox, log') /\ NoGap(index'.inbox, log')
  <2> DEFINE view == [id |-> c.id, env |-> c.what, seq |-> c.ref]
  <2>1. /\ c.pc = "accepted" /\ log' = log
        /\ index' = [index EXCEPT !.received[c.id] = AcceptedOf(c),
                                  !.inbox = Append(@, view)]
    BY <1>2 DEF Publish, AcceptedOf
  <2>2. view \in Message
    <3>1. Receiving(c)
      BY <1>0, <2>1, KindOf
    <3>2. c.id \in InId /\ c.what \in Inbound /\ c.ref \in Nat
      BY <1>0, <3>1, ReceiveKey DEF Call
    <3> QED BY <3>2 DEF Message
  <2>3. index'.inbox = Append(index.inbox, view) /\ index.inbox \in Seq(Message)
    <3> HIDE DEF c, view
    <3> QED BY <1>0, <2>1 DEF Index
  <2>4. view.seq = c.ref
    OBVIOUS
  <2>5. PublishesNext(c)
    BY <2>1 DEF OInv
  <2> HIDE DEF view, c
  <2>6. /\ view.seq \in Acceptances(log)
        /\ \A i \in DOMAIN index.inbox : index.inbox[i].seq < view.seq
        /\ \A s \in Acceptances(log) : s = view.seq \/ Lists(index.inbox, s)
    BY <2>4, <2>5 DEF PublishesNext
  <2> QED BY <1>0, <2>1, <2>2, <2>3, <2>6, PublishedOrdered DEF OInv
<1>3. ASSUME NEW v \in Worker \ {w}, call'[v].pc = "accepted"
      PROVE  PublishesNext(call[v])'
  <2>1. /\ call'[v] = call[v] /\ call[v].pc = "accepted"
        /\ PublishesNext(call[v])
    BY <1>0, <1>3 DEF OInv
  <2>2. c.pc \notin {"accept", "accepted"}
    BY <2>1, AcceptingClaims, OneClaim
  <2>3. index'.inbox = index.inbox
    <3>1. Publish(w) => c.pc = "accepted"
      BY DEF Publish
    <3> QED BY <2>2, <3>1, IndexTouched
  <2>4. Acceptances(log') = Acceptances(log)
    <3>1. CASE log' = log
      BY <3>1
    <3>2. CASE log' # log
      <4>1. PICK e \in Appending(c) : log' = Append(log, e)
        BY <3>2, StepAppends
      <4>2. e \in Entry
        BY <1>0, <4>1, Appendable
      <4>3. e.type # "inbound_accepted"
        BY <1>0, <2>2, <4>1, EntryOwner
      <4> QED BY <1>0, <4>1, <4>2, <4>3, AppendedPositions
    <3> QED BY <3>1, <3>2
  <2> QED BY <2>1, <2>3, <2>4 DEF PublishesNext
<1>4. ASSUME call'[w].pc = "accepted"
      PROVE  PublishesNext(call[w])'
  <2> DEFINE e == Accepted(c)
             d == call'[w]
             n == Len(log) + 1
  <2>1. Accept(w)
    BY <1>0, <1>4, StepGoes
  <2>2. /\ c.pc = "accept" /\ index' = index /\ log' = Append(log, e)
        /\ logState = "open"
        /\ d = [c EXCEPT !.pc = "accepted", !.ref = NextSeq]
    BY <2>1, <1>0 DEF Accept, Commit, Usable
  <2>3. d.ref = n
    <3> HIDE DEF c, d
    <3> QED BY <1>0, <2>2, MovedFields DEF NextSeq
  <2>4. e \in Appending(c) /\ e.type = "inbound_accepted"
    BY <2>2 DEF Appending, Accepted, EntryOf
  <2>5. e \in Entry
    BY <1>0, <2>4, Appendable
  <2> HIDE DEF e
  <2>6. Acceptances(log') = Acceptances(log) \cup {n} /\ Len(log) \in Nat
    BY <1>0, <2>2, <2>4, <2>5, AppendedPositions
  <2>7. \A s \in Acceptances(log) : Lists(index.inbox, s)
    <3>1. \A v \in Worker : call[v].pc # "accepted"
      <4>1. \A v \in Worker : call[v].pc = "accepted" => v = w
        BY <2>2, AcceptingClaims, OneClaim
      <4> QED BY <2>2, <4>1
    <3>2. Unpublished = {}
      BY <3>1 DEF Unpublished
    <3>3. Shown(log) = ToSet(index.inbox)
      BY <2>2, <3>2 DEF RInv, InboxShown
    <3> SUFFICES ASSUME NEW s \in Acceptances(log) PROVE Lists(index.inbox, s)
      OBVIOUS
    <3>4. PICK i \in DOMAIN index.inbox :
              index.inbox[i] = [id |-> log[s].id, env |-> log[s].what, seq |-> s]
      BY <3>3 DEF Shown, ToSet
    <3> QED BY <3>4 DEF Lists
  <2>8. \A i \in DOMAIN index.inbox : index.inbox[i].seq < n
    <3>1. \A i \in DOMAIN index.inbox : index.inbox[i].seq \in DOMAIN log
      BY DEF TInv, Placed
    <3> QED BY <1>0, <2>6, <3>1
  <2> QED BY <2>2, <2>3, <2>6, <2>7, <2>8 DEF PublishesNext
<1> QED BY <1>1, <1>2, <1>3, <1>4

\* What the agent was given stays complete as long as it reads nothing new.
LEMMA FetchedStays ==
    ASSUME TInv, OInv, [Next]_vars, cursor' = cursor, fetched' = fetched
    PROVE  \A s \in Acceptances(log') : s <= cursor' => s \in fetched'
<1> SUFFICES ASSUME NEW s \in Acceptances(log'), s <= cursor PROVE s \in fetched
  OBVIOUS
<1>1. s \in Nat /\ cursor \in 0..Len(log) /\ Len(log) \in Nat
  BY LogKept, AcceptancesKept DEF TInv, TypeOK
<1>2. s \in Acceptances(log)
  BY <1>1, AcceptancesKept
<1> QED BY <1>2 DEF OInv

\* Reading a page gives the agent all there is up to its new cursor.
LEMMA ReturnedAll ==
    ASSUME TInv, OInv, NEW w \in Worker, InboxReturn(w)
    PROVE  \A s \in Acceptances(log') : s <= cursor' => s \in fetched'
<1> DEFINE page == call[w].page
           seqs == {page[i].seq : i \in DOMAIN page}
<1>0. [Next]_vars
  BY DEF Next, Step
<1>1. /\ cursor' = Max(seqs \cup {cursor}) /\ fetched' = fetched \cup seqs
      /\ call[w].pc = "read"
  BY DEF InboxReturn
<1>2. /\ cursor \in 0..Len(log) /\ Len(log) \in Nat /\ DOMAIN log = 1..Len(log)
  BY <1>0, LogKept DEF TInv, TypeOK
<1>3. seqs \in SUBSET (1..Len(log)) /\ PageFull(page)
  BY <1>1, <1>2 DEF TInv, Placed, OInv
<1>4. \A t \in seqs : \E k \in DOMAIN page : page[k].seq = t
  OBVIOUS
<1>5. \A s : Lists(page, s) => s \in seqs
  BY DEF Lists
<1> HIDE DEF seqs, page
<1>6. cursor' \in 0..Len(log) /\ cursor' \in seqs \cup {cursor}
  BY <1>1, <1>2, <1>3, MaxWithin
<1> SUFFICES ASSUME NEW s \in Acceptances(log'), s <= cursor' PROVE s \in fetched'
  OBVIOUS
<1>7. s \in Nat /\ s \in Acceptances(log)
  <2>1. s \in Nat
    BY <1>0, LogKept, AcceptancesKept
  <2> QED BY <1>0, <1>2, <1>6, <2>1, AcceptancesKept
<1>8. CASE s <= cursor
  BY <1>1, <1>7, <1>8 DEF OInv
<1>9. CASE ~ (s <= cursor)
  <2>1. cursor < s /\ cursor' \in seqs
    BY <1>2, <1>6, <1>7, <1>9
  <2>2. PICK k \in DOMAIN page : page[k].seq = cursor'
    BY <1>4, <2>1
  <2>3. Lists(page, s)
    BY <1>3, <1>7, <2>1, <2>2 DEF PageFull
  <2> QED BY <1>1, <1>5, <2>3
<1> QED BY <1>8, <1>9

LEMMA StepOInv ==
    ASSUME TInv, CInv, RInv, OInv, MaxConcurrent = 1, NEW w \in Worker, Step(w)
    PROVE  OInv'
<1>0. /\ call \in [Worker -> Call] /\ [Next]_vars
      /\ \A v \in Worker \ {w} : call'[v] = call[v]
  <2>1. \A v \in Worker \ {w} : call'[v] = call[v]
    BY StepCalls DEF TInv, TypeOK
  <2> QED BY <2>1 DEF TInv, TypeOK, Next
<1>1. call'[w].pc # "read"
  BY <1>0, StepGoes
<1>2. \A v \in Worker : call'[v].pc = "read" => v # w /\ call'[v] = call[v]
  BY <1>0, <1>1
<1>3. ASSUME NEW v \in Worker, call'[v].pc = "read"
      PROVE  PageFull(call[v].page)'
  <2>1. v # w /\ call'[v] = call[v] /\ call[v].pc = "read" /\ PageFull(call[v].page)
    BY <1>2, <1>3 DEF OInv
  <2>2. cursor' = cursor
    <3>1. ~ InboxReturn(w)
      BY <2>1 DEF InboxReturn, OInv
    <3> QED BY <3>1, StepFrame
  <2> DEFINE page == call[v].page
  <2>3. \A k \in DOMAIN page : page[k].seq \in DOMAIN log
    BY <2>1 DEF TInv, Placed
  <2>4. call'[v].page = page
    BY <2>1
  <2>5. PageFull(page)
    BY <2>1
  <2>6. \A s \in Acceptances(log') :
            cursor' < s /\ (\E k \in DOMAIN page : s <= page[k].seq) => Lists(page, s)
    <3> HIDE DEF page
    <3> SUFFICES ASSUME NEW s \in Acceptances(log'), cursor < s,
                        NEW k \in DOMAIN page, s <= page[k].seq
                 PROVE  Lists(page, s)
      BY <2>2
    <3>1. /\ s \in Nat /\ page[k].seq \in Nat /\ page[k].seq <= Len(log)
          /\ Len(log) \in Nat
      BY <1>0, <2>3, LogKept, AcceptancesKept
    <3>2. s \in Acceptances(log)
      BY <1>0, <3>1, AcceptancesKept
    <3> QED BY <2>5, <3>2 DEF PageFull
  <2> HIDE DEF page
  <2> QED BY <2>4, <2>6 DEF PageFull
<1>4. \A u, v \in Worker : call'[u].pc = "read" /\ call'[v].pc = "read" => u = v
  BY <1>2 DEF OInv
<1>5. \A s \in Acceptances(log') : s <= cursor' => s \in fetched'
  <2>1. CASE InboxReturn(w)
    BY <2>1, ReturnedAll
  <2>2. CASE cursor' = cursor /\ fetched' = fetched
    BY <1>0, <2>2, FetchedStays
  <2> QED BY <2>1, <2>2, StepFrame
<1> QED BY <1>3, <1>4, <1>5, StepOrdered DEF OInv

LEMMA NextOInv ==
    ASSUME TInv, CInv, RInv, OInv, MaxConcurrent = 1, [Next]_vars
    PROVE  OInv'
<1>0. log \in Seq(Entry) /\ call \in [Worker -> Call] /\ Idle.pc = "idle"
  BY IdleOK DEF TInv, TypeOK
<1>1. ASSUME NEW w \in Worker, Step(w) PROVE OInv'
  BY <1>1, StepOInv
<1>2. ASSUME NEW w \in Worker, Begins(w) PROVE OInv'
  <2>1. /\ log' = log /\ index' = index /\ call[w] = Idle
        /\ cursor' = cursor /\ fetched' = fetched
        /\ \A v \in Worker \ {w} : call'[v] = call[v]
        /\ call'[w].pc # "accepted"
        /\ call'[w].pc = "read" => InboxSelect(w) /\ call'[w].page = Page
    BY <1>0, <1>2, BeginsKeeps, StartGoes DEF Begins
  <2>2. \A v \in Worker : call'[v].pc = "accepted" => PublishesNext(call[v])'
    <3>1. \A v \in Worker : call'[v].pc = "accepted" => call'[v] = call[v]
      BY <2>1
    <3> QED BY <2>1, <3>1 DEF OInv, PublishesNext
  <2>3. \A v \in Worker : call'[v].pc = "read" => PageFull(call[v].page)'
    <3>1. PageFull(Page)
      BY PageSelected DEF OInv
    <3>2. call'[w].pc = "read" => PageFull(call[w].page)'
      BY <2>1, <3>1 DEF PageFull
    <3>3. ASSUME NEW v \in Worker \ {w}, call'[v].pc = "read"
          PROVE  PageFull(call[v].page)'
      <4>1. call'[v] = call[v] /\ PageFull(call[v].page)
        BY <2>1, <3>3 DEF OInv
      <4> QED BY <2>1, <4>1 DEF PageFull
    <3> QED BY <3>2, <3>3
  <2>4. \A u, v \in Worker : call'[u].pc = "read" /\ call'[v].pc = "read" => u = v
    <3>1. InboxSelect(w) => \A v \in Worker : call[v].pc # "read"
      BY DEF InboxSelect
    <3> QED BY <2>1, <3>1 DEF OInv
  <2> QED BY <2>1, <2>2, <2>3, <2>4 DEF OInv
<1>3. CASE Crash
  <2>1. /\ index' = Rebuild(<< >>) /\ log' = log /\ cursor' = cursor /\ fetched' = fetched
        /\ call' = [w \in Worker |-> Idle]
    BY <1>3 DEF Crash, reader
  <2>2. << >> \in Seq(Entry) /\ Acceptances(<< >>) = {}
    BY DEF Acceptances
  <2>3. DOMAIN index'.inbox = {}
    BY <2>1, <2>2, RebuiltOrdered DEF Rebuild, Listed
  <2>4. \A w \in Worker : call'[w].pc = "idle"
    BY <1>0, <2>1
  <2>5. Ordered(index'.inbox) /\ Listed(index'.inbox, log') /\ NoGap(index'.inbox, log')
    BY <2>3 DEF Ordered, Listed, NoGap
  <2> QED BY <2>1, <2>4, <2>5 DEF OInv
<1>4. CASE Start
  <2>1. /\ call' = call /\ index' = Rebuild(log') /\ ~ up
        /\ cursor' = cursor /\ fetched' = fetched
    BY <1>4 DEF Start, reader
  <2>2. \A w \in Worker : call'[w].pc = "idle"
    BY <1>0, <2>1 DEF TInv, DownIsQuiet
  <2>3. Ordered(index'.inbox) /\ Listed(index'.inbox, log') /\ NoGap(index'.inbox, log')
    BY <2>1, LogKept, RebuiltOrdered DEF Rebuild
  <2>4. \A s \in Acceptances(log') : s <= cursor' => s \in fetched'
    BY <2>1, FetchedStays
  <2> QED BY <2>2, <2>3, <2>4 DEF OInv
<1>5. CASE Aside
  <2>1. /\ index' = index /\ call' = call /\ cursor' = cursor /\ fetched' = fetched
        /\ log' = log \/ log' = Append(log, Started)
    BY <1>5, AsideKeeps
  <2>2. Acceptances(log') = Acceptances(log)
    <3>1. Started.type # "inbound_accepted"
      BY DEF Started, EntryOf
    <3> QED BY <1>0, <2>1, <3>1, StartedOK, AppendedPositions
  <2>3. \A w \in Worker : PublishesNext(call[w]) => PublishesNext(call[w])'
    BY <2>1, <2>2 DEF PublishesNext
  <2>4. \A w \in Worker : PageFull(call[w].page) => PageFull(call[w].page)'
    BY <2>1, <2>2 DEF PageFull
  <2>5. Ordered(index'.inbox) /\ Listed(index'.inbox, log') /\ NoGap(index'.inbox, log')
    BY <2>1, <2>2 DEF OInv, Listed, NoGap
  <2> QED BY <2>1, <2>2, <2>3, <2>4, <2>5 DEF OInv
<1> QED BY <1>1, <1>2, <1>3, <1>4, <1>5, NextIs

\* With one call at a time (max_concurrent = 1), an agent that pages with the
\* highest sequence it was given has been given every accepted message of the
\* inbox up to that point (NothingSkipped).  With two, a message accepted first
\* and published last is skipped.
THEOREM PagesComplete ==
    ASSUME MaxConcurrent = 1
    PROVE  Spec => []NothingSkipped
<1>1. Init => OInv
  BY InitOInv
<1>2. TInv /\ CInv /\ RInv /\ OInv /\ [Next]_vars => OInv'
  BY NextOInv
<1>3. OInv => NothingSkipped
  BY DEF OInv, Listed, NothingSkipped
<1> QED BY <1>1, <1>2, <1>3, TypesInvariant, ClaimsInvariant, ReceivesInvariant, PTL DEF Spec
=============================================================================
