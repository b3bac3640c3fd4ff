-------------------------- MODULE ComponentsProofs --------------------------
(***************************************************************************)
(* Proofs about Approvals, PeerConfig, GuardResponse, FrameReader and      *)
(* LogQuery, for every set of calls, commands, reviews, peers, keys,       *)
(* certificates and answers, every stream, buffer and log.                 *)
(***************************************************************************)
EXTENDS Components, FiniteSetTheorems, SequenceTheorems, WellFoundedInduction, TLAPS

partVars == <<part, vars, approvalVars, peerVars, frameVars, guardVars, logVars>>

\* A step of the composition is a step of each component, or leaves it alone.
LEMMA PartSteps ==
    ASSUME [PartNext]_partVars
    PROVE  /\ part' = part
           /\ [Approval!Next]_approvalVars
           /\ [Peers!Next]_peerVars
           /\ part = "frames" => [Frames!Next]_frameVars
           /\ part = "guard" => [Guard!Next]_guardVars
           /\ part = "logs" => [Logs!Next]_logVars
<1> DEFINE Steps == /\ part' = part
                    /\ [Approval!Next]_approvalVars
                    /\ [Peers!Next]_peerVars
                    /\ part = "frames" => [Frames!Next]_frameVars
                    /\ part = "guard" => [Guard!Next]_guardVars
                    /\ part = "logs" => [Logs!Next]_logVars
<1> SUFFICES Steps
  OBVIOUS
<1>1. ASSUME UNCHANGED partVars PROVE Steps
  BY <1>1 DEF partVars
<1>2. ASSUME Runs("budget") PROVE Steps
  BY <1>2 DEF Runs
<1>3. ASSUME Runs("approvals"), Approval!Next PROVE Steps
  BY <1>3 DEF Runs
<1>4. ASSUME Runs("peers"), Peers!Next PROVE Steps
  BY <1>4 DEF Runs
<1>5. ASSUME Runs("frames"), Frames!Turn PROVE Steps
  BY <1>5 DEF Runs, Frames!Next
<1>8. ASSUME Runs("logs"), Logs!Next PROVE Steps
  BY <1>8 DEF Runs
<1>6. ASSUME Runs("guard"), Guard!Next PROVE Steps
  BY <1>6 DEF Runs
<1>7. CASE PartNext
  <2> HIDE DEF Steps
  <2>1. ASSUME Runs("approvals"),
               \/ \E c \in Server, r \in Review : Approval!SavePending(c, r)
               \/ \E c \in Operator : Approval!Display(c) \/ Approval!Approve(c)
               \/ \E c \in Server \cup Operator :
                      \/ Approval!Create(c) \/ Approval!Write(c) \/ Approval!SyncFile(c)
                      \/ Approval!Link(c) \/ Approval!Replay(c) \/ Approval!Fails(c)
               \/ Approval!PowerLoss
        PROVE  Steps
    <3>1. Approval!Next
      BY <2>1 DEF Approval!Next
    <3> QED BY <1>3, <2>1, <3>1
  <2>2. ASSUME Runs("peers"),
               \/ \E c \in Cmd : \E op \in Peers!Operations : Peers!BeginPeer(c, op)
               \/ \E c \in Cmd : \E kind \in {"init", "init --force"} : Peers!BeginInit(c, kind)
               \/ \E c \in Cmd :
                      \/ Peers!OpenParent(c) \/ Peers!GiveUp(c)
                      \/ Peers!Rename(c) \/ Peers!Verify(c) \/ Peers!SyncDirectory(c)
                      \/ Peers!ReplaceFails(c)
                      \/ Peers!Create(c) \/ Peers!Write(c) \/ Peers!SyncFile(c)
                      \/ Peers!CreateFails(c)
                      \/ Peers!Dies(c)
               \/ Peers!PowerLoss
        PROVE  Steps
    <3>1. Peers!Next
      BY <2>2 DEF Peers!Next
    <3> QED BY <1>4, <2>2, <3>1
  <2>3. ASSUME Runs("guard"), Guard!Refuse \/ Guard!Inspect \/ Guard!Decide
        PROVE  Steps
    <3>1. Guard!Next
      BY <2>3 DEF Guard!Next
    <3> QED BY <1>6, <2>3, <3>1
  <2>4. ASSUME Runs("logs"),
               \/ Logs!Visit \/ Logs!List \/ Logs!Match \/ Logs!Show
               \/ Logs!Create \/ Logs!Encode \/ Logs!Complete
               \/ Logs!ExportFails \/ Logs!ExportDies
        PROVE  Steps
    <3>1. Logs!Next
      BY <2>4 DEF Logs!Next
    <3> QED BY <1>8, <2>4, <3>1
  <2> QED BY <1>2, <1>5, <1>7, <2>1, <2>2, <2>3, <2>4 DEF PartNext
<1> QED BY <1>1, <1>7

LEMMA LeastMember ==
    ASSUME NEW T \in SUBSET Nat, T # {}
    PROVE  \E x \in T : \A y \in T : x <= y
<1> DEFINE Less == {p \in Nat \X Nat : p[1] < p[2]}
<1>1. IsWellFoundedOn(Less, Nat)
  BY NatLessThanWellFounded, Zenon DEF OpToRel
<1>2. \E x \in T : \A y \in T : ~ (<<y, x>> \in Less)
  <2> HIDE DEF Less
  <2> QED BY <1>1, WFMin, Zenon
<1>3. \A x, y \in T : ~ (<<y, x>> \in Less) => x <= y
  OBVIOUS
<1> HIDE DEF Less
<1> QED BY <1>2, <1>3

(***************************************************************************)
(* The approval store.                                                     *)
(***************************************************************************)

Caller == Server \cup Operator
Stored == Approval!Record \cup {None}
Command == [pc : {"idle", "asked", "create", "write", "sync", "link"},
            file : Approval!File, review : Review \cup {None}]

\* Between Create's first step and its last; and how much of the file is there.
Writer(x) == x.pc \in {"write", "sync", "link"}
Progress == [write |-> "partial", sync |-> "written", link |-> "synced"]

\* The file holds r, and no power loss takes it back.
Stands(f, r) ==
    /\ disks[f] # None
    /\ disks[f].val = r /\ disks[f].data = "synced" /\ disks[f].linked = TRUE

ApprovalTypes ==
    /\ disks \in [Approval!File -> Stored]
    /\ procs \in [Caller -> Command]
    /\ \A c \in Caller : procs[c] = Approval!Idle \/ (procs[c].pc # "idle" /\ procs[c].review # None)
    /\ \A c \in Caller : procs[c].pc = "asked" => procs[c].file = "approved"

\* Whoever writes a file made it, and writes it alone.
WritersOwn ==
    /\ \A c \in Caller : Writer(procs[c]) =>
           LET f == procs[c].file IN
           /\ disks[f] # None
           /\ disks[f].val = procs[c].review
           /\ disks[f].data = Progress[procs[c].pc]
    /\ \A c, d \in Caller :
           Writer(procs[c]) /\ Writer(procs[d]) /\ procs[c].file = procs[d].file => c = d

\* An approval, and what one is about to be stored for, was shown whole.
ShownWhole ==
    /\ \A s \in shown : s.body = s.review
    /\ disks["approved"] # None =>
           [review |-> disks["approved"].val, body |-> disks["approved"].val] \in shown
    /\ \A c \in Caller : procs[c].file = "approved" =>
           [review |-> procs[c].review, body |-> procs[c].review] \in shown

\* A large review's record has its body below it, as long as nobody accepted an
\* unfinished file; and what was answered stands.
BodiesFirst ==
    /\ disks["pending"] # None /\ disks["pending"].val \in Large =>
           Stands("body", disks["pending"].val)
    /\ \A c \in Caller :
           procs[c].pc = "create" /\ procs[c].file = "pending" /\ procs[c].review \in Large =>
               disks["pending"] # None \/ Stands("body", procs[c].review)
AnsweredStands ==
    /\ \A r \in saved : Stands("pending", r) /\ (r \in Large => Stands("body", r))
    /\ \A r \in approvals : Stands("approved", r)

StoreInv ==
    /\ ApprovalTypes /\ WritersOwn /\ ShownWhole
    /\ ~ trusted => BodiesFirst /\ AnsweredStands

LEMMA ApprovalIdle ==
    /\ Approval!Idle \in Command /\ Approval!Idle.pc = "idle"
    /\ Approval!Idle.file = "pending" /\ Approval!Idle.review = None
BY DEF Approval!Idle, Command, Approval!File

\* The files go on: none is lost or replaced, and nothing synced is undone.
Advances ==
    \A f \in Approval!File : disks[f] # None =>
        /\ disks'[f] # None /\ disks'[f].val = disks[f].val
        /\ disks[f].data = "synced" => disks'[f].data = "synced"
        /\ disks[f].linked = TRUE => disks'[f].linked = TRUE

LEMMA StandsOn ==
    ASSUME Advances, NEW f \in Approval!File, NEW r, Stands(f, r)
    PROVE  Stands(f, r)'
BY DEF Advances, Stands

LEMMA GoesOn ==
    ASSUME procs \in [Caller -> Command], NEW c \in Caller,
           NEW pc \in {"idle", "asked", "create", "write", "sync", "link"},
           NEW f \in Approval!File, Approval!Goes(c, pc, f)
    PROVE  /\ procs' \in [Caller -> Command]
           /\ procs'[c].pc = pc /\ procs'[c].file = f
           /\ procs'[c].review = procs[c].review
           /\ \A d \in Caller \ {c} : procs'[d] = procs[d]
<1> DEFINE d == [procs[c] EXCEPT !.pc = pc, !.file = f]
<1>1. procs' = [procs EXCEPT ![c] = d]
  BY DEF Approval!Goes
<1>2. d \in Command /\ d.pc = pc /\ d.file = f /\ d.review = procs[c].review
  BY DEF Command
<1> HIDE DEF d
<1> QED BY <1>1, <1>2

\* Every file made durable.
LEMMA LinkedIs ==
    ASSUME disks \in [Approval!File -> Stored], disks' = Approval!Linked
    PROVE  /\ disks' \in [Approval!File -> Stored]
           /\ Advances
           /\ \A f \in Approval!File :
                  /\ disks[f] = None => disks'[f] = None
                  /\ disks[f] # None => /\ disks'[f] # None
                                        /\ disks'[f].val = disks[f].val
                                        /\ disks'[f].data = disks[f].data
                                        /\ disks'[f].linked = TRUE
<1>0. None \notin Approval!Record
  BY ComponentsAssumption DEF Approval!ApprovalsAssumption
<1>1. \A f \in Approval!File :
          disks'[f] = IF disks[f] # None THEN [disks[f] EXCEPT !.linked = TRUE] ELSE None
  BY DEF Approval!Linked, Approval!There
<1>2. ASSUME NEW x \in Approval!Record
      PROVE  /\ [x EXCEPT !.linked = TRUE] \in Approval!Record
             /\ [x EXCEPT !.linked = TRUE].val = x.val
             /\ [x EXCEPT !.linked = TRUE].data = x.data
             /\ [x EXCEPT !.linked = TRUE].linked = TRUE
  BY DEF Approval!Record
<1>3. \A f \in Approval!File :
          /\ disks[f] = None => disks'[f] = None
          /\ disks[f] # None => /\ disks'[f] \in Approval!Record
                                /\ disks'[f].val = disks[f].val
                                /\ disks'[f].data = disks[f].data
                                /\ disks'[f].linked = TRUE
  BY <1>1, <1>2 DEF Stored
<1>4. disks' \in [Approval!File -> Stored]
  <2>1. disks' = [f \in Approval!File |-> disks'[f]]
    BY DEF Approval!Linked
  <2> QED BY <1>3, <2>1 DEF Stored
<1> QED BY <1>0, <1>3, <1>4 DEF Advances

\* The history that a step leaves alone, or adds to, goes on to stand.
LEMMA BodiesOn ==
    ASSUME BodiesFirst, Advances,
           disks["pending"] = None /\ disks'["pending"] # None
               /\ disks'["pending"].val \in Large => Stands("body", disks'["pending"].val),
           \A c \in Caller :
               procs'[c].pc = "create" /\ procs'[c].file = "pending"
                   /\ procs'[c].review \in Large =>
                   \/ procs'[c] = procs[c]
                   \/ disks'["pending"] # None \/ Stands("body", procs[c].review)'
    PROVE  BodiesFirst'
<1>0. "pending" \in Approval!File /\ "body" \in Approval!File
  BY DEF Approval!File
<1>1. ASSUME disks'["pending"] # None, disks'["pending"].val \in Large
      PROVE  Stands("body", disks["pending"].val)'
  <2>1. CASE disks["pending"] = None
    <3>1. Stands("body", disks'["pending"].val)
      BY <1>1, <2>1
    <3>2. /\ disks'["body"] # None /\ disks'["body"].val = disks'["pending"].val
          /\ disks'["body"].data = "synced" /\ disks'["body"].linked = TRUE
      BY <1>0, <3>1 DEF Advances, Stands
    <3> QED BY <3>2 DEF Stands
  <2>2. CASE disks["pending"] # None
    <3>1. disks'["pending"].val = disks["pending"].val
      BY <1>0, <2>2 DEF Advances
    <3>2. Stands("body", disks["pending"].val)
      BY <1>1, <2>2, <3>1 DEF BodiesFirst
    <3> QED BY <1>0, <3>1, <3>2 DEF Advances, Stands
  <2> QED BY <2>1, <2>2
<1>2. ASSUME NEW c \in Caller, procs'[c].pc = "create", procs'[c].file = "pending",
             procs'[c].review \in Large
      PROVE  disks'["pending"] # None \/ Stands("body", procs[c].review)'
  <2>1. CASE procs'[c] = procs[c]
    <3>1. disks["pending"] # None \/ Stands("body", procs[c].review)
      BY <1>2, <2>1 DEF BodiesFirst
    <3>2. disks["pending"] # None => disks'["pending"] # None
      BY <1>0 DEF Advances
    <3>3. ASSUME Stands("body", procs[c].review)
          PROVE  /\ disks'["body"] # None /\ disks'["body"].val = procs'[c].review
                 /\ disks'["body"].data = "synced" /\ disks'["body"].linked = TRUE
      BY <1>0, <2>1, <3>3 DEF Advances, Stands
    <3>4. CASE disks["pending"] # None
      BY <3>2, <3>4
    <3>5. CASE Stands("body", procs[c].review)
      <4>1. /\ disks'["body"] # None /\ disks'["body"].val = procs'[c].review
            /\ disks'["body"].data = "synced" /\ disks'["body"].linked = TRUE
        BY <3>3, <3>5
      <4>2. Stands("body", procs[c].review)'
        BY <4>1 DEF Stands
      <4> QED BY <4>2
    <3> QED BY <3>1, <3>4, <3>5
  <2> QED BY <1>2, <2>1
<1> QED BY <1>1, <1>2 DEF BodiesFirst

LEMMA AnswersOn ==
    ASSUME AnsweredStands, Advances,
           \A r \in saved' : r \in saved \/
               (Stands("pending", r)' /\ (r \in Large => Stands("body", r)')),
           \A r \in approvals' : r \in approvals \/ Stands("approved", r)'
    PROVE  AnsweredStands'
<1>0. {"pending", "body", "approved"} \subseteq Approval!File
  BY DEF Approval!File
<1>1. ASSUME NEW r \in saved' PROVE Stands("pending", r)' /\ (r \in Large => Stands("body", r)')
  BY <1>0, <1>1 DEF AnsweredStands, Advances, Stands
<1>2. ASSUME NEW r \in approvals' PROVE Stands("approved", r)'
  BY <1>0, <1>2 DEF AnsweredStands, Advances, Stands
<1> QED BY <1>1, <1>2 DEF AnsweredStands

LEMMA InitStoreInv == PartInit => StoreInv
<1> SUFFICES ASSUME PartInit PROVE StoreInv
  OBVIOUS
<1>1. /\ disks = [f \in Approval!File |-> None]
      /\ procs = [c \in Caller |-> Approval!Idle]
      /\ saved = {} /\ approvals = {} /\ shown = {}
  BY DEF PartInit, Approval!Init, Caller
<1>2. ApprovalTypes
  BY <1>1, ApprovalIdle DEF ApprovalTypes, Stored
<1>3. \A c \in Caller : procs[c].pc = "idle" /\ procs[c].file = "pending"
  BY <1>1, ApprovalIdle
<1>4. disks["approved"] = None /\ disks["pending"] = None
  BY <1>1 DEF Approval!File
<1> QED
  BY <1>1, <1>2, <1>3, <1>4
     DEF StoreInv, WritersOwn, Writer, ShownWhole, BodiesFirst, AnsweredStands

\* Create's first three steps: the file appears, is written, is synced.
LEMMA CreateStep ==
    ASSUME StoreInv, NEW c \in Caller,
           Approval!Create(c) \/ Approval!Write(c) \/ Approval!SyncFile(c)
    PROVE  StoreInv'
<1> DEFINE f == procs[c].file
           r == procs[c].review
<1>0. /\ disks \in [Approval!File -> Stored] /\ procs \in [Caller -> Command]
      /\ f \in Approval!File /\ None \notin Approval!Record
      /\ "pending" \in Approval!File /\ "approved" \in Approval!File
      /\ ApprovalTypes /\ WritersOwn /\ ShownWhole
      /\ ~ trusted => BodiesFirst /\ AnsweredStands
  BY ComponentsAssumption
     DEF StoreInv, ApprovalTypes, Command, Approval!ApprovalsAssumption, Approval!File
<1>1. UNCHANGED <<saved, approvals, shown, trusted>>
  BY DEF Approval!Create, Approval!Write, Approval!SyncFile
<1>2. PICK pc \in {"write", "sync", "link"} : Approval!Goes(c, pc, f)
  BY DEF Approval!Create, Approval!Write, Approval!SyncFile
<1>3. /\ procs' \in [Caller -> Command]
      /\ procs'[c].pc = pc /\ procs'[c].file = f /\ procs'[c].review = r
      /\ \A d \in Caller \ {c} : procs'[d] = procs[d]
  BY <1>0, <1>2, GoesOn
<1>4. r # None
  <2>1. procs[c].pc # "idle"
    BY DEF Approval!Create, Approval!Write, Approval!SyncFile
  <2> QED BY <1>0, <2>1, ApprovalIdle DEF ApprovalTypes
<1>5. /\ disks' \in [Approval!File -> Stored]
      /\ \A g \in Approval!File \ {f} : disks'[g] = disks[g]
      /\ disks'[f] # None /\ disks'[f].val = r /\ disks'[f].data = Progress[pc]
      /\ disks[f] = None => procs[c].pc = "create"
      /\ disks[f] # None => /\ procs[c].pc \in {"write", "sync"}
                            /\ disks'[f].linked = disks[f].linked
                            /\ disks[f].val = r /\ disks[f].data # "synced"
  <2>1. CASE Approval!Create(c)
    <3> DEFINE x == [val |-> r, data |-> "partial", linked |-> FALSE]
    <3>1. procs[c].pc = "create" /\ disks[f] = None /\ disks' = [disks EXCEPT ![f] = x]
      BY <2>1 DEF Approval!Create, Approval!There
    <3>2. x \in Approval!Record /\ x.val = r /\ x.data = "partial"
      BY <1>0, <1>4 DEF Command, Approval!Record
    <3>3. pc = "write"
      <4>1. Approval!Goes(c, "write", f)
        BY <2>1 DEF Approval!Create
      <4> QED BY <1>0, <1>3, <4>1, GoesOn
    <3> HIDE DEF x
    <3> QED BY <1>0, <3>1, <3>2, <3>3 DEF Stored, Progress
  <2>2. CASE Approval!Write(c)
    <3>1. procs[c].pc = "write" /\ disks' = [disks EXCEPT ![f].data = "written"]
      BY <2>2 DEF Approval!Write
    <3>2. disks[f] # None /\ disks[f].val = r /\ disks[f].data = "partial"
      BY <1>0, <3>1 DEF WritersOwn, Writer, Progress
    <3> DEFINE x == [disks[f] EXCEPT !.data = "written"]
    <3>3. disks' = [disks EXCEPT ![f] = x]
      BY <1>0, <3>1
    <3>4. x \in Approval!Record /\ x.val = r /\ x.data = "written" /\ x.linked = disks[f].linked
      BY <1>0, <3>2 DEF Stored, Approval!Record
    <3>5. pc = "sync"
      <4>1. Approval!Goes(c, "sync", f)
        BY <2>2 DEF Approval!Write
      <4> QED BY <1>0, <1>3, <4>1, GoesOn
    <3> HIDE DEF x
    <3> QED BY <1>0, <3>1, <3>2, <3>3, <3>4, <3>5 DEF Stored, Progress
  <2>3. CASE Approval!SyncFile(c)
    <3>1. procs[c].pc = "sync" /\ disks' = [disks EXCEPT ![f].data = "synced"]
      BY <2>3 DEF Approval!SyncFile
    <3>2. disks[f] # None /\ disks[f].val = r /\ disks[f].data = "written"
      BY <1>0, <3>1 DEF WritersOwn, Writer, Progress
    <3> DEFINE x == [disks[f] EXCEPT !.data = "synced"]
    <3>3. disks' = [disks EXCEPT ![f] = x]
      BY <1>0, <3>1
    <3>4. x \in Approval!Record /\ x.val = r /\ x.data = "synced" /\ x.linked = disks[f].linked
      BY <1>0, <3>2 DEF Stored, Approval!Record
    <3>5. pc = "link"
      <4>1. Approval!Goes(c, "link", f)
        BY <2>3 DEF Approval!SyncFile
      <4> QED BY <1>0, <1>3, <4>1, GoesOn
    <3> HIDE DEF x
    <3> QED BY <1>0, <3>1, <3>2, <3>3, <3>4, <3>5 DEF Stored, Progress
  <2> QED BY <2>1, <2>2, <2>3
<1> HIDE DEF f, r
<1>6. Advances
  BY <1>5 DEF Advances
<1>7. ApprovalTypes'
  <2>1. procs'[c].pc \notin {"idle", "asked"} /\ procs'[c].review # None
    BY <1>3, <1>4
  <2> QED BY <1>0, <1>3, <1>5, <2>1 DEF ApprovalTypes
<1>8. WritersOwn'
  <2>1. ASSUME NEW d \in Caller \ {c}, Writer(procs'[d]) PROVE procs[d].file # f
    <3>1. procs'[d] = procs[d] /\ Writer(procs[d])
      BY <1>3, <2>1
    <3>2. disks[procs[d].file] # None
      BY <1>0, <3>1 DEF WritersOwn
    <3>3. CASE procs[c].pc = "create"
      <4>1. disks[f] = None
        BY <1>5, <3>3
      <4> QED BY <3>2, <4>1
    <3>4. CASE procs[c].pc # "create"
      <4>1. Writer(procs[c])
        BY <1>5, <3>4 DEF Writer
      <4> QED BY <1>0, <3>1, <4>1 DEF WritersOwn, f
    <3> QED BY <3>3, <3>4
  <2>2. ASSUME NEW d \in Caller, Writer(procs'[d])
        PROVE  /\ disks'[procs'[d].file] # None
               /\ disks'[procs'[d].file].val = procs'[d].review
               /\ disks'[procs'[d].file].data = Progress[procs'[d].pc]
    <3>1. CASE d = c
      BY <1>3, <1>5, <3>1
    <3>2. CASE d # c
      <4>1. procs'[d] = procs[d] /\ procs[d].file # f /\ procs[d].file \in Approval!File
        BY <1>0, <1>3, <2>1, <2>2, <3>2 DEF Command
      <4> QED BY <1>0, <1>5, <2>2, <4>1 DEF WritersOwn
    <3> QED BY <3>1, <3>2
  <2>3. ASSUME NEW d \in Caller, NEW e \in Caller, Writer(procs'[d]), Writer(procs'[e]),
               procs'[d].file = procs'[e].file
        PROVE  d = e
    <3>1. d # c /\ e # c => d = e
      BY <1>0, <1>3, <2>3 DEF WritersOwn
    <3>2. d # c => procs'[d].file # f
      BY <1>3, <2>1, <2>3
    <3>3. e # c => procs'[e].file # f
      BY <1>3, <2>1, <2>3
    <3> QED BY <1>3, <2>3, <3>1, <3>2, <3>3
  <2> QED BY <2>2, <2>3 DEF WritersOwn
<1>9. ShownWhole'
  <2>1. disks'["approved"] # None =>
            [review |-> disks'["approved"].val, body |-> disks'["approved"].val] \in shown
    <3>1. CASE f = "approved"
      <4>1. [review |-> r, body |-> r] \in shown
        BY <1>0, <3>1 DEF ShownWhole, f, r
      <4> QED BY <1>5, <3>1, <4>1
    <3>2. CASE f # "approved"
      BY <1>0, <1>5, <3>2 DEF ShownWhole
    <3> QED BY <3>1, <3>2
  <2>2. \A d \in Caller : procs'[d].file = procs[d].file /\ procs'[d].review = procs[d].review
    BY <1>3 DEF f, r
  <2> QED BY <1>0, <1>1, <2>1, <2>2 DEF ShownWhole
<1>10. ASSUME ~ trusted PROVE BodiesFirst' /\ AnsweredStands'
  <2>1. BodiesFirst /\ AnsweredStands
    BY <1>0, <1>10
  <2>2. ASSUME disks["pending"] = None, disks'["pending"] # None,
               disks'["pending"].val \in Large
        PROVE  Stands("body", disks'["pending"].val)
    <3>1. f = "pending" /\ procs[c].pc = "create" /\ disks'["pending"].val = r
      BY <1>0, <1>5, <2>2
    <3> QED BY <2>1, <2>2, <3>1 DEF BodiesFirst, f, r
  <2>3. \A d \in Caller : procs'[d].pc = "create" => procs'[d] = procs[d]
    BY <1>3
  <2>4. BodiesFirst'
    BY <1>6, <2>1, <2>2, <2>3, BodiesOn
  <2>5. AnsweredStands'
    BY <1>1, <1>6, <2>1, AnswersOn
  <2> QED BY <2>4, <2>5
<1> QED BY <1>1, <1>7, <1>8, <1>9, <1>10 DEF StoreInv

\* What one caller does outside a file leaves the other writers theirs.
LEMMA OthersWrite ==
    ASSUME ApprovalTypes, WritersOwn, NEW c \in Caller,
           \A d \in Caller \ {c} : procs'[d] = procs[d],
           ~ Writer(procs'[c]),
           \A f \in Approval!File : disks[f] # None =>
               /\ disks'[f] # None /\ disks'[f].val = disks[f].val
               /\ disks'[f].data = disks[f].data
    PROVE  WritersOwn'
<1>1. \A d \in Caller : Writer(procs'[d]) => procs'[d] = procs[d]
  OBVIOUS
<1>2. \A d \in Caller : procs[d].file \in Approval!File
  BY DEF ApprovalTypes, Command
<1>3. ASSUME NEW d \in Caller, Writer(procs'[d])
      PROVE  /\ disks'[procs'[d].file] # None
             /\ disks'[procs'[d].file].val = procs'[d].review
             /\ disks'[procs'[d].file].data = Progress[procs'[d].pc]
  <2>1. procs'[d] = procs[d] /\ procs[d].file \in Approval!File
    BY <1>1, <1>2, <1>3
  <2>2. /\ disks[procs[d].file] # None
        /\ disks[procs[d].file].val = procs[d].review
        /\ disks[procs[d].file].data = Progress[procs[d].pc]
    BY <1>3, <2>1 DEF WritersOwn
  <2> QED BY <2>1, <2>2
<1>4. ASSUME NEW d \in Caller, NEW e \in Caller, Writer(procs'[d]), Writer(procs'[e]),
             procs'[d].file = procs'[e].file
      PROVE  d = e
  <2>1. procs'[d] = procs[d] /\ procs'[e] = procs[e]
    BY <1>1, <1>4
  <2> QED BY <1>4, <2>1 DEF WritersOwn
<1> QED BY <1>3, <1>4 DEF WritersOwn

\* A file is in place: the call goes on to its record, or answers.
LEMMA AnswerStep ==
    ASSUME StoreInv, NEW c \in Caller, Approval!Link(c) \/ Approval!Replay(c)
    PROVE  StoreInv'
<1> DEFINE f == procs[c].file
           r == procs[c].review
<1>0. /\ disks \in [Approval!File -> Stored] /\ procs \in [Caller -> Command]
      /\ f \in Approval!File /\ procs[c] \in Command
      /\ "pending" \in Approval!File /\ "approved" \in Approval!File
      /\ ApprovalTypes /\ WritersOwn /\ ShownWhole
      /\ ~ trusted => BodiesFirst /\ AnsweredStands
  BY DEF StoreInv, ApprovalTypes, Command, Approval!File
<1>1. Approval!Answered(c, f) /\ shown' = shown /\ procs[c].pc \in {"link", "create"}
  BY DEF Approval!Link, Approval!Replay
<1>2. r # None
  BY <1>0, <1>1, ApprovalIdle DEF ApprovalTypes
<1>3. /\ disks' \in [Approval!File -> Stored]
      /\ Advances
      /\ \A g \in Approval!File :
             /\ disks[g] = None => disks'[g] = None
             /\ disks[g] # None => /\ disks'[g] # None
                                   /\ disks'[g].val = disks[g].val
                                   /\ disks'[g].data = disks[g].data
      /\ disks'[f] # None /\ disks'[f].val = r
      /\ trusted => trusted'
      /\ ~ trusted' => disks'[f].data = "synced" /\ disks'[f].linked = TRUE
  <2>1. CASE Approval!Link(c)
    <3>1. disks' = Approval!Linked /\ procs[c].pc = "link" /\ trusted' = trusted
      BY <2>1 DEF Approval!Link
    <3>2. disks[f] # None /\ disks[f].val = r /\ disks[f].data = "synced"
      BY <1>0, <3>1 DEF WritersOwn, Writer, Progress
    <3> HIDE DEF f, r
    <3> QED BY <1>0, <3>1, <3>2, LinkedIs
  <2>2. CASE Approval!Replay(c)
    <3>1. /\ disks' = disks /\ disks[f] # None /\ disks[f].val = r
          /\ trusted' = (trusted \/ ~ Approval!Durable(f))
      BY <2>2 DEF Approval!Replay, Approval!Whole, Approval!There
    <3>2. Approval!Durable(f) => disks[f].data = "synced" /\ disks[f].linked = TRUE
      <4>1. disks[f] \in Approval!Record
        BY <1>0, <3>1 DEF Stored
      <4>2. disks[f].linked \in BOOLEAN
        BY <4>1 DEF Approval!Record
      <4> HIDE DEF f
      <4> QED BY <4>2 DEF Approval!Durable
    <3>3. trusted => trusted'
      BY <3>1
    <3>4. ~ trusted' => disks'[f].data = "synced" /\ disks'[f].linked = TRUE
      <4> HIDE DEF f
      <4> QED BY <3>1, <3>2
    <3> HIDE DEF f, r
    <3>5. Advances
      BY <3>1 DEF Advances
    <3> QED BY <1>0, <3>1, <3>3, <3>4, <3>5
  <2> QED BY <1>1, <2>1, <2>2
<1>4. /\ procs' \in [Caller -> Command]
      /\ \A d \in Caller \ {c} : procs'[d] = procs[d]
      /\ \/ /\ f = "body" /\ procs'[c].pc = "create" /\ procs'[c].file = "pending"
            /\ procs'[c].review = r /\ saved' = saved /\ approvals' = approvals
         \/ /\ f = "pending" /\ procs'[c] = Approval!Idle
            /\ saved' = saved \cup {r} /\ approvals' = approvals
         \/ /\ f = "approved" /\ procs'[c] = Approval!Idle
            /\ saved' = saved /\ approvals' = approvals \cup {r}
  <2>1. CASE f = "body"
    <3>1. /\ Approval!Goes(c, "create", "pending") /\ saved' = saved /\ approvals' = approvals
      BY <1>1, <2>1 DEF Approval!Answered
    <3>2. /\ procs' \in [Caller -> Command]
          /\ procs'[c].pc = "create" /\ procs'[c].file = "pending"
          /\ procs'[c].review = procs[c].review
          /\ \A d \in Caller \ {c} : procs'[d] = procs[d]
      BY <1>0, <3>1, GoesOn
    <3> QED BY <2>1, <3>1, <3>2
  <2>2. CASE f = "pending"
    <3>1. /\ procs' = [procs EXCEPT ![c] = Approval!Idle]
          /\ saved' = saved \cup {r} /\ approvals' = approvals
      BY <1>1, <2>2 DEF Approval!Answered
    <3> QED BY <1>0, <2>2, <3>1, ApprovalIdle
  <2>3. CASE f = "approved"
    <3>1. /\ procs' = [procs EXCEPT ![c] = Approval!Idle]
          /\ saved' = saved /\ approvals' = approvals \cup {r}
      BY <1>1, <2>3 DEF Approval!Answered
    <3> QED BY <1>0, <2>3, <3>1, ApprovalIdle
  <2> QED BY <1>0, <2>1, <2>2, <2>3 DEF Approval!File
<1> HIDE DEF f, r
<1>5. /\ procs'[c].file = "pending" /\ procs'[c].pc \in {"idle", "create"}
      /\ procs'[c].pc # "idle" => procs'[c].review # None
      /\ procs'[c].pc = "idle" => procs'[c] = Approval!Idle
  BY <1>2, <1>4, ApprovalIdle
<1>6. ApprovalTypes'
  BY <1>0, <1>3, <1>4, <1>5 DEF ApprovalTypes
<1>7. WritersOwn'
  BY <1>0, <1>3, <1>4, <1>5, OthersWrite DEF Writer
<1>8. ShownWhole'
  <2>1. disks'["approved"] # None =>
            [review |-> disks'["approved"].val, body |-> disks'["approved"].val] \in shown
    BY <1>0, <1>3 DEF ShownWhole
  <2>2. \A d \in Caller : procs'[d].file = "approved" => procs'[d] = procs[d]
    BY <1>4, <1>5
  <2> QED BY <1>0, <1>1, <2>1, <2>2 DEF ShownWhole
<1>9. ASSUME ~ trusted' PROVE BodiesFirst' /\ AnsweredStands'
  <2>1. /\ BodiesFirst /\ AnsweredStands
        /\ disks'[f] # None /\ disks'[f].val = r
        /\ disks'[f].data = "synced" /\ disks'[f].linked = TRUE
    BY <1>0, <1>3, <1>9
  <2>2. f = "body" => Stands("body", procs[c].review)'
    BY <1>4, <2>1, ApprovalIdle DEF Stands
  <2>3. \A d \in Caller :
            procs'[d].pc = "create" /\ procs'[d].file = "pending"
                /\ procs'[d].review \in Large =>
                \/ procs'[d] = procs[d]
                \/ disks'["pending"] # None \/ Stands("body", procs[d].review)'
    <3> SUFFICES ASSUME NEW d \in Caller, procs'[d].pc = "create"
                 PROVE  procs'[d] = procs[d] \/ Stands("body", procs[d].review)'
      OBVIOUS
    <3>1. CASE d # c
      BY <1>4, <3>1
    <3>2. CASE d = c
      <4>1. f = "body"
        BY <1>4, <3>2, ApprovalIdle
      <4> QED BY <2>2, <3>2, <4>1
    <3> QED BY <3>1, <3>2
  <2>4. ~ (disks["pending"] = None /\ disks'["pending"] # None)
    BY <1>0, <1>3
  <2>5. BodiesFirst'
    BY <1>3, <2>1, <2>3, <2>4, BodiesOn
  <2>6. ASSUME f = "pending"
        PROVE  /\ disks'["pending"] # None /\ disks'["pending"].val = r
               /\ disks'["pending"].data = "synced" /\ disks'["pending"].linked = TRUE
               /\ r \in Large =>
                     /\ disks'["body"] # None /\ disks'["body"].val = r
                     /\ disks'["body"].data = "synced" /\ disks'["body"].linked = TRUE
    BY <2>1, <2>5, <2>6 DEF BodiesFirst, Stands
  <2>7. \A x \in saved' : x \in saved \/
            (Stands("pending", x)' /\ (x \in Large => Stands("body", x)'))
    <3> SUFFICES ASSUME NEW x \in saved', x \notin saved
                 PROVE  Stands("pending", x)' /\ (x \in Large => Stands("body", x)')
      OBVIOUS
    <3>1. f = "pending" /\ x = r
      BY <1>4
    <3> QED BY <2>6, <3>1 DEF Stands
  <2>8. \A x \in approvals' : x \in approvals \/ Stands("approved", x)'
    <3> SUFFICES ASSUME NEW x \in approvals', x \notin approvals
                 PROVE  Stands("approved", x)'
      OBVIOUS
    <3>1. f = "approved" /\ x = r
      BY <1>4
    <3> QED BY <2>1, <3>1 DEF Stands
  <2>9. AnsweredStands'
    BY <1>3, <2>1, <2>7, <2>8, AnswersOn
  <2> QED BY <2>5, <2>9
<1> QED BY <1>6, <1>7, <1>8, <1>9 DEF StoreInv

\* A call or command begins, is confirmed or fails: no file's contents change.
LEMMA CommandStep ==
    ASSUME StoreInv, NEW c \in Caller,
           \/ \E r \in Review : Approval!SavePending(c, r)
           \/ Approval!Display(c) \/ Approval!Approve(c) \/ Approval!Fails(c)
    PROVE  StoreInv'
<1>0. /\ disks \in [Approval!File -> Stored] /\ procs \in [Caller -> Command]
      /\ procs[c] \in Command
      /\ {"pending", "approved", "body"} \subseteq Approval!File
      /\ ApprovalTypes /\ WritersOwn /\ ShownWhole
      /\ ~ trusted => BodiesFirst /\ AnsweredStands
  BY DEF StoreInv, ApprovalTypes, Command, Approval!File
<1>1. UNCHANGED <<saved, approvals, trusted>>
  BY DEF Approval!SavePending, Approval!Display, Approval!Approve, Approval!Fails
<1>2. ASSUME disks' = disks \/ disks' = Approval!Linked
      PROVE  /\ disks' \in [Approval!File -> Stored] /\ Advances
             /\ \A f \in Approval!File :
                    /\ disks[f] = None => disks'[f] = None
                    /\ disks[f] # None => /\ disks'[f] # None
                                          /\ disks'[f].val = disks[f].val
                                          /\ disks'[f].data = disks[f].data
  <2>1. CASE disks' = disks
    BY <1>0, <2>1 DEF Advances
  <2>2. CASE disks' = Approval!Linked
    BY <1>0, <2>2, LinkedIs
  <2> QED BY <1>2, <2>1, <2>2
\* What remains to be shown of each of the four.
<1> DEFINE d == procs'[c]
           Proper ==
               /\ disks' = disks \/ disks' = Approval!Linked
               /\ procs' \in [Caller -> Command]
               /\ \A e \in Caller \ {c} : procs'[e] = procs[e]
               /\ ~ Writer(d)
               /\ d = Approval!Idle \/ (d.pc # "idle" /\ d.review # None)
               /\ d.pc = "asked" => d.file = "approved"
               /\ shown \subseteq shown'
               /\ \A s \in shown' : s \in shown \/ s.body = s.review
               /\ d.file = "approved" => [review |-> d.review, body |-> d.review] \in shown'
               /\ d.pc = "create" /\ d.file = "pending" /\ d.review \in Large =>
                      disks["pending"] # None
<1>3. Proper => StoreInv'
  <2> SUFFICES ASSUME Proper PROVE StoreInv'
    OBVIOUS
  <2>1. ApprovalTypes'
    BY <1>0, <1>2 DEF ApprovalTypes
  <2>2. WritersOwn'
    BY <1>0, <1>2, OthersWrite
  <2>3. ShownWhole'
    <3>1. disks'["approved"] # None =>
              [review |-> disks'["approved"].val, body |-> disks'["approved"].val] \in shown'
      BY <1>0, <1>2 DEF ShownWhole
    <3>2. \A e \in Caller : procs'[e].file = "approved" =>
              [review |-> procs'[e].review, body |-> procs'[e].review] \in shown'
      BY <1>0 DEF ShownWhole
    <3>3. \A s \in shown' : s.body = s.review
      BY <1>0 DEF ShownWhole
    <3> QED BY <3>1, <3>2, <3>3 DEF ShownWhole
  <2>4. ASSUME ~ trusted PROVE BodiesFirst' /\ AnsweredStands'
    <3>1. BodiesFirst /\ AnsweredStands /\ Advances
      BY <1>0, <1>2, <2>4
    <3>2. ~ (disks["pending"] = None /\ disks'["pending"] # None)
      BY <1>0, <1>2
    <3>3. \A e \in Caller :
              procs'[e].pc = "create" /\ procs'[e].file = "pending"
                  /\ procs'[e].review \in Large =>
                  procs'[e] = procs[e] \/ disks'["pending"] # None
      BY <1>0, <1>2
    <3>4. BodiesFirst'
      BY <3>1, <3>2, <3>3, BodiesOn
    <3>5. AnsweredStands'
      BY <1>1, <3>1, AnswersOn
    <3> QED BY <3>4, <3>5
  <2> QED BY <1>1, <2>1, <2>2, <2>3, <2>4 DEF StoreInv
<1>4. ASSUME NEW r \in Review, Approval!SavePending(c, r) PROVE Proper
  <2> DEFINE f == IF r \in Large /\ ~ Approval!There("pending") THEN "body" ELSE "pending"
             x == [pc |-> "create", review |-> r, file |-> f]
  <2>1. /\ procs' = [procs EXCEPT ![c] = x] /\ disks' = disks /\ shown' = shown
    BY <1>4 DEF Approval!SavePending
  <2>2. /\ x.pc = "create" /\ x.review = r /\ x.file = f
        /\ f \in {"body", "pending"}
        /\ f = "pending" /\ r \in Large => disks["pending"] # None
    BY DEF Approval!There
  <2>3. x \in Command /\ r # None
    BY ComponentsAssumption DEF Command, Approval!File, Approval!ApprovalsAssumption
  <2> HIDE DEF f, x
  <2>4. d = x /\ procs' \in [Caller -> Command] /\ \A e \in Caller \ {c} : procs'[e] = procs[e]
    BY <1>0, <2>1, <2>3
  <2> QED BY <2>1, <2>2, <2>3, <2>4 DEF Writer
<1>5. ASSUME Approval!Display(c) PROVE Proper
  <2> DEFINE r == disks["pending"].val
             x == [pc |-> "asked", file |-> "approved", review |-> r]
             s == [review |-> r, body |-> Approval!BodyOf(r)]
  <2>1. /\ procs' = [procs EXCEPT ![c] = x] /\ (disks' = disks \/ disks' = Approval!Linked)
        /\ shown' = shown \cup {s}
        /\ disks["pending"] # None /\ Approval!BodyOf(r) # None
    BY <1>5 DEF Approval!Display, Approval!Loadable, Approval!Whole, Approval!There
  <2>2. r \in Review /\ r # None
    <3>1. disks["pending"] \in Approval!Record
      BY <1>0, <2>1 DEF Stored
    <3> QED BY <3>1, ComponentsAssumption DEF Approval!Record, Approval!ApprovalsAssumption
  <2>3. Approval!BodyOf(r) = r
    BY <2>1 DEF Approval!BodyOf
  <2> HIDE DEF r
  <2>4. x \in Command /\ x.pc = "asked" /\ x.file = "approved" /\ x.review = r
    BY <2>2 DEF Command, Approval!File
  <2>5. s = [review |-> r, body |-> r]
    BY <2>3
  <2> HIDE DEF x, s
  <2>6. d = x /\ procs' \in [Caller -> Command] /\ \A e \in Caller \ {c} : procs'[e] = procs[e]
    BY <1>0, <2>1, <2>4
  <2> QED BY <2>1, <2>2, <2>4, <2>5, <2>6 DEF Writer
<1>6. ASSUME Approval!Approve(c) PROVE Proper
  <2>1. /\ procs[c].pc = "asked" /\ Approval!Goes(c, "create", "approved")
        /\ disks' = disks /\ shown' = shown
    BY <1>6 DEF Approval!Approve
  <2>2. /\ procs' \in [Caller -> Command]
        /\ d.pc = "create" /\ d.file = "approved" /\ d.review = procs[c].review
        /\ \A e \in Caller \ {c} : procs'[e] = procs[e]
    BY <1>0, <2>1, GoesOn
  <2>3. procs[c].file = "approved" /\ procs[c].review # None
    BY <1>0, <2>1, ApprovalIdle DEF ApprovalTypes
  <2>4. [review |-> d.review, body |-> d.review] \in shown
    BY <1>0, <2>2, <2>3 DEF ShownWhole
  <2> HIDE DEF d
  <2> QED BY <2>1, <2>2, <2>3, <2>4 DEF Writer
<1>7. ASSUME Approval!Fails(c) PROVE Proper
  <2>1. /\ procs' = [procs EXCEPT ![c] = Approval!Idle] /\ disks' = disks /\ shown' = shown
    BY <1>7 DEF Approval!Fails
  <2>2. d = Approval!Idle /\ procs' \in [Caller -> Command]
        /\ \A e \in Caller \ {c} : procs'[e] = procs[e]
    BY <1>0, <2>1, ApprovalIdle
  <2> HIDE DEF d
  <2> QED BY <2>1, <2>2, ApprovalIdle DEF Writer
<1> HIDE DEF Proper
<1> QED BY <1>3, <1>4, <1>5, <1>6, <1>7

\* A power loss takes back what was not synced, and every call.
LEMMA StoreLoss ==
    ASSUME StoreInv, Approval!PowerLoss
    PROVE  StoreInv'
<1>0. /\ disks \in [Approval!File -> Stored]
      /\ {"pending", "approved", "body"} \subseteq Approval!File
      /\ ShownWhole
      /\ ~ trusted => BodiesFirst /\ AnsweredStands
  BY DEF StoreInv, ApprovalTypes, Approval!File
<1>1. /\ UNCHANGED <<saved, approvals, shown, trusted>>
      /\ procs' = [c \in Caller |-> Approval!Idle]
      /\ \E S : disks' \in [Approval!File -> S]
      /\ \A f \in Approval!File : disks'[f] \in Approval!Leftovers(f)
  BY DEF Approval!PowerLoss, Caller
<1>2. ASSUME NEW f \in Approval!File
      PROVE  /\ disks[f] = None => disks'[f] = None
             /\ disks'[f] \in Stored
             /\ disks'[f] # None => disks'[f].val = disks[f].val
             /\ \A r : Stands(f, r) =>
                    /\ disks'[f] # None /\ disks'[f].val = r
                    /\ disks'[f].data = "synced" /\ disks'[f].linked = TRUE
  <2>1. CASE disks[f] = None
    <3>1. disks'[f] = None
      BY <1>1, <2>1 DEF Approval!Leftovers, Approval!There
    <3> QED BY <2>1, <3>1 DEF Stored, Stands
  <2>2. CASE disks[f] # None
    <3>1. disks[f] \in Approval!Record
      BY <1>0, <2>2 DEF Stored
    <3>2. CASE disks'[f] = None
      <4>1. ~ disks[f].linked
        <5>1. \A e : [disks[f] EXCEPT !.data = IF @ = "synced" THEN "synced" ELSE e, !.linked = TRUE]
                         \in Approval!Record \/ e \notin {"partial", "synced"}
          BY <3>1 DEF Approval!Record
        <5>2. None \notin Approval!Record
          BY ComponentsAssumption DEF Approval!ApprovalsAssumption
        <5> QED BY <1>1, <2>2, <3>2, <5>1, <5>2 DEF Approval!Leftovers, Approval!There
      <4>2. ~ (disks[f].linked = TRUE)
        BY <4>1
      <4> QED BY <2>2, <3>2, <4>2 DEF Stored, Stands
    <3>3. CASE disks'[f] # None
      <4>1. PICK e \in {"partial", "synced"} :
                disks'[f] = [disks[f] EXCEPT !.data = IF @ = "synced" THEN "synced" ELSE e,
                                             !.linked = TRUE]
        BY <1>1, <2>2, <3>3 DEF Approval!Leftovers, Approval!There
      <4>2. /\ disks'[f] \in Approval!Record /\ disks'[f].val = disks[f].val
            /\ disks'[f].linked = TRUE
            /\ disks[f].data = "synced" => disks'[f].data = "synced"
        BY <3>1, <4>1 DEF Approval!Record
      <4> QED BY <2>2, <3>3, <4>2 DEF Stored, Stands
    <3> QED BY <3>2, <3>3
  <2> QED BY <2>1, <2>2
<1>3. ApprovalTypes'
  <2>1. disks' \in [Approval!File -> Stored]
    BY <1>1, <1>2
  <2> QED BY <1>1, <2>1, ApprovalIdle DEF ApprovalTypes
<1>4. \A c \in Caller : procs'[c].pc = "idle" /\ procs'[c].file = "pending"
  BY <1>1, ApprovalIdle
<1>5. WritersOwn'
  BY <1>4 DEF WritersOwn, Writer
<1>6. ShownWhole'
  BY <1>0, <1>1, <1>2, <1>4 DEF ShownWhole
<1>7. ASSUME ~ trusted PROVE BodiesFirst' /\ AnsweredStands'
  <2>1. BodiesFirst /\ AnsweredStands
    BY <1>0, <1>7
  <2>2. AnsweredStands'
    <3>1. \A r \in saved' : Stands("pending", r)' /\ (r \in Large => Stands("body", r)')
      BY <1>0, <1>1, <1>2, <2>1 DEF AnsweredStands, Stands
    <3>2. \A r \in approvals' : Stands("approved", r)'
      BY <1>0, <1>1, <1>2, <2>1 DEF AnsweredStands, Stands
    <3> QED BY <3>1, <3>2 DEF AnsweredStands
  <2>3. ASSUME disks'["pending"] # None, disks'["pending"].val \in Large
        PROVE  /\ disks'["body"] # None /\ disks'["body"].val = disks'["pending"].val
               /\ disks'["body"].data = "synced" /\ disks'["body"].linked = TRUE
    <3>1. disks["pending"] # None /\ disks["pending"].val = disks'["pending"].val
      BY <1>0, <1>2, <2>3
    <3>2. Stands("body", disks["pending"].val)
      BY <2>1, <2>3, <3>1 DEF BodiesFirst
    <3> QED BY <1>0, <1>2, <3>1, <3>2
  <2> QED BY <1>4, <2>2, <2>3 DEF BodiesFirst, Stands
<1> QED BY <1>1, <1>3, <1>5, <1>6, <1>7 DEF StoreInv

LEMMA NextStoreInv == StoreInv /\ [PartNext]_partVars => StoreInv'
<1> SUFFICES ASSUME StoreInv, [PartNext]_partVars PROVE StoreInv'
  OBVIOUS
<1>1. [Approval!Next]_approvalVars
  BY PartSteps
<1>2. CASE UNCHANGED approvalVars
  BY <1>2 DEF approvalVars, StoreInv, ApprovalTypes, WritersOwn, ShownWhole, BodiesFirst,
              AnsweredStands, Stands
<1>3. CASE Approval!PowerLoss
  BY <1>3, StoreLoss
<1>4. ASSUME NEW c \in Caller,
             \/ \E r \in Review : Approval!SavePending(c, r)
             \/ Approval!Display(c) \/ Approval!Approve(c) \/ Approval!Fails(c)
      PROVE  StoreInv'
  BY <1>4, CommandStep
<1>5. ASSUME NEW c \in Caller,
             \/ Approval!Create(c) \/ Approval!Write(c) \/ Approval!SyncFile(c)
             \/ Approval!Link(c) \/ Approval!Replay(c)
      PROVE  StoreInv'
  BY <1>5, CreateStep, AnswerStep
<1> QED BY <1>1, <1>2, <1>3, <1>4, <1>5 DEF Approval!Next, Caller

LEMMA StoreInvariant == PartSpec => []StoreInv
BY InitStoreInv, NextStoreInv, PTL DEF PartSpec, partVars

\* loadPending and Approve: whatever calls, commands, failures and power losses
\* come together, an approval that counts is of a review that an operator was
\* shown, and what was shown is the whole of its body (ApprovedAsShown).
THEOREM ApprovalsShown == PartSpec => []ApprovedAsShown
<1>1. StoreInv => ApprovedAsShown
  BY DEF StoreInv, ShownWhole, ApprovedAsShown, Approval!ApprovedAsShown, Approval!Whole,
         Approval!There
<1> QED BY <1>1, StoreInvariant, PTL

\* SavePending and Approve: what was answered can be read, as it was answered,
\* whatever a power loss makes of the files, as long as no call was content with
\* a file another one had not finished (ReviewsStand).
THEOREM ReviewsDurable == PartSpec => []ReviewsStand
<1>1. ASSUME NEW f \in Approval!File, NEW r, Stands(f, r), ApprovalTypes
      PROVE  \A d \in Approval!Leftovers(f) :
                 d # None /\ d.data # "partial" /\ d.val = r
  <2>1. /\ disks[f] \in Approval!Record /\ disks[f].val = r
        /\ disks[f].data = "synced" /\ disks[f].linked = TRUE /\ disks[f] # None
    BY <1>1 DEF Stands, ApprovalTypes, Stored
  <2> DEFINE Left(e) == [disks[f] EXCEPT !.data = IF @ = "synced" THEN "synced" ELSE e,
                                         !.linked = TRUE]
  <2>2. ASSUME NEW e
        PROVE  Left(e) \in Approval!Record /\ Left(e).data = "synced" /\ Left(e).val = r
    BY <2>1 DEF Approval!Record
  <2>3. None \notin Approval!Record
    BY ComponentsAssumption DEF Approval!ApprovalsAssumption
  <2>4. \A d \in Approval!Leftovers(f) : \E e : d = Left(e)
    BY <2>1 DEF Approval!Leftovers, Approval!There
  <2> HIDE DEF Left
  <2> QED BY <2>2, <2>3, <2>4
<1>2. StoreInv => ReviewsStand
  <2> SUFFICES ASSUME StoreInv, ~ trusted PROVE Approval!SavedDurably
    BY DEF ReviewsStand, Approval!ReviewsStand
  <2>1. ApprovalTypes /\ AnsweredStands /\ {"pending", "body", "approved"} \subseteq Approval!File
    BY DEF StoreInv, Approval!File
  <2> QED BY <1>1, <2>1 DEF AnsweredStands, Approval!SavedDurably
<1> QED BY <1>2, StoreInvariant, PTL

-----------------------------------------------------------------------------
(* The guard's answers.                                                    *)

\* An item that is no reasoning, and one that is a verdict of its own.
IsVerdict(i) == response.output[i].type # "reasoning"
IsProper(i) == response.output[i].type = "message" /\ response.output[i].proper = TRUE

Inspected(k) ==
    /\ \A i \in 1..k : IsVerdict(i) => IsProper(i) /\ response.output[i].text = found
    /\ \A i, j \in 1..k : IsVerdict(i) /\ IsVerdict(j) => i = j
    /\ found # "none" => \E i \in 1..k : IsVerdict(i)

\* As long as nothing is decided, the items seen hold one verdict at most, and
\* it is the one that was found.
AnswerInv ==
    part = "guard" =>
        /\ response.output \in Seq(Guard!Item)
        /\ inspected \in 0..Len(response.output)
        /\ outcome = "none" => Inspected(inspected)
        /\ Guard!FailsClosed

\* verdictForClassification and consistentVerdict: every name of the schema has a
\* consistent verdict, with the decision the name promises.
LEMMA VerdictsConsistent ==
    ASSUME NEW t \in Guard!classificationNames
    PROVE  /\ Guard!Consistent(Guard!VerdictFor[t])
           /\ Guard!VerdictFor[t].decision =
                  IF t \in Guard!AllowNames THEN "allow"
                  ELSE IF t \in Guard!ReviewNames THEN "review" ELSE "deny"
<1>1. t \in {"allow_public", "allow_coordination", "review_personal",
             "review_work_internal", "review_security", "review_ambiguous",
             "deny_secret", "deny_credential", "deny_personal_sensitive",
             "deny_work_internal", "deny_regulated", "deny_policy_violation",
             "deny_prompt_injection"}
  BY DEF Guard!classificationNames, Guard!VerdictFor
<1>2. CASE t \in {"allow_public", "allow_coordination"}
  <2>1. /\ Guard!VerdictFor[t].decision = "allow" /\ Guard!VerdictFor[t].reason = "allowed"
        /\ Guard!VerdictFor[t].class \in {"public", "coordination"}
    BY <1>2 DEF Guard!VerdictFor, Guard!Verdict
  <2> QED BY <1>2, <2>1 DEF Guard!Consistent, Guard!AllowNames
<1>3. CASE t \in {"review_personal", "review_work_internal", "review_security",
                  "review_ambiguous"}
  <2>1. /\ Guard!VerdictFor[t].decision = "review"
        /\ Guard!VerdictFor[t].reason \in {"work_internal", "ambiguous"}
        /\ Guard!VerdictFor[t].class \notin {"credential", "secret", "regulated"}
    BY <1>3 DEF Guard!VerdictFor, Guard!Verdict
  <2> QED BY <1>3, <2>1 DEF Guard!Consistent, Guard!AllowNames, Guard!ReviewNames
<1>4. CASE t \in {"deny_secret", "deny_credential", "deny_personal_sensitive",
                  "deny_work_internal", "deny_regulated", "deny_policy_violation",
                  "deny_prompt_injection"}
  <2>1. Guard!VerdictFor[t].decision = "deny" /\ Guard!VerdictFor[t].reason # "allowed"
    BY <1>4 DEF Guard!VerdictFor, Guard!Verdict
  <2> QED BY <1>4, <2>1 DEF Guard!Consistent, Guard!AllowNames, Guard!ReviewNames
<1> QED BY <1>1, <1>2, <1>3, <1>4

LEMMA InitAnswerInv == PartInit => AnswerInv
<1> SUFFICES ASSUME PartInit, part = "guard" PROVE AnswerInv
  BY DEF AnswerInv
<1>1. Guard!Init
  BY DEF PartInit
<1>2. \A n \in 0..MaxItems : [1..n -> Guard!Item] \subseteq Seq(Guard!Item)
  BY ComponentsAssumption DEF Guard!GuardResponseAssumption
<1>3. response.output \in Seq(Guard!Item)
  BY <1>1, <1>2 DEF Guard!Init
<1>4. Inspected(0)
  BY <1>1 DEF Inspected, Guard!Init
<1> QED BY <1>1, <1>3, <1>4 DEF AnswerInv, Guard!Init, Guard!FailsClosed

\* An error that is right closes the call.
LEMMA AnswerErrs ==
    ASSUME AnswerInv, part = "guard", part' = part,
           UNCHANGED response, inspected' \in 0..Len(response.output),
           outcome' = "error",
           \/ ~ (response.formed /\ response.completed /\ response.identified)
           \/ \E i \in 1..Len(response.output) : IsVerdict(i) /\ ~ IsProper(i)
           \/ \E i, j \in 1..Len(response.output) : IsVerdict(i) /\ IsVerdict(j) /\ i # j
    PROVE  AnswerInv'
<1> DEFINE verdicts == {i \in 1..Len(response.output) : response.output[i].type # "reasoning"}
           only == CHOOSE i \in verdicts : TRUE
           sound == /\ response.formed /\ response.completed /\ response.identified
                    /\ verdicts # {} /\ \A i, j \in verdicts : i = j
                    /\ response.output[only].type = "message" /\ response.output[only].proper
                    /\ response.output[only].text \in Guard!classificationNames
<1>1. \A i : i \in verdicts <=> i \in 1..Len(response.output) /\ IsVerdict(i)
  BY DEF IsVerdict
<1>2. response.output \in Seq(Guard!Item)
  BY DEF AnswerInv
<1>3. \A i \in 1..Len(response.output) : response.output[i] \in Guard!Item
  BY <1>2
<1>4. ASSUME sound PROVE FALSE
  <2>1. only \in verdicts /\ \A i \in verdicts : i = only
    BY <1>4
  <2>2. IsProper(only)
    <3>1. response.output[only].type = "message" /\ response.output[only] \in Guard!Item
      BY <1>3, <1>4, <2>1
    <3>2. response.output[only].proper \in BOOLEAN
      BY <3>1 DEF Guard!Item
    <3>3. response.output[only].proper = TRUE
      BY <1>4, <3>2
    <3> QED BY <3>1, <3>3 DEF IsProper
  <2> HIDE DEF verdicts, only
  <2> QED BY <1>1, <1>4, <2>1, <2>2
<1>5. Guard!FailsClosed'
  BY <1>4 DEF Guard!FailsClosed
<1> QED BY <1>2, <1>5 DEF AnswerInv

\* One turn over the items keeps to what the items so far say.
LEMMA InspectStep ==
    ASSUME AnswerInv, part = "guard", part' = part, Guard!Inspect
    PROVE  AnswerInv'
<1> DEFINE n == inspected + 1
           item == response.output[n]
<1>1. /\ response.output \in Seq(Guard!Item) /\ inspected \in Nat
      /\ n \in 1..Len(response.output) /\ Inspected(inspected)
      /\ inspected < Len(response.output)
  BY DEF AnswerInv, Guard!Inspect, Guard!Inspecting
<1>2. item \in Guard!Item
  BY <1>1
<1>3. UNCHANGED response /\ inspected' = n
  BY DEF Guard!Inspect
<1>4. 1..n = 1..inspected \cup {n} /\ n \notin 1..inspected
  BY <1>1
<1>5. CASE item.type = "reasoning"
  <2>1. UNCHANGED <<found, outcome>>
    BY <1>5 DEF Guard!Inspect
  <2>2. ~ IsVerdict(n)
    BY <1>5 DEF IsVerdict
  <2>3. Inspected(n)
    <3> HIDE DEF n
    <3> QED BY <1>1, <1>4, <2>2 DEF Inspected
  <2>4. Inspected(inspected)'
    BY <1>3, <2>1, <2>3 DEF Inspected, IsVerdict, IsProper
  <2>5. outcome' = "none"
    BY <2>1 DEF Guard!Inspect, Guard!Inspecting
  <2> QED BY <1>1, <1>3, <2>4, <2>5 DEF AnswerInv, Guard!FailsClosed
<1>6. CASE /\ item.type # "reasoning"
           /\ item.type # "message" \/ ~ item.proper \/ found # "none"
  <2>1. outcome' = "error"
    BY <1>6 DEF Guard!Inspect
  <2>2. IsVerdict(n)
    BY <1>6 DEF IsVerdict
  <2>3. \/ \E i \in 1..Len(response.output) : IsVerdict(i) /\ ~ IsProper(i)
        \/ \E i, j \in 1..Len(response.output) : IsVerdict(i) /\ IsVerdict(j) /\ i # j
    <3>1. CASE ~ IsProper(n)
      BY <1>1, <2>2, <3>1
    <3>2. CASE IsProper(n)
      <4>1. found # "none"
        BY <1>6, <3>2 DEF IsProper
      <4>2. PICK i \in 1..inspected : IsVerdict(i)
        BY <1>1, <4>1 DEF Inspected
      <4>3. i \in 1..Len(response.output) /\ i # n
        BY <1>1, <4>2
      <4> QED BY <1>1, <2>2, <4>2, <4>3
    <3> QED BY <3>1, <3>2
  <2>4. inspected' \in 0..Len(response.output)
    BY <1>1, <1>3
  <2> QED BY <1>3, <2>1, <2>3, <2>4, AnswerErrs
<1>7. CASE item.type = "message" /\ item.proper /\ found = "none"
  <2>1. found' = item.text /\ UNCHANGED outcome
    BY <1>7 DEF Guard!Inspect
  <2>2. item.text \in Classified /\ item.text # "none" /\ item.proper \in BOOLEAN
    <3>1. item \in [type : {"message"}, proper : BOOLEAN, text : Classified]
      BY <1>2, <1>7 DEF Guard!Item
    <3> QED BY <3>1, ComponentsAssumption DEF Guard!GuardResponseAssumption
  <2>3. IsVerdict(n) /\ IsProper(n)
    <3>1. item.proper = TRUE
      BY <1>7, <2>2
    <3> QED BY <1>7, <3>1 DEF IsVerdict, IsProper
  <2>4. \A i \in 1..inspected : ~ IsVerdict(i)
    <3> SUFFICES ASSUME NEW i \in 1..inspected, IsVerdict(i) PROVE FALSE
      OBVIOUS
    <3>1. response.output[i].type = "message" /\ response.output[i].text = "none"
      BY <1>1, <1>7 DEF Inspected, IsProper
    <3>2. response.output[i] \in Guard!Item
      BY <1>1
    <3>3. response.output[i] \in [type : {"message"}, proper : BOOLEAN, text : Classified]
      BY <3>1, <3>2 DEF Guard!Item
    <3> QED BY <3>1, <3>3, ComponentsAssumption DEF Guard!GuardResponseAssumption
  <2>5. /\ \A i \in 1..n : IsVerdict(i) => i = n
        /\ n \in 1..n
    BY <1>1, <1>4, <2>4
  <2>6. Inspected(inspected)'
    <3>1. /\ \A i : (IsVerdict(i)' <=> IsVerdict(i)) /\ (IsProper(i)' <=> IsProper(i))
          /\ response'.output[n].text = found'
      BY <1>3, <2>1 DEF IsVerdict, IsProper
    <3> HIDE DEF n
    <3>2. \A i \in 1..n : IsVerdict(i)' => i = n
      BY <2>5, <3>1
    <3>3. \A i \in 1..n : IsVerdict(i)' => IsProper(i)' /\ response'.output[i].text = found'
      BY <2>3, <3>1, <3>2
    <3>4. \E i \in 1..n : IsVerdict(i)'
      BY <2>3, <2>5, <3>1
    <3> QED BY <1>3, <3>2, <3>3, <3>4 DEF Inspected
  <2>7. outcome' = "none"
    BY <2>1 DEF Guard!Inspect, Guard!Inspecting
  <2> QED BY <1>1, <1>3, <2>6, <2>7 DEF AnswerInv, Guard!FailsClosed
<1>8. \/ item.type = "message" /\ item.proper /\ found = "none"
      \/ item.type = "reasoning"
      \/ /\ item.type # "reasoning"
         /\ item.type # "message" \/ ~ item.proper \/ found # "none"
  OBVIOUS
<1> QED BY <1>5, <1>6, <1>7, <1>8

\* The text found is decided on when every item has been seen.
LEMMA DecideStep ==
    ASSUME AnswerInv, part = "guard", part' = part, Guard!Decide
    PROVE  AnswerInv'
<1> DEFINE verdicts == {i \in 1..Len(response.output) : response.output[i].type # "reasoning"}
           only == CHOOSE i \in verdicts : TRUE
<1>1. /\ response.output \in Seq(Guard!Item) /\ inspected = Len(response.output)
      /\ Inspected(Len(response.output))
      /\ response.formed /\ response.completed /\ response.identified
      /\ inspected \in 0..Len(response.output)
  BY DEF AnswerInv, Guard!Decide
<1>2. \A i : i \in verdicts <=> i \in 1..Len(response.output) /\ IsVerdict(i)
  BY DEF IsVerdict
<1>3. UNCHANGED <<response, inspected, found>>
  BY DEF Guard!Decide
<1>4. "none" \notin Guard!classificationNames
  BY DEF Guard!classificationNames, Guard!VerdictFor
<1>5. Guard!FailsClosed'
  <2>1. CASE verdicts = {}
    <3>1. found = "none"
      BY <1>1, <1>2, <2>1 DEF Inspected
    <3>2. outcome' = "error"
      BY <1>4, <3>1 DEF Guard!Decide
    <3> QED BY <1>3, <2>1, <3>2 DEF Guard!FailsClosed
  <2>2. CASE verdicts # {}
    <3>1. only \in verdicts
      BY <2>2
    <3>2. only \in 1..Len(response.output) /\ IsVerdict(only)
      BY <1>2, <3>1
    <3>3. IsProper(only) /\ response.output[only].text = found
      <4> HIDE DEF only
      <4> QED BY <1>1, <3>2 DEF Inspected
    <3>4. \A i, j \in verdicts : i = j
      BY <1>1, <1>2 DEF Inspected
    <3>5. response.output[only].type = "message" /\ response.output[only].proper
      BY <3>3 DEF IsProper
    <3>6. outcome' = IF found \in Guard!classificationNames
                     THEN IF found \in Guard!AllowNames THEN "allow"
                          ELSE IF found \in Guard!ReviewNames THEN "review" ELSE "deny"
                     ELSE "error"
      BY VerdictsConsistent DEF Guard!Decide
    <3>7. UNCHANGED verdicts /\ UNCHANGED only
      BY <1>3
    <3> QED BY <1>1, <1>3, <2>2, <3>3, <3>4, <3>5, <3>6, <3>7 DEF Guard!FailsClosed
  <2> QED BY <2>1, <2>2
<1>6. outcome' # "none"
  <2>1. CASE /\ found \in Guard!classificationNames
             /\ Guard!Consistent(Guard!VerdictFor[found])
    <3>1. outcome' = Guard!VerdictFor[found].decision
      BY <2>1 DEF Guard!Decide
    <3> QED BY <2>1, <3>1, VerdictsConsistent
  <2>2. CASE ~ /\ found \in Guard!classificationNames
               /\ Guard!Consistent(Guard!VerdictFor[found])
    BY <2>2 DEF Guard!Decide
  <2> QED BY <2>1, <2>2
<1> QED BY <1>1, <1>3, <1>5, <1>6 DEF AnswerInv

LEMMA NextAnswerInv == AnswerInv /\ [PartNext]_partVars => AnswerInv'
<1> SUFFICES ASSUME AnswerInv, [PartNext]_partVars PROVE AnswerInv'
  OBVIOUS
<1>1. part' = part /\ (part = "guard" => [Guard!Next]_guardVars)
  BY PartSteps
<1>2. CASE part # "guard"
  BY <1>1, <1>2 DEF AnswerInv
<1>3. CASE part = "guard" /\ UNCHANGED guardVars
  <2>1. UNCHANGED <<response, inspected, found, outcome>>
    BY <1>3 DEF guardVars
  <2>2. Guard!FailsClosed <=> Guard!FailsClosed'
    BY <2>1 DEF Guard!FailsClosed
  <2>3. Inspected(inspected) <=> Inspected(inspected)'
    BY <2>1 DEF Inspected, IsVerdict, IsProper
  <2> QED BY <1>1, <2>1, <2>2, <2>3 DEF AnswerInv
<1>4. CASE part = "guard" /\ Guard!Refuse
  <2>1. /\ UNCHANGED response /\ inspected' = inspected /\ outcome' = "error"
        /\ ~ (response.formed /\ response.completed /\ response.identified)
    BY <1>4 DEF Guard!Refuse
  <2>2. inspected' \in 0..Len(response.output)
    BY <1>4, <2>1 DEF AnswerInv
  <2> QED BY <1>1, <1>4, <2>1, <2>2, AnswerErrs
<1>5. CASE part = "guard" /\ Guard!Inspect
  BY <1>1, <1>5, InspectStep
<1>6. CASE part = "guard" /\ Guard!Decide
  BY <1>1, <1>6, DecideStep
<1> QED BY <1>1, <1>2, <1>3, <1>4, <1>5, <1>6 DEF Guard!Next

\* Evaluate and verdictOutputText: whatever the provider answers, a decision comes
\* only from a complete answer with one proper verdict, and it is the one that
\* verdict's name promises (FailsClosed).
THEOREM GuardFailsClosed == PartSpec => []FailsClosed
<1>1. AnswerInv => FailsClosed
  BY DEF AnswerInv, FailsClosed
<1>2. PartSpec => []AnswerInv
  BY InitAnswerInv, NextAnswerInv, PTL DEF PartSpec, partVars
<1> QED BY <1>1, <1>2, PTL

-----------------------------------------------------------------------------
(* Peer commands.                                                          *)

PeerStep == {"open", "replace", "check", "sync", "create", "fill", "fsync"}
PeerCommand ==
    [pc : PeerStep, run : Nat, kind : {"peer", "init", "init --force"},
     before : Peers!Pins \cup {Partial}, after : Peers!Pins, settled : BOOLEAN,
     alone : BOOLEAN]

PeerTypes ==
    /\ file \in Peers!File \cup {None}
    /\ versions \subseteq Peers!File \cup {None}
    /\ file \in versions
    /\ runs \in Nat
    /\ commands \in [Cmd -> PeerCommand \cup {Peers!Idle}]

\* What pins say is in S.
Vouched(S, pins) ==
    \A n \in Name : pins[n] # None => [name |-> n, key |-> pins[n]] \in S

\* What the files pin and what the commands are about to write is vouched for.
VouchedInv ==
    \A S \in SUBSET [name : Name, key : Key] : Peers!Closed(S) =>
        /\ \A v \in versions : Peers!Complete(v) => Vouched(S, v.pins)
        /\ \A c \in Cmd : Vouched(S, commands[c].after)

\* The inodes: each has the number of one run, read contents are what a power loss
\* can leave of a file or its unfinished version, and a command's own file holds
\* what it is to write as far as the command has come.
Numbers ==
    /\ \A v \in versions : v # None => v.by <= runs
    /\ \A c \in Peers!Running : commands[c].run <= runs
    /\ \A c, d \in Peers!Running : commands[c].run = commands[d].run => c = d

ReadContents ==
    \A v \in versions : Peers!SameFile(v, file) => v.pins \in {file.pins, Partial}

OwnContents(c) ==
    /\ \A v \in versions : Peers!Mine(c, v) =>
           \/ commands[c].pc \in {"check", "sync"} /\ v.pins = commands[c].after
           \/ commands[c].pc = "fill" /\ v.pins = Partial
           \/ commands[c].pc = "fsync" /\ v.pins \in {commands[c].after, Partial}
    /\ commands[c].pc = "fsync" /\ Peers!Mine(c, file) => file.pins = commands[c].after

InodeInv ==
    /\ Numbers
    /\ ReadContents
    /\ \A c \in Peers!Running : OwnContents(c)

\* What a power loss may leave of the file while command c runs alone.
Leaves(c, v) ==
    \/ Peers!PinsOf(v) \in {commands[c].before, commands[c].after}
    \/ commands[c].settled = FALSE /\ Peers!PinsOf(v) = Partial

\* What a command that runs alone knows of the file when it has reached its step.
Reached(c) ==
    LET cmd == commands[c] IN
    /\ cmd.pc = "open" =>
           Peers!PinsOf(file) = cmd.before /\ (cmd.settled = TRUE => Peers!Settled)
    /\ cmd.pc = "replace" => \A v \in versions : Leaves(c, v)
    /\ cmd.pc = "check" \/ (cmd.pc = "sync" /\ cmd.kind # "init") =>
           /\ file = Peers!Version(cmd.run, cmd.after)
           /\ \A v \in versions : Leaves(c, v)
    /\ cmd.pc = "create" => versions = {None}
    /\ cmd.pc = "fill" =>
           /\ file = Peers!Version(cmd.run, Partial)
           /\ versions \subseteq {None, file}
    /\ cmd.pc = "fsync" =>
           /\ file = Peers!Version(cmd.run, cmd.after)
           /\ versions \subseteq {None, Peers!Version(cmd.run, Partial), file}
    /\ cmd.pc = "sync" /\ cmd.kind = "init" =>
           /\ file = Peers!Version(cmd.run, cmd.after)
           /\ versions \subseteq {None, file}
    /\ cmd.pc \in {"replace", "check"} => cmd.kind # "init"
    /\ cmd.pc \in {"create", "fill", "fsync"} => cmd.kind = "init"
    /\ cmd.kind = "init" /\ cmd.pc # "open" => cmd.before = Peers!NoPins

SerialInv ==
    /\ \A c \in Peers!Running : commands[c].alone = TRUE =>
           Peers!Running = {c} /\ Reached(c)
    /\ Peers!SerialOutcome

PeerInv == PeerTypes /\ VouchedInv /\ InodeInv /\ SerialInv

LEMMA PeerIdle ==
    /\ Peers!Idle.pc = "idle" /\ Peers!Idle.kind = "none" /\ Peers!Idle.run = 0
    /\ Peers!Idle.before = Peers!NoPins /\ Peers!Idle.after = Peers!NoPins
    /\ Peers!Idle.alone = TRUE
    /\ Peers!Idle \notin PeerCommand
    /\ Peers!NoPins \in Peers!Pins
    /\ [Peers!Idle EXCEPT !.alone = TRUE] = Peers!Idle
<1>1. Peers!NoPins \in Peers!Pins
  BY DEF Peers!NoPins, Peers!Pins
<1>2. /\ Peers!Idle.pc = "idle" /\ Peers!Idle.kind = "none" /\ Peers!Idle.run = 0
      /\ Peers!Idle.before = Peers!NoPins /\ Peers!Idle.after = Peers!NoPins
  BY DEF Peers!Idle
<1>3. Peers!Idle.alone = TRUE
  BY DEF Peers!Idle
<1>4. Peers!Idle \notin PeerCommand
  BY <1>2 DEF PeerCommand, PeerStep
<1> DEFINE Rec(t, b) == [pc |-> "idle", run |-> 0, kind |-> "none",
                         before |-> Peers!NoPins, after |-> Peers!NoPins,
                         settled |-> t, alone |-> b]
<1>5. ASSUME NEW t, NEW a, NEW b PROVE [Rec(t, a) EXCEPT !.alone = b] = Rec(t, b)
  OBVIOUS
<1>6. [Peers!Idle EXCEPT !.alone = TRUE] = Peers!Idle
  <2>1. Peers!Idle = Rec(TRUE, TRUE)
    BY DEF Peers!Idle
  <2> HIDE DEF Rec
  <2> QED BY <1>5, <2>1
<1> QED BY <1>1, <1>2, <1>3, <1>4, <1>6

LEMMA PeerPins ==
    /\ Partial \notin Peers!Pins /\ None \notin Peers!File
    /\ \A v \in Peers!File : v.by \in Nat /\ v.pins \in Peers!Pins \cup {Partial} /\ v # None
    /\ \A by \in Nat, pins \in Peers!Pins \cup {Partial} :
           /\ Peers!Version(by, pins) \in Peers!File
           /\ Peers!Version(by, pins).by = by /\ Peers!Version(by, pins).pins = pins
    /\ \A v \in Peers!File : Peers!PinsOf(v) = v.pins
    /\ Peers!PinsOf(None) = Peers!NoPins
BY ComponentsAssumption
   DEF Peers!PeerConfigAssumption, Peers!File, Peers!Version, Peers!PinsOf

\* A command goes on to its next step.
LEMMA PeerGoesOn ==
    ASSUME PeerTypes, NEW c \in Cmd, commands[c] # Peers!Idle, NEW pc \in PeerStep,
           Peers!Goes(c, pc)
    PROVE  /\ commands' \in [Cmd -> PeerCommand \cup {Peers!Idle}]
           /\ commands'[c].pc = pc /\ commands'[c].run = commands[c].run
           /\ commands'[c].kind = commands[c].kind
           /\ commands'[c].before = commands[c].before
           /\ commands'[c].after = commands[c].after
           /\ (commands'[c].settled = TRUE) <=> (commands[c].settled = TRUE)
           /\ (commands'[c].settled = FALSE) <=> (commands[c].settled = FALSE)
           /\ commands'[c] \in PeerCommand
           /\ \A d \in Cmd \ {c} : commands'[d] = commands[d]
           /\ Peers!Running' = Peers!Running
<1> DEFINE r == [commands[c] EXCEPT !.pc = pc]
<1>1. commands[c] \in PeerCommand
  BY DEF PeerTypes
<1>2. /\ r \in PeerCommand /\ r.pc = pc /\ r.run = commands[c].run
      /\ r.kind = commands[c].kind /\ r.before = commands[c].before
      /\ r.after = commands[c].after
  BY <1>1 DEF PeerCommand
<1>6. /\ (r.settled = TRUE) <=> (commands[c].settled = TRUE)
      /\ (r.settled = FALSE) <=> (commands[c].settled = FALSE)
  BY <1>1 DEF PeerCommand
<1>3. commands' = [commands EXCEPT ![c] = r] /\ commands \in [Cmd -> PeerCommand \cup {Peers!Idle}]
  BY DEF PeerTypes, Peers!Goes
<1> HIDE DEF r
<1>4. /\ commands' \in [Cmd -> PeerCommand \cup {Peers!Idle}]
      /\ commands'[c] = r /\ \A d \in Cmd \ {c} : commands'[d] = commands[d]
  BY <1>2, <1>3
<1>5. Peers!Running' = Peers!Running
  BY <1>2, <1>4, PeerIdle DEF Peers!Running
<1> QED BY <1>2, <1>4, <1>5, <1>6

LEMMA PeerStillAlone ==
    ASSUME PeerTypes, NEW c \in Cmd, commands[c] # Peers!Idle, NEW pc \in PeerStep,
           Peers!Goes(c, pc)
    PROVE  (commands'[c].alone = TRUE) <=> (commands[c].alone = TRUE)
<1>1. commands[c] \in PeerCommand /\ commands \in [Cmd -> PeerCommand \cup {Peers!Idle}]
  BY DEF PeerTypes
<1>2. [commands[c] EXCEPT !.pc = pc].alone = commands[c].alone
  BY <1>1 DEF PeerCommand
<1>3. commands'[c] = [commands[c] EXCEPT !.pc = pc]
  BY <1>1 DEF Peers!Goes
<1> QED BY <1>2, <1>3

\* A command ends.
LEMMA PeerEnds ==
    ASSUME PeerTypes, NEW c \in Cmd, commands' = [commands EXCEPT ![c] = Peers!Idle]
    PROVE  /\ commands' \in [Cmd -> PeerCommand \cup {Peers!Idle}]
           /\ commands'[c] = Peers!Idle
           /\ \A d \in Cmd \ {c} : commands'[d] = commands[d]
           /\ Peers!Running' = Peers!Running \ {c}
<1>1. commands \in [Cmd -> PeerCommand \cup {Peers!Idle}]
  BY DEF PeerTypes
<1> QED BY <1>1 DEF Peers!Running

LEMMA RunFollows ==
    \A n \in Nat : /\ n + 1 \in Nat /\ n + 1 <= n + 1
                   /\ \A m \in Nat : m <= n => m <= n + 1 /\ m # n + 1
OBVIOUS

\* What Begin makes of the commands: c is alone if no other one runs, and no other
\* one is alone from then on.
HasBegun(c, kind, before, after) ==
    /\ commands' \in [Cmd -> PeerCommand \cup {Peers!Idle}]
    /\ commands[c] = Peers!Idle /\ runs' \in Nat
    /\ commands'[c].pc = "open" /\ commands'[c].kind = kind
    /\ commands'[c].before = before /\ commands'[c].after = after
    /\ commands'[c].run = runs + 1 /\ runs' = runs + 1
    /\ commands'[c].settled = TRUE => Peers!Settled
    /\ commands'[c] # Peers!Idle
    /\ (commands'[c].alone = TRUE) => Peers!Running = {}
    /\ \A d \in Cmd \ {c} :
           /\ commands'[d].pc = commands[d].pc
           /\ commands'[d].after = commands[d].after
           /\ commands'[d].run = commands[d].run
           /\ commands[d] = Peers!Idle => commands'[d] = Peers!Idle
           /\ commands[d] # Peers!Idle => commands'[d] # Peers!Idle
           /\ commands'[d] # Peers!Idle => commands'[d].alone = FALSE
    /\ Peers!Running' = Peers!Running \cup {c}

LEMMA PeerBegins ==
    ASSUME PeerTypes, NEW c \in Cmd, NEW kind \in {"peer", "init", "init --force"},
           NEW before \in Peers!Pins \cup {Partial}, NEW after \in Peers!Pins,
           Peers!Begin(c, kind, "open", before, after)
    PROVE  HasBegun(c, kind, before, after)
<1>0. runs + 1 \in Nat
  <2>1. runs \in Nat
    BY DEF PeerTypes
  <2> QED BY <2>1, RunFollows
<1>a. PICK t \in BOOLEAN : t = Peers!Settled
  BY DEF Peers!Settled
<1> DEFINE Rec(b) == [pc |-> "open", run |-> runs + 1, kind |-> kind, before |-> before,
                      after |-> after, settled |-> t, alone |-> b]
           Other(d) == [commands[d] EXCEPT !.alone = commands[d] = Peers!Idle]
<1>1. /\ commands \in [Cmd -> PeerCommand \cup {Peers!Idle}] /\ runs \in Nat
      /\ commands[c] = Peers!Idle
  BY DEF PeerTypes, Peers!Begin
<1>2. PICK b \in BOOLEAN : b = (Peers!Running = {})
  OBVIOUS
<1>3. runs' = runs + 1
  BY DEF Peers!Begin
<1>4. commands' = [d \in Cmd |-> IF d = c THEN Rec(b) ELSE Other(d)]
  BY <1>2, <1>a DEF Peers!Begin
<1>5. /\ Rec(b) \in PeerCommand /\ Rec(b).pc = "open" /\ Rec(b).kind = kind
      /\ Rec(b).before = before /\ Rec(b).after = after /\ Rec(b).run = runs + 1
  <2>1. b \in BOOLEAN /\ t \in BOOLEAN
    BY <1>2, <1>a
  <2>2. runs + 1 \in Nat
    BY <1>0
  <2> QED BY <2>1, <2>2 DEF PeerCommand, PeerStep
<1>6. Rec(b).alone = b /\ Rec(b).settled = t
  OBVIOUS
<1>7. ASSUME NEW d \in Cmd, commands[d] = Peers!Idle
      PROVE  Other(d) = Peers!Idle
  <2>1. (commands[d] = Peers!Idle) = TRUE
    BY <1>7
  <2>2. Other(d) = [Peers!Idle EXCEPT !.alone = TRUE]
    BY <1>7, <2>1
  <2> QED BY <2>2, PeerIdle
<1>8. ASSUME NEW d \in Cmd, commands[d] # Peers!Idle
      PROVE  /\ Other(d) \in PeerCommand /\ Other(d).pc = commands[d].pc
             /\ Other(d).after = commands[d].after /\ Other(d).alone = FALSE
             /\ Other(d).run = commands[d].run
  <2>1. (commands[d] = Peers!Idle) = FALSE
    BY <1>8
  <2>2. Other(d) = [commands[d] EXCEPT !.alone = FALSE]
    BY <2>1
  <2>3. commands[d] \in PeerCommand
    BY <1>1, <1>8
  <2> QED BY <2>2, <2>3 DEF PeerCommand
<1>9. /\ (Rec(b).alone = TRUE) => Peers!Running = {}
      /\ (Rec(b).settled = TRUE) => Peers!Settled
  BY <1>2, <1>6, <1>a
<1> HIDE DEF Rec, Other
<1>10. /\ commands'[c] = Rec(b)
       /\ \A d \in Cmd \ {c} : commands'[d] = Other(d)
  BY <1>4
<1>11. commands' \in [Cmd -> PeerCommand \cup {Peers!Idle}]
  <2>1. \A d \in Cmd : (IF d = c THEN Rec(b) ELSE Other(d)) \in PeerCommand \cup {Peers!Idle}
    BY <1>5, <1>7, <1>8
  <2> QED BY <1>4, <2>1
<1>12. Peers!Running' = Peers!Running \cup {c}
  <2>1. \A d \in Cmd : (commands'[d] # Peers!Idle) <=> (commands[d] # Peers!Idle \/ d = c)
    <3>1. commands'[c] # Peers!Idle
      BY <1>5, <1>10, PeerIdle
    <3>2. ASSUME NEW d \in Cmd, d # c
          PROVE  (commands'[d] # Peers!Idle) <=> (commands[d] # Peers!Idle)
      <4>1. commands'[d] = Other(d)
        BY <1>10, <3>2
      <4>2. CASE commands[d] = Peers!Idle
        BY <1>7, <4>1, <4>2
      <4>3. CASE commands[d] # Peers!Idle
        <5>1. Other(d) \in PeerCommand
          BY <1>8, <4>3
        <5> QED BY <4>1, <4>3, <5>1, PeerIdle
      <4> QED BY <4>2, <4>3
    <3> QED BY <3>1, <3>2
  <2> QED BY <2>1 DEF Peers!Running
<1>13. ASSUME NEW d \in Cmd \ {c}
       PROVE  /\ commands'[d].pc = commands[d].pc
              /\ commands'[d].after = commands[d].after
              /\ commands'[d].run = commands[d].run
              /\ commands[d] = Peers!Idle => commands'[d] = Peers!Idle
              /\ commands[d] # Peers!Idle => commands'[d] # Peers!Idle
              /\ commands'[d] # Peers!Idle => commands'[d].alone = FALSE
  <2>1. CASE commands[d] = Peers!Idle
    BY <1>7, <1>10, <2>1
  <2>2. CASE commands[d] # Peers!Idle
    <3>1. commands'[d] = Other(d)
      BY <1>10
    <3>2. /\ Other(d) \in PeerCommand /\ Other(d).pc = commands[d].pc
          /\ Other(d).after = commands[d].after /\ Other(d).run = commands[d].run
      BY <1>8, <2>2
    <3>3. Other(d).alone = FALSE
      BY <1>8, <2>2
    <3>4. commands'[d] # Peers!Idle
      BY <3>1, <3>2, PeerIdle
    <3>5. commands'[d].alone = FALSE
      BY <3>1, <3>3
    <3> QED BY <2>2, <3>1, <3>2, <3>4, <3>5
  <2> QED BY <2>1, <2>2
<1>14. /\ commands'[c].pc = "open" /\ commands'[c].kind = kind
       /\ commands'[c].before = before /\ commands'[c].after = after
       /\ commands'[c] # Peers!Idle /\ commands'[c].run = runs + 1
  BY <1>5, <1>10, PeerIdle
<1>15. /\ (commands'[c].alone = TRUE) => Peers!Running = {}
       /\ commands'[c].settled = TRUE => Peers!Settled
  BY <1>9, <1>10
<1>16. runs' \in Nat
  BY <1>0, <1>3
<1> QED BY <1>1, <1>3, <1>11, <1>12, <1>13, <1>14, <1>15, <1>16 DEF HasBegun

LEMMA InitPeerInv == PartInit => PeerInv
<1> SUFFICES ASSUME PartInit PROVE PeerInv
  OBVIOUS
<1>1. /\ file = None /\ versions = {None} /\ commands = [c \in Cmd |-> Peers!Idle]
      /\ runs = 0 /\ last = Peers!NoCommand /\ named = {}
  BY DEF PartInit, Peers!Init
<1>2. PeerTypes
  BY <1>1 DEF PeerTypes
<1>3. VouchedInv
  BY <1>1, PeerIdle DEF VouchedInv, Vouched, Peers!Complete, Peers!NoPins
<1>4. SerialInv
  <2>1. Peers!Running = {}
    BY <1>1 DEF Peers!Running
  <2>2. ~ last.alone
    BY <1>1 DEF Peers!NoCommand
  <2> QED BY <2>1, <2>2 DEF SerialInv, Peers!SerialOutcome
<1>5. InodeInv
  BY <1>1 DEF InodeInv, Numbers, ReadContents, Peers!Running, Peers!SameFile
<1> QED BY <1>2, <1>3, <1>4, <1>5 DEF PeerInv

\* A command that begins has a number no file has.
LEMMA BeginsInodes ==
    ASSUME PeerTypes, InodeInv, NEW c \in Cmd,
           NEW kind \in {"peer", "init", "init --force"},
           NEW before \in Peers!Pins \cup {Partial}, NEW after \in Peers!Pins,
           Peers!Begin(c, kind, "open", before, after), UNCHANGED <<file, versions>>
    PROVE  InodeInv'
<1>0. HasBegun(c, kind, before, after)
  BY PeerBegins
<1>1. Numbers /\ ReadContents /\ \A d \in Peers!Running : OwnContents(d)
  BY DEF InodeInv
<1>2. /\ runs \in Nat /\ runs' = runs + 1 /\ commands'[c].run = runs + 1
      /\ commands'[c].pc = "open" /\ Peers!Running' = Peers!Running \cup {c}
      /\ c \notin Peers!Running
      /\ \A d \in Cmd \ {c} : /\ commands'[d].run = commands[d].run
                              /\ commands'[d].pc = commands[d].pc
                              /\ commands'[d].after = commands[d].after
  BY <1>0 DEF PeerTypes, HasBegun, Peers!Running
<1>3. /\ versions \subseteq Peers!File \cup {None} /\ file \in versions
      /\ \A v \in versions : v # None => v.by \in Nat
      /\ \A d \in Peers!Running : d \in Cmd \ {c} /\ commands[d].run \in Nat
  <2>1. \A d \in Peers!Running : d \in Cmd /\ commands[d] \in PeerCommand
    BY DEF PeerTypes, Peers!Running
  <2> QED BY <1>2, <2>1, PeerPins DEF PeerTypes, PeerCommand
<1>4. Numbers'
  <2>1. ASSUME NEW v \in versions', v # None PROVE v.by <= runs'
    <3>1. v.by \in Nat /\ v.by <= runs
      BY <1>1, <1>3, <2>1 DEF Numbers
    <3> QED BY <1>2, <3>1, RunFollows
  <2>2. ASSUME NEW d \in Peers!Running
        PROVE  commands'[d].run <= runs' /\ commands'[d].run # runs + 1
    <3>1. commands'[d].run \in Nat /\ commands'[d].run <= runs
      BY <1>1, <1>2, <1>3, <2>2 DEF Numbers
    <3> QED BY <1>2, <3>1, RunFollows
  <2>3. \A d \in Peers!Running' : commands'[d].run <= runs'
    <3>1. runs \in Nat
      BY <1>2
    <3>2. runs + 1 <= runs + 1
      BY <3>1, RunFollows
    <3>3. commands'[c].run <= runs'
      BY <1>2, <3>2
    <3> QED BY <1>2, <2>2, <3>3
  <2>4. \A d, e \in Peers!Running' : commands'[d].run = commands'[e].run => d = e
    <3> SUFFICES ASSUME NEW d \in Peers!Running', NEW e \in Peers!Running',
                        commands'[d].run = commands'[e].run
                 PROVE  d = e
      OBVIOUS
    <3>1. CASE d \in Peers!Running /\ e \in Peers!Running
      BY <1>1, <1>2, <1>3, <3>1 DEF Numbers
    <3>2. CASE d = c \/ e = c
      BY <1>2, <2>2, <3>2
    <3> QED BY <1>2, <3>1, <3>2
  <2> QED BY <2>1, <2>3, <2>4 DEF Numbers
<1>5. ReadContents'
  BY <1>1 DEF ReadContents, Peers!SameFile
<1>6. ASSUME NEW d \in Peers!Running' PROVE OwnContents(d)'
  <2>1. CASE d = c
    <3>1. ASSUME NEW v \in versions', v # None PROVE v.by # commands'[c].run
      <4>1. v.by \in Nat /\ v.by <= runs
        BY <1>1, <1>3, <3>1 DEF Numbers
      <4> QED BY <1>2, <4>1, RunFollows
    <3> QED BY <1>2, <2>1, <3>1 DEF OwnContents, Peers!Mine
  <2>2. CASE d # c
    BY <1>1, <1>2, <1>3, <1>6, <2>2 DEF OwnContents, Peers!Mine
  <2> QED BY <2>1, <2>2
<1> QED BY <1>4, <1>5, <1>6 DEF InodeInv

\* A command that goes on changes no file but its own.
LEMMA GoesOnInodes ==
    ASSUME PeerTypes, InodeInv, NEW c \in Cmd, commands[c] # Peers!Idle,
           NEW pc \in PeerStep, Peers!Goes(c, pc), runs' = runs,
           \A v \in versions' : v \in versions \/ Peers!Mine(c, v),
           file' = file \/ Peers!Mine(c, file'),
           ReadContents', OwnContents(c)'
    PROVE  InodeInv'
<1>1. /\ Numbers /\ \A d \in Peers!Running : OwnContents(d)
      /\ c \in Peers!Running
  BY DEF InodeInv, Peers!Running
<1>2. /\ commands'[c].run = commands[c].run
      /\ \A d \in Cmd \ {c} : commands'[d] = commands[d]
      /\ Peers!Running' = Peers!Running
  BY PeerGoesOn
<1>3. \A d \in Peers!Running : d \in Cmd /\ commands'[d].run = commands[d].run
  BY <1>2 DEF Peers!Running
<1>4. Numbers'
  BY <1>1, <1>2, <1>3 DEF Numbers, Peers!Mine
<1>5. ASSUME NEW d \in Peers!Running' PROVE OwnContents(d)'
  <2>1. CASE d # c
    <3>1. commands'[d] = commands[d] /\ OwnContents(d) /\ commands[d].run # commands[c].run
      BY <1>1, <1>2, <1>3, <1>5, <2>1 DEF Numbers
    <3>2. \A v : Peers!Mine(c, v) => ~ Peers!Mine(d, v)
      BY <3>1 DEF Peers!Mine
    <3> QED BY <3>1, <3>2 DEF OwnContents, Peers!Mine
  <2> QED BY <2>1
<1> QED BY <1>4, <1>5 DEF InodeInv

\* A command that ends leaves the files or takes the name away.
LEMMA EndsInodes ==
    ASSUME PeerTypes, InodeInv, NEW c \in Cmd,
           commands' = [commands EXCEPT ![c] = Peers!Idle], runs' = runs,
           versions' \subseteq versions \cup {None}, file' \in {file, None}
    PROVE  InodeInv'
<1>1. /\ \A d \in Cmd \ {c} : commands'[d] = commands[d]
      /\ Peers!Running' = Peers!Running \ {c}
  BY PeerEnds
<1>2. Numbers /\ ReadContents /\ \A d \in Peers!Running : OwnContents(d)
  BY DEF InodeInv
<1>3. \A d \in Peers!Running' : d \in Peers!Running /\ commands'[d] = commands[d]
  BY <1>1 DEF Peers!Running
<1>4. Numbers'
  BY <1>2, <1>3 DEF Numbers
<1>5. ReadContents'
  BY <1>2 DEF ReadContents, Peers!SameFile
<1>6. \A d \in Peers!Running' : OwnContents(d)'
  BY <1>2, <1>3 DEF OwnContents, Peers!Mine
<1> QED BY <1>4, <1>5, <1>6 DEF InodeInv

\* A command that begins knows the file it has loaded.
LEMMA BeginsSerial ==
    ASSUME PeerTypes, SerialInv, NEW c \in Cmd,
           NEW kind \in {"peer", "init", "init --force"},
           NEW before \in Peers!Pins \cup {Partial}, NEW after \in Peers!Pins,
           Peers!Begin(c, kind, "open", before, after), before = Peers!PinsOf(file),
           UNCHANGED <<file, versions, last>>
    PROVE  SerialInv'
<1>0. HasBegun(c, kind, before, after)
  BY PeerBegins
<1>1. \A d \in Peers!Running' : commands'[d].alone = TRUE => d = c
  BY <1>0 DEF HasBegun, Peers!Running
<1>2. ASSUME commands'[c].alone = TRUE PROVE Peers!Running' = {c}
  BY <1>0, <1>2 DEF HasBegun
<1>3. Reached(c)'
  <2>1. /\ commands'[c].pc = "open" /\ commands'[c].before = before
        /\ commands'[c].settled = TRUE => Peers!Settled
    BY <1>0 DEF HasBegun
  <2>2. Peers!PinsOf(file)' = before /\ Peers!Settled' = Peers!Settled
    BY DEF Peers!PinsOf, Peers!NoPins, Peers!Settled, Peers!SameFile
  <2> QED BY <2>1, <2>2 DEF Reached
<1>4. Peers!AtWork' = Peers!AtWork
  BY <1>0, PeerIdle DEF HasBegun, Peers!AtWork
<1>5. Peers!SerialOutcome'
  <2>1. Peers!SerialOutcome
    BY DEF SerialInv
  <2>2. UNCHANGED <<versions, last, Peers!AtWork>>
    BY <1>4
  <2> QED BY <2>1, <2>2 DEF Peers!SerialOutcome, Peers!Complete, Peers!PinsOf, Peers!NoPins
<1> QED BY <1>1, <1>2, <1>3, <1>5 DEF SerialInv

LEMMA BeginsVouched ==
    ASSUME PeerTypes, VouchedInv, NEW c \in Cmd,
           NEW kind \in {"peer", "init", "init --force"},
           NEW before \in Peers!Pins \cup {Partial}, NEW after \in Peers!Pins,
           Peers!Begin(c, kind, "open", before, after),
           named \subseteq named', UNCHANGED <<file, versions>>,
           \A S \in SUBSET [name : Name, key : Key] : Peers!Closed(S)' => Vouched(S, after)
    PROVE  PeerTypes' /\ VouchedInv'
<1>0. HasBegun(c, kind, before, after)
  BY PeerBegins
<1>1. PeerTypes'
  <2>1. UNCHANGED <<file, versions>> /\ file \in Peers!File \cup {None}
        /\ versions \subseteq Peers!File \cup {None} /\ file \in versions
    BY DEF PeerTypes
  <2> QED BY <1>0, <2>1 DEF HasBegun, PeerTypes
<1>2. ASSUME NEW S \in SUBSET [name : Name, key : Key], Peers!Closed(S)'
      PROVE  /\ \A v \in versions' : Peers!Complete(v) => Vouched(S, v.pins)
             /\ \A d \in Cmd : Vouched(S, commands'[d].after)
  <2>1. Peers!Closed(S)
    BY <1>2 DEF Peers!Closed
  <2>2. /\ \A v \in versions : Peers!Complete(v) => Vouched(S, v.pins)
        /\ \A d \in Cmd : Vouched(S, commands[d].after)
    BY <2>1 DEF VouchedInv
  <2>3. Vouched(S, after)
    BY <1>2
  <2>4. \A d \in Cmd : commands'[d].after = IF d = c THEN after ELSE commands[d].after
    BY <1>0 DEF HasBegun
  <2> QED BY <2>2, <2>3, <2>4
<1>3. VouchedInv'
  BY <1>2 DEF VouchedInv, Vouched, Peers!Complete
<1> QED BY <1>1, <1>3

\* add, rotate and remove keep pins that are vouched for so.
LEMMA AppliesVouched ==
    ASSUME NEW pins \in Peers!Pins, NEW op \in Peers!Operations, Peers!Allowed(op, pins)
    PROVE  /\ Peers!Apply(op, pins) \in Peers!Pins
           /\ \A S \in SUBSET [name : Name, key : Key] :
                  /\ Vouched(S, pins)
                  /\ op.type = "add" => [name |-> op.name, key |-> op.key] \in S
                  /\ \A t \in Cert : [name |-> t.name, key |-> t.prev] \in S =>
                                        [name |-> t.name, key |-> t.new] \in S
                  => Vouched(S, Peers!Apply(op, pins))
<1>1. /\ Offered \subseteq [name : Name, key : Key]
      /\ Cert \subseteq [name : Name, prev : Key, new : Key] /\ None \notin Key
  BY ComponentsAssumption DEF Peers!PeerConfigAssumption
<1>2. pins \in [Name -> Key \cup {None}]
  BY DEF Peers!Pins
<1>3. CASE \E o \in Offered : op = Peers!Add(o.name, o.key)
  <2>1. op.type = "add" /\ op.name \in Name /\ op.key \in Key
    BY <1>1, <1>3 DEF Peers!Add
  <2>2. Peers!Apply(op, pins) = [pins EXCEPT ![op.name] = op.key]
    BY DEF Peers!Apply
  <2> QED BY <1>2, <2>1, <2>2 DEF Peers!Pins, Vouched
<1>4. CASE \E t \in Cert : op = Peers!Rotate(t)
  <2>1. PICK t \in Cert : op = Peers!Rotate(t)
    BY <1>4
  <2>2. /\ op.type = "rotate" /\ op.name = t.name /\ op.key = t.new /\ op.prev = t.prev
        /\ t.name \in Name /\ t.new \in Key /\ t.prev \in Key /\ t.prev # None
    BY <1>1, <2>1 DEF Peers!Rotate
  <2>3. pins[t.name] = t.prev
    BY <2>2 DEF Peers!Allowed
  <2>4. Peers!Apply(op, pins) = [pins EXCEPT ![t.name] = t.new]
    BY <2>2 DEF Peers!Apply
  <2> QED BY <1>2, <2>2, <2>3, <2>4 DEF Peers!Pins, Vouched
<1>5. CASE \E n \in Name : op = Peers!Remove(n)
  <2>1. op.type = "remove" /\ op.name \in Name /\ op.key = None
    BY <1>5 DEF Peers!Remove
  <2>2. Peers!Apply(op, pins) = [pins EXCEPT ![op.name] = None]
    BY <2>1 DEF Peers!Apply
  <2> QED BY <1>2, <2>1, <2>2 DEF Peers!Pins, Vouched
<1> QED BY <1>3, <1>4, <1>5 DEF Peers!Operations

LEMMA BeginsPeer ==
    ASSUME PeerInv, NEW c \in Cmd,
           \/ \E op \in Peers!Operations : Peers!BeginPeer(c, op)
           \/ \E kind \in {"init", "init --force"} : Peers!BeginInit(c, kind)
    PROVE  PeerInv'
<1>1. PeerTypes /\ VouchedInv /\ InodeInv /\ SerialInv
  BY DEF PeerInv
<1>2. CASE \E op \in Peers!Operations : Peers!BeginPeer(c, op)
  <2>1. PICK op \in Peers!Operations : Peers!BeginPeer(c, op)
    BY <1>2
  <2> DEFINE before == Peers!Loaded
             after == Peers!Apply(op, before)
  <2>2. /\ file = None \/ Peers!Complete(file)
        /\ Peers!Allowed(op, before) /\ Peers!Begin(c, "peer", "open", before, after)
        /\ named \subseteq named' /\ UNCHANGED <<file, versions, last>>
        /\ op.type = "add" => [name |-> op.name, key |-> op.key] \in named'
    BY <2>1 DEF Peers!BeginPeer
  <2>3. before \in Peers!Pins /\ before = Peers!PinsOf(file)
    <3>1. file = None \/ file \in Peers!File
      BY <1>1 DEF PeerTypes
    <3> QED BY <2>2, <3>1, PeerIdle, PeerPins DEF Peers!Loaded, Peers!Complete, Peers!PinsOf
  <2>4. \A S \in SUBSET [name : Name, key : Key] : Peers!Closed(S) => Vouched(S, before)
    <3>1. file \in versions
      BY <1>1 DEF PeerTypes
    <3>2. \A S : Vouched(S, Peers!NoPins)
      BY DEF Vouched, Peers!NoPins
    <3> QED BY <1>1, <2>2, <3>1, <3>2 DEF VouchedInv, Peers!Loaded
  <2> HIDE DEF before
  <2>5. after \in Peers!Pins
    BY <2>2, <2>3, AppliesVouched
  <2>6. \A S \in SUBSET [name : Name, key : Key] : Peers!Closed(S)' => Vouched(S, after)
    <3> SUFFICES ASSUME NEW S \in SUBSET [name : Name, key : Key], Peers!Closed(S)'
                 PROVE  Vouched(S, after)
      OBVIOUS
    <3>1. /\ named' \subseteq S
          /\ \A t \in Cert : [name |-> t.name, key |-> t.prev] \in S =>
                                [name |-> t.name, key |-> t.new] \in S
      BY DEF Peers!Closed
    <3>2. Peers!Closed(S)
      BY <2>2, <3>1 DEF Peers!Closed
    <3> QED BY <2>2, <2>3, <2>4, <3>1, <3>2, AppliesVouched
  <2> HIDE DEF after
  <2>7. before \in Peers!Pins \cup {Partial} /\ "peer" \in {"peer", "init", "init --force"}
    BY <2>3
  <2>8. SerialInv'
    BY <1>1, <2>2, <2>3, <2>5, <2>7, BeginsSerial
  <2>9. PeerTypes' /\ VouchedInv'
    BY <1>1, <2>2, <2>5, <2>6, <2>7, BeginsVouched
  <2>10. InodeInv'
    BY <1>1, <2>2, <2>5, <2>7, BeginsInodes
  <2> QED BY <2>8, <2>9, <2>10 DEF PeerInv
<1>3. CASE \E kind \in {"init", "init --force"} : Peers!BeginInit(c, kind)
  <2>1. PICK kind \in {"init", "init --force"} : Peers!BeginInit(c, kind)
    BY <1>3
  <2> DEFINE before == Peers!PinsOf(file)
  <2>2. /\ Peers!Begin(c, kind, "open", before, Peers!NoPins)
        /\ named \subseteq named' /\ UNCHANGED <<file, versions, last>>
    BY <2>1 DEF Peers!BeginInit, Peers!PinsOf
  <2>3. before \in Peers!Pins \cup {Partial}
    <3>1. file = None \/ file \in Peers!File
      BY <1>1 DEF PeerTypes
    <3> QED BY <3>1, PeerIdle, PeerPins DEF Peers!PinsOf
  <2>4. kind \in {"peer", "init", "init --force"} /\ Peers!NoPins \in Peers!Pins
    BY PeerIdle
  <2>5. \A S \in SUBSET [name : Name, key : Key] :
            Peers!Closed(S)' => Vouched(S, Peers!NoPins)
    BY DEF Vouched, Peers!NoPins
  <2>6. SerialInv'
    BY <1>1, <2>2, <2>3, <2>4, BeginsSerial
  <2>7. PeerTypes' /\ VouchedInv'
    BY <1>1, <2>2, <2>3, <2>4, <2>5, BeginsVouched
  <2>8. InodeInv'
    BY <1>1, <2>2, <2>3, <2>4, BeginsInodes
  <2> QED BY <2>6, <2>7, <2>8 DEF PeerInv
<1> QED BY <1>2, <1>3

\* At a step of its work, a command need only reach the next one.
LEMMA WorksSerial ==
    ASSUME PeerTypes, SerialInv, NEW c \in Cmd, commands[c] # Peers!Idle,
           NEW pc \in PeerStep \ {"open"}, Peers!Goes(c, pc),
           commands[c].alone = TRUE /\ Reached(c) => Reached(c)'
    PROVE  SerialInv'
<1>1. c \in Peers!Running
  BY DEF Peers!Running
<1>2. pc \in PeerStep
  OBVIOUS
<1>3. /\ commands'[c].pc = pc
      /\ \A d \in Cmd \ {c} : commands'[d] = commands[d]
      /\ Peers!Running' = Peers!Running
  BY <1>2, PeerGoesOn
<1>4. (commands'[c].alone = TRUE) <=> (commands[c].alone = TRUE)
  BY <1>2, PeerStillAlone
<1>5. c \in Peers!AtWork'
  BY <1>3 DEF PeerStep, Peers!AtWork
<1>6. Peers!SerialOutcome'
  BY <1>5 DEF Peers!SerialOutcome
<1>7. \A d \in Peers!Running : commands[d].alone = TRUE => Peers!Running = {d} /\ Reached(d)
  BY DEF SerialInv
<1>8. ASSUME NEW d \in Peers!Running', commands'[d].alone = TRUE
      PROVE  Peers!Running' = {d} /\ Reached(d)'
  <2>1. d \in Cmd /\ d \in Peers!Running
    BY <1>3, <1>8 DEF Peers!Running
  <2>2. d = c
    <3>1. CASE d # c
      <4>1. commands[d].alone = TRUE
        BY <1>3, <1>8, <2>1, <3>1
      <4> QED BY <1>1, <1>7, <2>1, <3>1, <4>1
    <3> QED BY <3>1
  <2>3. commands[c].alone = TRUE
    BY <1>4, <1>8, <2>2
  <2> QED BY <1>1, <1>3, <1>7, <2>2, <2>3
<1> QED BY <1>6, <1>8 DEF SerialInv

\* What SerialOutcome says of a version a failed command o leaves.
OutcomeOf(o, v) ==
    \/ Peers!PinsOf(v) \in {o.before, o.after}
    \/ (o.kind = "init" \/ ~ o.settled) /\ Peers!PinsOf(v) = Partial

LEMMA SerialOutcomeIs ==
    Peers!SerialOutcome <=>
        (Peers!AtWork = {} /\ last.alone =>
             \A v \in versions : IF last.ok THEN Peers!Complete(v) /\ v.pins = last.after
                                ELSE OutcomeOf(last, v))
BY DEF Peers!SerialOutcome, OutcomeOf

LEMMA SerialOutcomeNext ==
    Peers!SerialOutcome' <=>
        (Peers!AtWork' = {} /\ last'.alone =>
             \A v \in versions' : IF last'.ok THEN Peers!Complete(v) /\ v.pins = last'.after
                                 ELSE OutcomeOf(last', v))
BY DEF Peers!SerialOutcome, OutcomeOf, Peers!Complete, Peers!PinsOf, Peers!NoPins

\* When a command that was alone ends, what it leaves must be its outcome.
LEMMA EndsSerial ==
    ASSUME PeerTypes, SerialInv, NEW c \in Cmd, commands[c] # Peers!Idle,
           commands' = [commands EXCEPT ![c] = Peers!Idle],
           \/ commands[c].pc = "open" /\ versions' \subseteq versions /\ last' = last
           \/ /\ last'.alone => commands[c].alone = TRUE
              /\ commands[c].alone = TRUE /\ Reached(c) =>
                     \A v \in versions' :
                         IF last'.ok THEN Peers!Complete(v) /\ v.pins = last'.after
                         ELSE OutcomeOf(last', v)
    PROVE  SerialInv'
<1>1. c \in Peers!Running
  BY DEF Peers!Running
<1>2. /\ commands'[c] = Peers!Idle
      /\ \A d \in Cmd \ {c} : commands'[d] = commands[d]
      /\ Peers!Running' = Peers!Running \ {c}
  BY PeerEnds
<1>3. /\ \A d \in Peers!Running :
             commands[d].alone = TRUE => Peers!Running = {d} /\ Reached(d)
      /\ Peers!SerialOutcome
  BY DEF SerialInv
<1>4. ASSUME NEW d \in Peers!Running', commands'[d].alone = TRUE PROVE FALSE
  <2>1. d \in Cmd \ {c} /\ d \in Peers!Running
    BY <1>2, <1>4 DEF Peers!Running
  <2>2. commands[d].alone = TRUE
    BY <1>2, <1>4, <2>1
  <2> QED BY <1>1, <1>3, <2>1, <2>2
<1>5. Peers!SerialOutcome'
  <2>1. CASE commands[c].pc = "open" /\ versions' \subseteq versions /\ last' = last
    <3>1. Peers!AtWork' = Peers!AtWork
      BY <1>2, <2>1, PeerIdle DEF Peers!AtWork
    <3> QED BY <1>3, <2>1, <3>1, SerialOutcomeIs, SerialOutcomeNext
  <2>2. CASE /\ last'.alone => commands[c].alone = TRUE
             /\ commands[c].alone = TRUE /\ Reached(c) =>
                    \A v \in versions' :
                        IF last'.ok THEN Peers!Complete(v) /\ v.pins = last'.after
                        ELSE OutcomeOf(last', v)
    BY <1>1, <1>3, <2>2, SerialOutcomeNext
  <2> QED BY <2>1, <2>2
<1> QED BY <1>4, <1>5 DEF SerialInv

\* What is vouched for stays so when files pin what files or commands did.
LEMMA VouchedOn ==
    ASSUME VouchedInv, UNCHANGED named,
           \A d \in Cmd : commands'[d].after \in {commands[d].after, Peers!NoPins},
           \A v \in versions' : Peers!Complete(v) =>
               v \in versions \/ \E d \in Cmd : v.pins = commands[d].after
    PROVE  VouchedInv'
<1>1. ASSUME NEW S \in SUBSET [name : Name, key : Key], Peers!Closed(S)'
      PROVE  /\ \A v \in versions' : Peers!Complete(v) => Vouched(S, v.pins)
             /\ \A d \in Cmd : Vouched(S, commands'[d].after)
  <2>1. Peers!Closed(S)
    BY <1>1 DEF Peers!Closed
  <2>2. /\ \A v \in versions : Peers!Complete(v) => Vouched(S, v.pins)
        /\ \A d \in Cmd : Vouched(S, commands[d].after)
    BY <2>1 DEF VouchedInv
  <2>3. Vouched(S, Peers!NoPins)
    BY DEF Vouched, Peers!NoPins
  <2> QED BY <2>2, <2>3
<1> QED BY <1>1 DEF VouchedInv, Vouched, Peers!Complete

\* The command's own contents after a step that keeps its number and its update.
LEMMA OwnNext ==
    ASSUME NEW c \in Cmd, commands'[c].run = commands[c].run,
           commands'[c].after = commands[c].after,
           \A v \in versions' : Peers!Mine(c, v) =>
               \/ commands'[c].pc \in {"check", "sync"} /\ v.pins = commands[c].after
               \/ commands'[c].pc = "fill" /\ v.pins = Partial
               \/ commands'[c].pc = "fsync" /\ v.pins \in {commands[c].after, Partial},
           commands'[c].pc = "fsync" /\ Peers!Mine(c, file') => file'.pins = commands[c].after
    PROVE  OwnContents(c)'
BY DEF OwnContents, Peers!Mine

LEMMA LeavesNext ==
    ASSUME NEW c \in Cmd, NEW v, Leaves(c, v),
           commands'[c].before = commands[c].before, commands'[c].after = commands[c].after,
           commands[c].settled = FALSE => commands'[c].settled = FALSE
    PROVE  Leaves(c, v)'
BY DEF Leaves, Peers!PinsOf, Peers!NoPins

\* A version is its number and its pins.
LEMMA VersionIs ==
    ASSUME NEW v \in Peers!File, NEW by, NEW pins, v.by = by, v.pins = pins
    PROVE  v = Peers!Version(by, pins)
BY DEF Peers!File, Peers!Version

\* The steps of a command's work, up to the last one.
LEMMA PeerWorks ==
    ASSUME PeerInv, NEW c \in Cmd,
           \/ Peers!OpenParent(c) \/ Peers!Rename(c) \/ Peers!Verify(c)
           \/ Peers!Create(c) \/ Peers!Write(c) \/ Peers!SyncFile(c)
    PROVE  PeerInv'
<1> DEFINE cmd == commands[c]
           Onward(pc) == /\ pc \in PeerStep \ {"open"} /\ Peers!Goes(c, pc)
                         /\ cmd.pc \in PeerStep /\ UNCHANGED <<runs, named>>
                         /\ file' \in Peers!File \cup {None}
                         /\ versions' \subseteq Peers!File \cup {None}
                         /\ file' \in versions'
                         /\ \A v \in versions' : v \in versions \/ Peers!Mine(c, v)
                         /\ file' = file \/ Peers!Mine(c, file')
                         /\ \A v \in versions' : Peers!Complete(v) =>
                                v \in versions \/ v.pins = cmd.after
           Contents == ReadContents' /\ OwnContents(c)'
           Keeps == cmd.alone = TRUE /\ Reached(c) => Reached(c)'
<1>1. PeerTypes /\ VouchedInv /\ InodeInv /\ SerialInv
  BY DEF PeerInv
<1>2. ASSUME NEW pc, Onward(pc), Contents, Keeps PROVE PeerInv'
  <2>1. cmd # Peers!Idle /\ pc \in PeerStep \ {"open"} /\ pc \in PeerStep /\ Peers!Goes(c, pc)
    BY <1>2, PeerIdle DEF PeerStep
  <2>2. /\ commands' \in [Cmd -> PeerCommand \cup {Peers!Idle}]
        /\ commands'[c].after = commands[c].after
        /\ \A d \in Cmd \ {c} : commands'[d] = commands[d]
    BY <1>1, <2>1, PeerGoesOn
  <2>3. PeerTypes'
    <3>1. runs' \in Nat
      BY <1>1, <1>2 DEF PeerTypes
    <3> QED BY <1>2, <2>2, <3>1 DEF PeerTypes
  <2>4. \A d \in Cmd : commands'[d].after \in {commands[d].after, Peers!NoPins}
    BY <2>2
  <2>5. VouchedInv'
    BY <1>1, <1>2, <2>4, VouchedOn
  <2>6. SerialInv'
    BY <1>1, <1>2, <2>1, WorksSerial
  <2>7. InodeInv'
    <3>1. runs' = runs
      BY <1>2
    <3> QED BY <1>1, <1>2, <2>1, <3>1, GoesOnInodes
  <2> QED BY <2>3, <2>5, <2>6, <2>7 DEF PeerInv
<1>3. ASSUME cmd.pc \in PeerStep
      PROVE  /\ cmd \in PeerCommand /\ cmd.after \in Peers!Pins /\ cmd.run \in Nat
             /\ cmd.kind \in {"peer", "init", "init --force"}
             /\ cmd.after # Partial /\ cmd.settled \in BOOLEAN
             /\ ReadContents /\ OwnContents(c)
             /\ \A v \in versions : v # None => v \in Peers!File
             /\ Peers!Filled(c) \in Peers!File /\ Peers!Filled(c).pins = cmd.after
             /\ Peers!Mine(c, Peers!Filled(c))
  <2>1. cmd \in PeerCommand /\ cmd # Peers!Idle
    BY <1>1, <1>3, PeerIdle DEF PeerTypes, PeerStep
  <2>2. c \in Peers!Running
    BY <2>1 DEF Peers!Running
  <2>3. cmd.after \in Peers!Pins /\ cmd.run \in Nat
    BY <2>1 DEF PeerCommand
  <2>4. Peers!Filled(c) \in Peers!File /\ Peers!Filled(c).by = cmd.run
        /\ Peers!Filled(c).pins = cmd.after
    BY <2>3, PeerPins DEF Peers!Filled
  <2>5. Peers!Mine(c, Peers!Filled(c))
    BY <2>4, PeerPins DEF Peers!Mine
  <2>6. cmd.after # Partial /\ cmd.settled \in BOOLEAN
        /\ cmd.kind \in {"peer", "init", "init --force"}
    BY <2>1, PeerPins DEF PeerCommand
  <2>7. ReadContents /\ OwnContents(c) /\ \A v \in versions : v # None => v \in Peers!File
    BY <1>1, <2>2 DEF InodeInv, PeerTypes
  <2> QED BY <2>1, <2>3, <2>4, <2>5, <2>6, <2>7
<1>4. ASSUME NEW pc \in PeerStep, Peers!Goes(c, pc), cmd.pc \in PeerStep
      PROVE  /\ commands'[c].pc = pc /\ commands'[c].run = cmd.run
             /\ commands'[c].kind = cmd.kind
             /\ commands'[c].before = cmd.before /\ commands'[c].after = cmd.after
             /\ cmd.settled = FALSE => commands'[c].settled = FALSE
  <2>1. cmd # Peers!Idle
    BY <1>4, PeerIdle DEF PeerStep
  <2> QED BY <1>1, <1>4, <2>1, PeerGoesOn
<1>5. /\ file \in Peers!File \cup {None} /\ versions \subseteq Peers!File \cup {None}
      /\ file \in versions
  BY <1>1 DEF PeerTypes
<1>6. CASE Peers!OpenParent(c)
  <2>1. PICK pc \in {"replace", "create"} :
            /\ cmd.pc = "open" /\ Peers!Goes(c, pc)
            /\ pc = "replace" => cmd.kind # "init"
            /\ pc = "create" => cmd.kind = "init" /\ file = None
            /\ versions' = Peers!DirectorySynced /\ UNCHANGED <<file, runs, named>>
    BY <1>6 DEF Peers!OpenParent
  <2>2. pc \in PeerStep \ {"open"} /\ pc \in PeerStep /\ cmd.pc \in PeerStep
    BY <2>1 DEF PeerStep
  <2>3. /\ versions' \subseteq versions /\ file \in versions'
        /\ \A v \in versions' : v = file \/ Peers!SameFile(v, file)
        /\ file = None => versions' = {None}
    BY <1>5, <2>1 DEF Peers!DirectorySynced, Peers!SameFile
  <2>4. Onward(pc)
    BY <1>5, <2>1, <2>2, <2>3
  <2>5. /\ commands'[c].pc = pc /\ commands'[c].kind = cmd.kind
        /\ commands'[c].run = cmd.run
        /\ commands'[c].before = cmd.before /\ commands'[c].after = cmd.after
        /\ cmd.settled = FALSE => commands'[c].settled = FALSE
    BY <1>4, <2>1, <2>2
  <2>6. Contents
    <3>1. ReadContents'
      BY <1>3, <2>1, <2>2, <2>3 DEF ReadContents, Peers!SameFile
    <3>2. \A v \in versions : ~ Peers!Mine(c, v)
      BY <1>3, <2>1, <2>2 DEF OwnContents
    <3>3. OwnContents(c)'
      BY <2>1, <2>3, <2>5, <3>2, OwnNext
    <3> QED BY <3>1, <3>3
  <2>7. Keeps
    <3> SUFFICES ASSUME Reached(c) PROVE Reached(c)'
      OBVIOUS
    <3>1. Peers!PinsOf(file) = cmd.before /\ (cmd.settled = TRUE => Peers!Settled)
      BY <2>1 DEF Reached
    <3>2. ASSUME NEW v \in versions' PROVE Leaves(c, v)'
      <4>1. v \in versions
        BY <2>3, <3>2
      <4>2. CASE v = file
        <5>1. Leaves(c, v)
          BY <3>1, <4>2 DEF Leaves
        <5> QED BY <2>5, <5>1, LeavesNext
      <4>3. CASE Peers!SameFile(v, file) /\ v # file
        <5>1. cmd.settled = FALSE
          BY <1>3, <2>2, <3>1, <4>1, <4>3 DEF Peers!Settled
        <5>2. v \in Peers!File /\ file \in Peers!File /\ v.pins \in {file.pins, Partial}
          BY <1>3, <1>5, <2>2, <4>1, <4>3 DEF ReadContents, Peers!SameFile
        <5>3. Leaves(c, v)
          BY <3>1, <5>1, <5>2, PeerPins DEF Leaves
        <5> QED BY <2>5, <5>3, LeavesNext
      <4> QED BY <2>3, <4>2, <4>3
    <3>3. pc = "create" => versions' = {None} /\ cmd.before = Peers!NoPins
      BY <2>1, <2>3, <3>1, PeerPins
    <3>4. commands'[c].kind = "init" => pc = "create"
      BY <2>1, <2>5
    <3>5. pc = "create" => commands'[c].kind = "init"
      BY <2>1, <2>5
    <3> HIDE DEF cmd
    <3> QED BY <2>1, <2>5, <3>2, <3>3, <3>4, <3>5 DEF Reached, Peers!NoPins
  <2> HIDE DEF Onward, Contents, Keeps
  <2> QED BY <1>2, <2>4, <2>6, <2>7
<1>7. CASE Peers!Rename(c)
  <2>1. /\ cmd.pc = "replace" /\ Peers!Goes(c, "check")
        /\ file' = Peers!Filled(c) /\ versions' = versions \cup {file'}
        /\ UNCHANGED <<runs, named>>
    BY <1>7 DEF Peers!Rename, Peers!Filled
  <2>2. "check" \in PeerStep \ {"open"} /\ "check" \in PeerStep /\ cmd.pc \in PeerStep
    BY <2>1 DEF PeerStep
  <2>3. /\ file' \in Peers!File /\ file'.pins = cmd.after /\ Peers!Mine(c, file')
        /\ \A v \in versions : ~ Peers!Mine(c, v)
    BY <1>3, <2>1, <2>2 DEF OwnContents
  <2>4. Onward("check")
    BY <1>5, <2>1, <2>2, <2>3
  <2>5. /\ commands'[c].pc = "check" /\ commands'[c].kind = cmd.kind
        /\ commands'[c].run = cmd.run
        /\ commands'[c].before = cmd.before /\ commands'[c].after = cmd.after
        /\ cmd.settled = FALSE => commands'[c].settled = FALSE
    BY <1>4, <2>1, <2>2
  <2>6. Contents
    <3>1. \A v \in versions : ~ Peers!SameFile(v, file')
      BY <2>3 DEF Peers!SameFile, Peers!Mine
    <3>2. ReadContents'
      BY <2>1, <3>1 DEF ReadContents, Peers!SameFile
    <3>3. OwnContents(c)'
      BY <2>1, <2>3, <2>5, OwnNext
    <3> QED BY <3>2, <3>3
  <2>7. Keeps
    <3> SUFFICES ASSUME Reached(c) PROVE Reached(c)'
      OBVIOUS
    <3>1. (\A v \in versions : Leaves(c, v)) /\ cmd.kind # "init"
      BY <2>1 DEF Reached
    <3>2. Leaves(c, file')
      BY <2>3, PeerPins DEF Leaves
    <3>3. \A v \in versions' : Leaves(c, v)'
      BY <2>1, <2>5, <3>1, <3>2, LeavesNext
    <3>4. file' = Peers!Version(commands'[c].run, commands'[c].after)
      BY <2>1, <2>5 DEF Peers!Filled
    <3> HIDE DEF cmd
    <3> QED BY <2>5, <3>1, <3>3, <3>4 DEF Reached, Peers!NoPins, Peers!Version
  <2> HIDE DEF Onward, Contents, Keeps
  <2> QED BY <1>2, <2>4, <2>6, <2>7
<1>8. CASE Peers!Verify(c)
  <2>1. /\ cmd.pc = "check" /\ Peers!Goes(c, "sync")
        /\ UNCHANGED <<file, versions, runs, named>>
    BY <1>8 DEF Peers!Verify
  <2>2. "sync" \in PeerStep \ {"open"} /\ "sync" \in PeerStep /\ cmd.pc \in PeerStep
    BY <2>1 DEF PeerStep
  <2>3. Onward("sync")
    BY <1>5, <2>1, <2>2
  <2>4. /\ commands'[c].pc = "sync" /\ commands'[c].kind = cmd.kind
        /\ commands'[c].run = cmd.run
        /\ commands'[c].before = cmd.before /\ commands'[c].after = cmd.after
        /\ cmd.settled = FALSE => commands'[c].settled = FALSE
    BY <1>4, <2>1, <2>2
  <2>5. Contents
    <3>1. \A v \in versions : Peers!Mine(c, v) => v.pins = cmd.after
      BY <1>3, <2>1, <2>2 DEF OwnContents
    <3>2. OwnContents(c)'
      BY <2>1, <2>4, <3>1, OwnNext
    <3> QED BY <1>3, <2>1, <2>2, <3>2 DEF ReadContents, Peers!SameFile
  <2>6. Keeps
    <3> SUFFICES ASSUME Reached(c) PROVE Reached(c)'
      OBVIOUS
    <3>1. /\ file = Peers!Version(cmd.run, cmd.after) /\ cmd.kind # "init"
          /\ \A v \in versions : Leaves(c, v)
      BY <2>1 DEF Reached
    <3>2. \A v \in versions' : Leaves(c, v)'
      BY <2>1, <2>4, <3>1, LeavesNext
    <3> HIDE DEF cmd
    <3> QED BY <2>1, <2>4, <3>1, <3>2 DEF Reached, Peers!NoPins, Peers!Version
  <2> HIDE DEF Onward, Contents, Keeps
  <2> QED BY <1>2, <2>3, <2>5, <2>6
<1>9. CASE Peers!Create(c)
  <2>1. /\ cmd.pc = "create" /\ Peers!Goes(c, "fill")
        /\ file' = Peers!Version(cmd.run, Partial) /\ versions' = versions \cup {file'}
        /\ UNCHANGED <<runs, named>>
    BY <1>9 DEF Peers!Create
  <2>2. "fill" \in PeerStep \ {"open"} /\ "fill" \in PeerStep /\ cmd.pc \in PeerStep
    BY <2>1 DEF PeerStep
  <2>3. /\ file' \in Peers!File /\ ~ Peers!Complete(file') /\ file'.pins = Partial
        /\ Peers!Mine(c, file')
    <3>1. cmd.run \in Nat /\ Partial \in Peers!Pins \cup {Partial}
      BY <1>3, <2>2
    <3>2. Peers!Version(cmd.run, Partial) \in Peers!File
          /\ Peers!Version(cmd.run, Partial).pins = Partial
          /\ Peers!Version(cmd.run, Partial).by = cmd.run
      BY <3>1, PeerPins
    <3> QED BY <2>1, <3>2, PeerPins DEF Peers!Complete, Peers!Mine
  <2>4. \A v \in versions : ~ Peers!Mine(c, v)
    BY <1>3, <2>1, <2>2 DEF OwnContents
  <2>5. Onward("fill")
    BY <1>5, <2>1, <2>2, <2>3
  <2>6. /\ commands'[c].pc = "fill" /\ commands'[c].kind = cmd.kind
        /\ commands'[c].run = cmd.run
        /\ commands'[c].before = cmd.before /\ commands'[c].after = cmd.after
    BY <1>4, <2>1, <2>2
  <2>7. Contents
    <3>1. \A v \in versions : ~ Peers!SameFile(v, file')
      BY <2>3, <2>4 DEF Peers!SameFile, Peers!Mine
    <3>2. ReadContents'
      BY <2>1, <3>1 DEF ReadContents, Peers!SameFile
    <3>3. OwnContents(c)'
      BY <2>1, <2>3, <2>4, <2>6, OwnNext
    <3> QED BY <3>2, <3>3
  <2>8. Keeps
    <3> SUFFICES ASSUME Reached(c) PROVE Reached(c)'
      OBVIOUS
    <3>1. versions = {None} /\ cmd.kind = "init" /\ cmd.before = Peers!NoPins
      BY <2>1 DEF Reached
    <3> HIDE DEF cmd
    <3> QED BY <2>1, <2>6, <3>1 DEF Reached, Peers!NoPins, Peers!Version
  <2> HIDE DEF Onward, Contents, Keeps
  <2> QED BY <1>2, <2>5, <2>7, <2>8
<1>10. CASE Peers!Write(c)
  <2> DEFINE filled == Peers!Filled(c)
             mine == {v \in versions : Peers!Mine(c, v)}
  <2>1. /\ cmd.pc = "fill" /\ Peers!Goes(c, "fsync")
        /\ file' = IF Peers!Mine(c, file) THEN filled ELSE file
        /\ versions' = versions \cup {filled : v \in mine}
        /\ UNCHANGED <<runs, named>>
    BY <1>10 DEF Peers!Write
  <2>2. "fsync" \in PeerStep \ {"open"} /\ "fsync" \in PeerStep /\ cmd.pc \in PeerStep
    BY <2>1 DEF PeerStep
  <2>3. /\ filled \in Peers!File /\ filled.pins = cmd.after /\ Peers!Mine(c, filled)
        /\ \A v \in versions : Peers!Mine(c, v) => v.pins = Partial
    BY <1>3, <2>1, <2>2 DEF OwnContents
  <2>4. \A v \in versions' : v \in versions \/ v = filled
    BY <2>1
  <2>5. file' \in versions' /\ file' \in Peers!File \cup {None}
        /\ ((file' = file /\ ~ Peers!Mine(c, file)) \/ file' = filled)
    BY <1>5, <2>1, <2>3
  <2>6. /\ commands'[c].pc = "fsync" /\ commands'[c].kind = cmd.kind
        /\ commands'[c].run = cmd.run
        /\ commands'[c].before = cmd.before /\ commands'[c].after = cmd.after
    BY <1>4, <2>1, <2>2
  <2> HIDE DEF filled
  <2>7. Onward("fsync")
    BY <1>5, <2>1, <2>2, <2>3, <2>4, <2>5
  <2>8. Contents
    <3>1. ASSUME NEW v \in versions', Peers!SameFile(v, file')
          PROVE  v.pins \in {file'.pins, Partial}
      <4>1. CASE file' = filled
        <5>1. Peers!Mine(c, v)
          BY <2>3, <3>1, <4>1 DEF Peers!SameFile, Peers!Mine
        <5> QED BY <2>3, <2>4, <3>1, <4>1, <5>1
      <4>2. CASE file' = file /\ ~ Peers!Mine(c, file)
        <5>1. v # filled
          BY <2>3, <3>1, <4>2 DEF Peers!SameFile, Peers!Mine
        <5> QED BY <1>3, <2>2, <2>4, <3>1, <4>2, <5>1 DEF ReadContents, Peers!SameFile
      <4> QED BY <2>5, <4>1, <4>2
    <3>2. ReadContents'
      BY <3>1 DEF ReadContents, Peers!SameFile
    <3>3. \A v \in versions' : Peers!Mine(c, v) => v.pins \in {cmd.after, Partial}
      BY <2>3, <2>4
    <3>4. Peers!Mine(c, file') => file'.pins = cmd.after
      BY <2>3, <2>5
    <3>5. OwnContents(c)'
      BY <2>6, <3>3, <3>4, OwnNext
    <3> QED BY <3>2, <3>5
  <2>9. Keeps
    <3> SUFFICES ASSUME Reached(c) PROVE Reached(c)'
      OBVIOUS
    <3>1. /\ file = Peers!Version(cmd.run, Partial) /\ versions \subseteq {None, file}
          /\ cmd.kind = "init" /\ cmd.before = Peers!NoPins
      BY <2>1 DEF Reached
    <3>2. Peers!Mine(c, file)
      <4>1. cmd.run \in Nat /\ Partial \in Peers!Pins \cup {Partial}
        BY <1>3, <2>2
      <4>2. file.by = cmd.run /\ file \in Peers!File
        BY <3>1, <4>1, PeerPins
      <4> QED BY <4>2, PeerPins DEF Peers!Mine
    <3>3. file' = Peers!Version(cmd.run, cmd.after)
      BY <2>5, <3>2 DEF filled, Peers!Filled
    <3>4. versions' \subseteq {None, Peers!Version(cmd.run, Partial), file'}
      BY <2>4, <2>5, <3>1, <3>2
    <3> HIDE DEF cmd
    <3> QED BY <2>6, <3>1, <3>3, <3>4 DEF Reached, Peers!NoPins, Peers!Version
  <2> HIDE DEF Onward, Contents, Keeps
  <2> QED BY <1>2, <2>7, <2>8, <2>9
<1>11. CASE Peers!SyncFile(c)
  <2> DEFINE filled == Peers!Filled(c)
             Synced(v) == IF Peers!Mine(c, v) THEN filled ELSE v
  <2>1. /\ cmd.pc = "fsync" /\ Peers!Goes(c, "sync")
        /\ versions' = {Synced(v) : v \in versions}
        /\ UNCHANGED <<file, runs, named>>
    BY <1>11 DEF Peers!SyncFile
  <2>2. "sync" \in PeerStep \ {"open"} /\ "sync" \in PeerStep /\ cmd.pc \in PeerStep
    BY <2>1 DEF PeerStep
  <2>3. /\ filled \in Peers!File /\ filled.pins = cmd.after /\ Peers!Mine(c, filled)
        /\ Peers!Mine(c, file) => file.pins = cmd.after
    BY <1>3, <2>1, <2>2 DEF OwnContents
  <2>4. \A v \in versions' : v = filled \/ (v \in versions /\ ~ Peers!Mine(c, v))
    BY <2>1
  <2>5. Peers!Mine(c, file) => file = filled
    <3> SUFFICES ASSUME Peers!Mine(c, file) PROVE file = filled
      OBVIOUS
    <3>1. file \in Peers!File /\ file.by = cmd.run /\ file.pins = cmd.after
      BY <1>5, <2>3 DEF Peers!Mine
    <3> QED BY <3>1, VersionIs DEF Peers!Filled
  <2>6. file \in versions'
    <3>1. Synced(file) = file
      BY <2>5
    <3> QED BY <1>5, <2>1, <3>1
  <2>7. /\ commands'[c].pc = "sync" /\ commands'[c].kind = cmd.kind
        /\ commands'[c].run = cmd.run
        /\ commands'[c].before = cmd.before /\ commands'[c].after = cmd.after
    BY <1>4, <2>1, <2>2
  <2> HIDE DEF Synced, filled
  <2>8. Onward("sync")
    BY <1>5, <2>1, <2>2, <2>3, <2>4, <2>6
  <2>9. Contents
    <3>1. ASSUME NEW v \in versions', Peers!SameFile(v, file)
          PROVE  v.pins \in {file.pins, Partial}
      <4>1. CASE v = filled
        <5>1. Peers!Mine(c, file)
          BY <2>3, <3>1, <4>1 DEF Peers!SameFile, Peers!Mine
        <5> QED BY <2>3, <4>1, <5>1
      <4>2. CASE v \in versions
        BY <1>3, <2>2, <3>1, <4>2 DEF ReadContents
      <4> QED BY <2>4, <4>1, <4>2
    <3>2. ReadContents'
      BY <2>1, <3>1 DEF ReadContents, Peers!SameFile
    <3>3. \A v \in versions' : Peers!Mine(c, v) => v.pins = cmd.after
      BY <2>3, <2>4
    <3>4. OwnContents(c)'
      BY <2>7, <3>3, OwnNext
    <3> QED BY <3>2, <3>4
  <2>10. Keeps
    <3> SUFFICES ASSUME Reached(c) PROVE Reached(c)'
      OBVIOUS
    <3>1. /\ file = Peers!Version(cmd.run, cmd.after)
          /\ versions \subseteq {None, Peers!Version(cmd.run, Partial), file}
          /\ cmd.kind = "init" /\ cmd.before = Peers!NoPins
      BY <2>1 DEF Reached
    <3>2. filled = file
      BY <3>1 DEF filled, Peers!Filled
    <3>3. Peers!Mine(c, Peers!Version(cmd.run, Partial))
      <4>1. cmd.run \in Nat /\ Partial \in Peers!Pins \cup {Partial}
        BY <1>3, <2>2
      <4>2. Peers!Version(cmd.run, Partial).by = cmd.run
            /\ Peers!Version(cmd.run, Partial) \in Peers!File
        BY <4>1, PeerPins
      <4> QED BY <4>2, PeerPins DEF Peers!Mine
    <3>4. versions' \subseteq {None, file}
      BY <2>4, <3>1, <3>2, <3>3
    <3> HIDE DEF cmd
    <3> QED BY <2>1, <2>7, <3>1, <3>4 DEF Reached, Peers!NoPins, Peers!Version
  <2> HIDE DEF Onward, Contents, Keeps
  <2> QED BY <1>2, <2>8, <2>9, <2>10
<1> QED BY <1>6, <1>7, <1>8, <1>9, <1>10, <1>11

LEMMA AtWorkCommand ==
    ASSUME PeerTypes, NEW c \in Peers!AtWork
    PROVE  /\ c \in Cmd /\ commands[c] # Peers!Idle
           /\ commands[c].pc \in PeerStep \ {"open"}
           /\ commands[c].run \in Nat /\ commands[c].after \in Peers!Pins
           /\ commands[c].kind \in {"peer", "init", "init --force"}
           /\ commands[c].settled \in BOOLEAN
<1>1. c \in Cmd /\ commands[c].pc \notin {"idle", "open"}
  BY DEF Peers!AtWork
<1>2. commands[c] \in PeerCommand
  BY <1>1, PeerIdle DEF PeerTypes
<1> QED BY <1>1, <1>2, PeerIdle DEF PeerCommand, PeerStep

\* Whatever a power loss leaves of the work of a command that is alone is what it
\* loaded, what it was to write, a file an init was writing or had not synced.
LEMMA LeftByWork ==
    ASSUME PeerTypes, NEW c \in Peers!AtWork, Reached(c), NEW v \in versions
    PROVE  \/ Leaves(c, v)
           \/ commands[c].kind = "init" /\ Peers!PinsOf(v) = Partial
<1> DEFINE cmd == commands[c]
<1>1. /\ cmd.pc \in PeerStep \ {"open"} /\ cmd.run \in Nat
      /\ cmd.after \in Peers!Pins \cup {Partial}
      /\ Partial \in Peers!Pins \cup {Partial}
  BY AtWorkCommand
<1>2. \A pins \in {cmd.after, Partial} :
          Peers!PinsOf(Peers!Version(cmd.run, pins)) = pins
  <2> SUFFICES ASSUME NEW pins \in {cmd.after, Partial}
               PROVE  Peers!PinsOf(Peers!Version(cmd.run, pins)) = pins
    OBVIOUS
  <2>1. pins \in Peers!Pins \cup {Partial}
    BY <1>1
  <2>2. /\ Peers!Version(cmd.run, pins) \in Peers!File
        /\ Peers!Version(cmd.run, pins).pins = pins
    BY <1>1, <2>1, PeerPins
  <2> QED BY <2>2, PeerPins
<1>3. Peers!PinsOf(None) = Peers!NoPins
  BY PeerPins
<1> HIDE DEF cmd
<1>4. CASE cmd.pc = "replace"
  BY <1>4 DEF Reached, cmd
<1>5. CASE cmd.pc = "check" \/ (cmd.pc = "sync" /\ cmd.kind # "init")
  BY <1>5 DEF Reached, cmd
<1>6. CASE cmd.pc \in {"create", "fill", "fsync"} \/ (cmd.pc = "sync" /\ cmd.kind = "init")
  <2>1. cmd.before = Peers!NoPins /\ cmd.kind = "init"
    BY <1>6 DEF Reached, cmd
  <2>2. \/ v = None
        \/ v = Peers!Version(cmd.run, Partial)
        \/ v = Peers!Version(cmd.run, cmd.after)
    BY <1>6 DEF Reached, cmd
  <2> QED BY <1>2, <1>3, <2>1, <2>2 DEF cmd, Leaves
<1> QED BY <1>1, <1>4, <1>5, <1>6 DEF PeerStep

\* What a failed command that was alone leaves is its outcome.
LEMMA FailedOutcome ==
    ASSUME PeerTypes, NEW c \in Peers!AtWork, last' = Peers!Outcome(c, FALSE),
           NEW v, \/ Leaves(c, v)
                  \/ commands[c].kind = "init" /\ Peers!PinsOf(v) = Partial
    PROVE  OutcomeOf(last', v)
<1>1. /\ last'.kind = commands[c].kind /\ last'.before = commands[c].before
      /\ last'.after = commands[c].after
  BY DEF Peers!Outcome
<1>2. last'.settled = commands[c].settled
  BY DEF Peers!Outcome
<1>3. commands[c].settled = FALSE => ~ last'.settled
  BY <1>2
<1> QED BY <1>1, <1>3 DEF OutcomeOf, Leaves

LEMMA SyncedFiles ==
    ASSUME PeerTypes
    PROVE  Peers!DirectorySynced \subseteq versions /\ file \in Peers!DirectorySynced
BY DEF PeerTypes, Peers!DirectorySynced, Peers!SameFile

\* The ways a command ends.
LEMMA PeerReturns ==
    ASSUME PeerInv, NEW c \in Cmd,
           \/ Peers!GiveUp(c) \/ Peers!SyncDirectory(c) \/ Peers!ReplaceFails(c)
           \/ Peers!CreateFails(c) \/ Peers!Dies(c)
    PROVE  PeerInv'
<1> DEFINE cmd == commands[c]
           Files == /\ file' \in versions' /\ file' \in {file, None} /\ versions' \subseteq versions \cup {None}
                    /\ UNCHANGED <<runs, named>>
                    /\ commands' = [commands EXCEPT ![c] = Peers!Idle]
                    /\ cmd # Peers!Idle
           Left == \/ cmd.pc = "open" /\ versions' \subseteq versions /\ last' = last
                   \/ /\ last'.alone => cmd.alone = TRUE
                      /\ cmd.alone = TRUE /\ Reached(c) =>
                             \A v \in versions' :
                                 IF last'.ok THEN Peers!Complete(v) /\ v.pins = last'.after
                                 ELSE OutcomeOf(last', v)
<1>1. PeerTypes /\ VouchedInv /\ InodeInv /\ SerialInv
  BY DEF PeerInv
<1>2. ASSUME Files, Left PROVE PeerInv'
  <2>1. /\ commands' \in [Cmd -> PeerCommand \cup {Peers!Idle}]
        /\ commands'[c] = Peers!Idle
        /\ \A d \in Cmd \ {c} : commands'[d] = commands[d]
    BY <1>1, <1>2, PeerEnds
  <2>2. PeerTypes'
    <3>1. versions \subseteq Peers!File \cup {None} /\ runs \in Nat
      BY <1>1 DEF PeerTypes
    <3>2. versions' \subseteq Peers!File \cup {None} /\ file' \in versions' /\ runs' \in Nat
      BY <1>2, <3>1
    <3> QED BY <2>1, <3>2 DEF PeerTypes
  <2>3. VouchedInv'
    <3>1. \A d \in Cmd : commands'[d].after \in {commands[d].after, Peers!NoPins}
      BY <2>1, PeerIdle
    <3>2. \A v \in versions' : Peers!Complete(v) => v \in versions
      BY <1>2 DEF Peers!Complete
    <3> QED BY <1>1, <1>2, <3>1, <3>2, VouchedOn
  <2>4. SerialInv'
    BY <1>1, <1>2, EndsSerial
  <2>5. InodeInv'
    <3>1. runs' = runs
      BY <1>2
    <3> QED BY <1>1, <1>2, <3>1, EndsInodes
  <2> QED BY <2>2, <2>3, <2>4, <2>5 DEF PeerInv
<1>3. ASSUME cmd.pc \in PeerStep PROVE cmd # Peers!Idle /\ cmd.alone \in BOOLEAN
  <2>1. cmd # Peers!Idle
    BY <1>3, PeerIdle DEF PeerStep
  <2> QED BY <1>1, <2>1 DEF PeerTypes, PeerCommand
<1>4. file \in versions
  BY <1>1 DEF PeerTypes
<1>5. ASSUME NEW ok, last' = Peers!Outcome(c, ok)
      PROVE  /\ last'.kind = cmd.kind /\ last'.before = cmd.before
             /\ last'.after = cmd.after
  BY <1>5 DEF Peers!Outcome
<1>6. ASSUME NEW ok, last' = Peers!Outcome(c, ok)
      PROVE  last'.alone = cmd.alone /\ last'.ok = ok
  BY <1>6 DEF Peers!Outcome
<1>7. CASE Peers!GiveUp(c)
  <2>1. /\ cmd.pc = "open" /\ commands' = [commands EXCEPT ![c] = Peers!Idle]
        /\ versions' \in {versions, Peers!DirectorySynced}
        /\ UNCHANGED <<file, runs, last, named>>
    BY <1>7 DEF Peers!GiveUp
  <2>2. cmd # Peers!Idle
    BY <1>3, <2>1 DEF PeerStep
  <2>3. versions' \subseteq versions /\ file \in versions'
    BY <1>1, <1>4, <2>1, SyncedFiles
  <2> QED BY <1>2, <2>1, <2>2, <2>3
<1>8. CASE Peers!SyncDirectory(c)
  <2>1. /\ cmd.pc = "sync" /\ commands' = [commands EXCEPT ![c] = Peers!Idle]
        /\ versions' = Peers!DirectorySynced /\ UNCHANGED <<file, runs, named>>
        /\ last' = Peers!Outcome(c, TRUE)
    BY <1>8 DEF Peers!SyncDirectory, Peers!End
  <2>2. cmd # Peers!Idle
    BY <1>3, <2>1 DEF PeerStep
  <2>3. Files
    BY <1>1, <2>1, <2>2, SyncedFiles
  <2>4. last'.alone => cmd.alone = TRUE
    BY <1>3, <1>6, <2>1 DEF PeerStep
  <2>5. ASSUME Reached(c), NEW v \in versions'
        PROVE  Peers!Complete(v) /\ v.pins = cmd.after
    <3>1. c \in Peers!AtWork
      BY <2>1 DEF Peers!AtWork
    <3>2. cmd.run \in Nat /\ cmd.after \in Peers!Pins \cup {Partial} /\ cmd.after \in Peers!Pins
      BY <1>1, <3>1, AtWorkCommand
    <3>3. file = Peers!Version(cmd.run, cmd.after)
      BY <2>1, <2>5 DEF Reached
    <3>4. file \in Peers!File /\ file.by = cmd.run
      BY <3>2, <3>3, PeerPins
    <3>5. v \in versions /\ Peers!SameFile(v, file)
      BY <2>1, <3>4, PeerPins DEF Peers!DirectorySynced
    <3>6. c \in Peers!Running /\ Peers!Mine(c, v)
      BY <2>2, <3>1, <3>4, <3>5, AtWorkCommand, <1>1
         DEF Peers!Running, Peers!Mine, Peers!SameFile
    <3>7. v.pins = cmd.after
      BY <1>1, <2>1, <3>5, <3>6 DEF InodeInv, OwnContents
    <3> QED BY <3>2, <3>6, <3>7, PeerPins DEF Peers!Complete, Peers!Mine
  <2>6. last'.after = cmd.after
    BY <1>5, <2>1
  <2>7. Left
    <3>1. last'.ok
      BY <1>6, <2>1
    <3>2. Reached(c) => \A v \in versions' :
              IF last'.ok THEN Peers!Complete(v) /\ v.pins = last'.after
              ELSE OutcomeOf(last', v)
      BY <2>5, <2>6, <3>1
    <3> QED BY <2>4, <3>2
  <2> HIDE DEF Files, Left
  <2> QED BY <1>2, <2>3, <2>7
<1>9. ASSUME c \in Peers!AtWork, last' = Peers!Outcome(c, FALSE),
             versions' = versions \/ (cmd.kind = "init" /\ cmd.pc # "open" /\
                                          versions' = versions \cup {None})
      PROVE  Left
  <2>1. cmd.pc \in PeerStep \ {"open"}
    BY <1>1, <1>9, AtWorkCommand
  <2>2. last'.alone => cmd.alone = TRUE
    BY <1>3, <1>6, <1>9, <2>1
  <2>3. ~ last'.ok
    BY <1>6, <1>9
  <2>5. ASSUME Reached(c), NEW v \in versions' PROVE OutcomeOf(last', v)
    <3>1. CASE v \in versions
      BY <1>1, <1>9, <2>5, <3>1, LeftByWork, FailedOutcome
    <3>2. CASE v = None /\ cmd.kind = "init" /\ cmd.pc # "open"
      <4>1. cmd.before = Peers!NoPins
        BY <2>5, <3>2 DEF Reached
      <4>2. Leaves(c, v)
        BY <3>2, <4>1, PeerPins DEF Leaves
      <4> QED BY <1>1, <1>9, <4>2, FailedOutcome
    <3> QED BY <1>9, <2>5, <3>1, <3>2
  <2> HIDE DEF cmd
  <2> QED BY <2>2, <2>3, <2>5
<1>10. CASE Peers!ReplaceFails(c)
  <2>1. /\ cmd.pc \in {"replace", "check", "sync"}
        /\ commands' = [commands EXCEPT ![c] = Peers!Idle]
        /\ UNCHANGED <<file, versions, runs, named>>
        /\ last' = Peers!Outcome(c, FALSE)
    BY <1>10 DEF Peers!ReplaceFails, Peers!End
  <2>2. cmd # Peers!Idle /\ c \in Peers!AtWork
    BY <1>3, <2>1 DEF PeerStep, Peers!AtWork
  <2>3. Files
    BY <1>4, <2>1, <2>2
  <2>4. Left
    BY <1>9, <2>1, <2>2
  <2> HIDE DEF Files, Left
  <2> QED BY <1>2, <2>3, <2>4
<1>11. CASE Peers!CreateFails(c)
  <2>1. /\ cmd.kind = "init" /\ cmd.pc \in {"create", "fill", "fsync", "sync"}
        /\ commands' = [commands EXCEPT ![c] = Peers!Idle]
        /\ \/ UNCHANGED <<file, versions>>
           \/ file' = None /\ versions' = versions \cup {None}
        /\ UNCHANGED <<runs, named>>
        /\ last' = Peers!Outcome(c, FALSE)
    BY <1>11 DEF Peers!CreateFails, Peers!End
  <2>2. cmd # Peers!Idle /\ c \in Peers!AtWork
    BY <1>3, <2>1 DEF PeerStep, Peers!AtWork
  <2>3. Files
    BY <1>4, <2>1, <2>2
  <2>4. Left
    BY <1>9, <2>1, <2>2
  <2> HIDE DEF Files, Left
  <2> QED BY <1>2, <2>3, <2>4
<1>12. CASE Peers!Dies(c)
  <2>1. /\ c \in Peers!AtWork /\ commands' = [commands EXCEPT ![c] = Peers!Idle]
        /\ UNCHANGED <<file, versions, runs, named>>
        /\ last' = Peers!Outcome(c, FALSE)
    BY <1>12 DEF Peers!Dies, Peers!End
  <2>2. cmd # Peers!Idle
    BY <1>1, <2>1, AtWorkCommand
  <2>3. Files
    BY <1>4, <2>1, <2>2
  <2>4. Left
    BY <1>9, <2>1
  <2> HIDE DEF Files, Left
  <2> QED BY <1>2, <2>3, <2>4
<1> QED BY <1>7, <1>8, <1>10, <1>11, <1>12

\* A power loss ends every command.
LEMMA PeerLoss ==
    ASSUME PeerInv, Peers!PowerLoss
    PROVE  PeerInv'
<1>1. PeerTypes /\ VouchedInv /\ InodeInv /\ SerialInv
  BY DEF PeerInv
<1>2. /\ file' \in versions /\ versions' = {file'}
      /\ commands' = [c \in Cmd |-> Peers!Idle] /\ UNCHANGED <<runs, named>>
      /\ last' = IF Peers!AtWork = {} THEN last
                 ELSE Peers!Outcome(CHOOSE c \in Peers!AtWork : TRUE, FALSE)
  BY DEF Peers!PowerLoss
<1>3. PeerTypes'
  <2>1. versions \subseteq Peers!File \cup {None} /\ runs \in Nat
    BY <1>1 DEF PeerTypes
  <2>2. /\ file' \in Peers!File \cup {None} /\ versions' \subseteq Peers!File \cup {None}
        /\ file' \in versions' /\ runs' \in Nat
    BY <1>2, <2>1
  <2>3. commands' \in [Cmd -> PeerCommand \cup {Peers!Idle}]
    BY <1>2
  <2> QED BY <2>2, <2>3 DEF PeerTypes
<1>4. VouchedInv'
  <2>1. \A d \in Cmd : commands'[d].after \in {commands[d].after, Peers!NoPins}
    BY <1>2, PeerIdle
  <2>2. \A v \in versions' : Peers!Complete(v) => v \in versions
    BY <1>2
  <2> QED BY <1>1, <1>2, <2>1, <2>2, VouchedOn
<1>5. Peers!Running' = {}
  BY <1>2 DEF Peers!Running
<1>6. Peers!SerialOutcome'
  <2>1. CASE Peers!AtWork = {}
    <3>1. Peers!SerialOutcome /\ last' = last /\ versions' \subseteq versions
      BY <1>1, <1>2, <2>1 DEF SerialInv
    <3> QED BY <2>1, <3>1, SerialOutcomeIs, SerialOutcomeNext
  <2>2. CASE Peers!AtWork # {}
    <3>1. PICK c \in Peers!AtWork : last' = Peers!Outcome(c, FALSE)
      BY <1>2, <2>2
    <3>2. c \in Peers!Running
      BY <1>1, AtWorkCommand DEF Peers!Running
    <3>4. last'.alone = commands[c].alone /\ ~ last'.ok
      BY <3>1 DEF Peers!Outcome
    <3>5. last'.alone => commands[c].alone = TRUE
      <4>1. commands[c] \in PeerCommand
        BY <1>1, AtWorkCommand DEF PeerTypes
      <4>2. commands[c].alone \in BOOLEAN
        BY <4>1 DEF PeerCommand
      <4> QED BY <3>4, <4>2
    <3>6. commands[c].alone = TRUE => Reached(c)
      BY <1>1, <3>2 DEF SerialInv
    <3>7. ASSUME Reached(c), NEW v \in versions' PROVE OutcomeOf(last', v)
      <4>1. v \in versions
        BY <1>2, <3>7
      <4> QED BY <1>1, <3>1, <3>7, <4>1, LeftByWork, FailedOutcome
    <3> QED BY <3>4, <3>5, <3>6, <3>7, SerialOutcomeNext
  <2> QED BY <2>1, <2>2
<1>7. InodeInv'
  BY <1>1, <1>2, <1>5 DEF InodeInv, Numbers, ReadContents
<1> QED BY <1>3, <1>4, <1>5, <1>6, <1>7 DEF PeerInv, SerialInv

LEMMA NextPeerInv == PeerInv /\ [PartNext]_partVars => PeerInv'
<1> SUFFICES ASSUME PeerInv, [PartNext]_partVars PROVE PeerInv'
  OBVIOUS
<1>1. [Peers!Next]_peerVars
  BY PartSteps
<1>2. CASE UNCHANGED peerVars
  <2>1. UNCHANGED <<file, versions, commands, runs, last, named>>
    BY <1>2 DEF peerVars
  <2>2. PeerTypes' <=> PeerTypes
    BY <2>1 DEF PeerTypes
  <2>3. VouchedInv' <=> VouchedInv
    BY <2>1 DEF VouchedInv, Vouched, Peers!Closed, Peers!Complete
  <2>4. \A c : Reached(c)' <=> Reached(c)
    BY <2>1 DEF Reached, Leaves, Peers!PinsOf, Peers!NoPins, Peers!Settled
  <2>5. Peers!SerialOutcome' <=> Peers!SerialOutcome
    BY <2>1 DEF Peers!SerialOutcome, Peers!AtWork, Peers!Complete, Peers!PinsOf,
                Peers!NoPins
  <2>6. SerialInv' <=> SerialInv
    <3>1. Peers!Running' = Peers!Running
      BY <2>1 DEF Peers!Running
    <3> QED BY <2>1, <2>4, <2>5, <3>1 DEF SerialInv
  <2>7. InodeInv' <=> InodeInv
    BY <2>1 DEF InodeInv, Numbers, ReadContents, OwnContents, Peers!Running, Peers!Mine
  <2> QED BY <2>2, <2>3, <2>6, <2>7 DEF PeerInv
<1>3. CASE Peers!PowerLoss
  BY <1>3, PeerLoss
<1>4. ASSUME NEW c \in Cmd,
             \/ \E op \in Peers!Operations : Peers!BeginPeer(c, op)
             \/ \E kind \in {"init", "init --force"} : Peers!BeginInit(c, kind)
      PROVE  PeerInv'
  BY <1>4, BeginsPeer
<1>5. ASSUME NEW c \in Cmd,
             \/ Peers!OpenParent(c) \/ Peers!Rename(c) \/ Peers!Verify(c)
             \/ Peers!Create(c) \/ Peers!Write(c) \/ Peers!SyncFile(c)
      PROVE  PeerInv'
  BY <1>5, PeerWorks
<1>6. ASSUME NEW c \in Cmd,
             \/ Peers!GiveUp(c) \/ Peers!SyncDirectory(c) \/ Peers!ReplaceFails(c)
             \/ Peers!CreateFails(c) \/ Peers!Dies(c)
      PROVE  PeerInv'
  BY <1>6, PeerReturns
<1> QED BY <1>1, <1>2, <1>3, <1>4, <1>5, <1>6 DEF Peers!Next

LEMMA PeerInvariant == PartSpec => []PeerInv
BY InitPeerInv, NextPeerInv, PTL DEF PartSpec, partVars

\* runPeerAdd, runPeerRotate and config.Write: however many commands run, overlap,
\* fail, die and lose power, no file pins a key for a peer that no operator added
\* and no certificate leads to from one that was added (PinsVouched).
THEOREM KeysVouched == PartSpec => []PinsVouched
<1>1. PeerInv => PinsVouched
  <2> SUFFICES ASSUME PeerInv PROVE Peers!PinsVouched
    BY DEF PinsVouched
  <2>1. VouchedInv /\ versions \cup {file} = versions
    BY DEF PeerInv, PeerTypes
  <2>2. \A S \in SUBSET [name : Name, key : Key] : Peers!Closed(S) =>
            \A v \in versions : Peers!Complete(v) => Vouched(S, v.pins)
    BY <2>1 DEF VouchedInv
  <2> QED BY <2>1, <2>2 DEF Peers!PinsVouched, Vouched
<1> QED BY <1>1, PeerInvariant, PTL

\* config.Write: a command that no other one overlaps leaves, on every disk a
\* power loss may make of it, exactly its update if it reported success, and its
\* update or what it loaded if it did not, or an unfinished file where it created
\* it or loaded one that was never synced (SerialOutcome).
THEOREM CommandsAtomic == PartSpec => []SerialOutcome
<1>1. PeerInv => SerialOutcome
  BY DEF PeerInv, SerialInv, SerialOutcome
<1> QED BY <1>1, PeerInvariant, PTL

(***************************************************************************)
(* The frame reader.                                                       *)
(***************************************************************************)

\* FrameReader's Cardinality is the library's.
LEMMA FramesCardinality == ASSUME NEW S PROVE Frames!Cardinality(S) = Cardinality(S)
BY DEF Frames!Cardinality, Cardinality

Upto(s, e) == {i \in Frames!LineEnds(s) : i <= e}

LEMMA LineEndsFinite ==
    ASSUME NEW s \in Seq(Frames!Byte)
    PROVE  /\ Frames!LineEnds(s) \in SUBSET (1..Len(s))
           /\ IsFiniteSet(Frames!LineEnds(s)) /\ Cardinality(Frames!LineEnds(s)) \in Nat
           /\ \A e : IsFiniteSet(Upto(s, e)) /\ Cardinality(Upto(s, e)) \in Nat
           /\ \A e : Cardinality(Upto(s, e)) <= Cardinality(Frames!LineEnds(s))
<1>1. Frames!LineEnds(s) \in SUBSET (1..Len(s)) /\ Len(s) \in Nat
  BY DEF Frames!LineEnds
<1>2. IsFiniteSet(1..Len(s))
  BY <1>1, FS_Interval
<1>3. IsFiniteSet(Frames!LineEnds(s))
  BY <1>1, <1>2, FS_Subset
<1>4. ASSUME NEW e
      PROVE  /\ IsFiniteSet(Upto(s, e))
             /\ Cardinality(Upto(s, e)) <= Cardinality(Frames!LineEnds(s))
  <2>1. Upto(s, e) \in SUBSET Frames!LineEnds(s)
    BY DEF Upto
  <2> QED BY <1>3, <2>1, FS_Subset
<1> QED BY <1>1, <1>3, <1>4, FS_CardinalityType

\* Two ends of lines are told apart by the number of those up to them.
LEMMA LineEndIs ==
    ASSUME NEW s \in Seq(Frames!Byte), NEW p \in Frames!LineEnds(s) \cup {0}
    PROVE  Frames!LineEnd(s, Cardinality(Upto(s, p))) = p
<1> DEFINE Ends == Frames!LineEnds(s)
           k == Cardinality(Upto(s, p))
<1>1. Ends \in SUBSET (1..Len(s)) /\ Len(s) \in Nat
  BY LineEndsFinite
<1>2. ASSUME NEW a \in Ends \cup {0}, NEW b \in Ends \cup {0}, a < b
      PROVE  Cardinality(Upto(s, a)) < Cardinality(Upto(s, b))
  <2>1. b \in Upto(s, b) /\ b \notin Upto(s, a) /\ Upto(s, a) \in SUBSET Upto(s, b)
    BY <1>1, <1>2 DEF Upto
  <2>2. /\ IsFiniteSet(Upto(s, a)) /\ IsFiniteSet(Upto(s, b))
        /\ Cardinality(Upto(s, a)) \in Nat /\ Cardinality(Upto(s, b)) \in Nat
    BY LineEndsFinite
  <2>3. /\ Cardinality(Upto(s, a) \cup {b}) = Cardinality(Upto(s, a)) + 1
        /\ Cardinality(Upto(s, a) \cup {b}) <= Cardinality(Upto(s, b))
    <3>1. Upto(s, a) \cup {b} \in SUBSET Upto(s, b)
      BY <2>1
    <3> QED BY <2>1, <2>2, <3>1, FS_AddElement, FS_Subset
  <2> QED BY <2>2, <2>3
<1>3. ASSUME NEW a \in Ends \cup {0}, Cardinality(Upto(s, a)) = k PROVE a = p
  <2>1. a \in Int /\ p \in Int
    BY <1>1
  <2>2. CASE a < p
    BY <1>2, <1>3, <2>2, LineEndsFinite
  <2>3. CASE p < a
    BY <1>2, <1>3, <2>3, LineEndsFinite
  <2> QED BY <2>1, <2>2, <2>3
<1>4. Frames!LineEnd(s, k) =
          CHOOSE e \in Frames!LineEnds(s) \cup {0} : Cardinality(Upto(s, e)) = k
  <2>1. ASSUME NEW e
        PROVE  Frames!Cardinality({i \in Frames!LineEnds(s) : i <= e}) = Cardinality(Upto(s, e))
    BY FramesCardinality DEF Upto
  <2>2. Frames!LineEnd(s, k) =
            CHOOSE e \in Frames!LineEnds(s) \cup {0} :
                Frames!Cardinality({i \in Frames!LineEnds(s) : i <= e}) = k
    BY DEF Frames!LineEnd
  <2> QED BY <2>1, <2>2
<1>5. Cardinality(Upto(s, p)) = k
  OBVIOUS
<1> HIDE DEF k
<1> QED BY <1>3, <1>4, <1>5, Zenon

\* The line after the one that ends at p.
LEMMA NextLine ==
    ASSUME NEW s \in Seq(Frames!Byte), NEW p \in Frames!LineEnds(s) \cup {0},
           NEW e \in Frames!LineEnds(s), p < e,
           \A i \in (p + 1)..(e - 1) : s[i] # Frames!LF
    PROVE  LET k == Cardinality(Upto(s, p))
               lines == Frames!LinesOf(s) IN
           /\ k \in Nat /\ Cardinality(Upto(s, e)) = k + 1
           /\ k + 1 \in 1..Len(lines)
           /\ lines[k + 1] = SubSeq(s, p + 1, e)
<1> DEFINE k == Cardinality(Upto(s, p))
<1>1. Frames!LineEnds(s) \in SUBSET (1..Len(s)) /\ Len(s) \in Nat
  BY LineEndsFinite
<1>2. p \in Int /\ e \in Int
  BY <1>1
<1>3. Upto(s, e) = Upto(s, p) \cup {e}
  <2>1. ASSUME NEW i \in Upto(s, e) PROVE i \in Upto(s, p) \/ i = e
    <3> SUFFICES ASSUME p < i, i < e PROVE FALSE
      BY <1>1, <1>2, <2>1 DEF Upto
    <3>1. i \in Frames!LineEnds(s) /\ i \in (p + 1)..(e - 1) /\ i < Len(s)
      BY <1>1, <1>2, <2>1 DEF Upto
    <3> QED BY <3>1 DEF Frames!LineEnds
  <2> QED BY <1>1, <1>2, <2>1 DEF Upto
<1>4. e \notin Upto(s, p)
  BY <1>1, <1>2 DEF Upto
<1>5. k \in Nat /\ Cardinality(Upto(s, e)) = k + 1
  BY <1>3, <1>4, LineEndsFinite, FS_AddElement
<1>6. k + 1 <= Cardinality(Frames!LineEnds(s)) /\ Cardinality(Frames!LineEnds(s)) \in Nat
  BY <1>5, LineEndsFinite
<1>7. Frames!LineEnd(s, k) = p /\ Frames!LineEnd(s, k + 1) = e
  BY <1>5, LineEndIs
<1> HIDE DEF k
<1>8. Len(Frames!LinesOf(s)) = Cardinality(Frames!LineEnds(s))
  <2> DEFINE n == Cardinality(Frames!LineEnds(s))
             line(j) == SubSeq(s, Frames!LineEnd(s, j - 1) + 1, Frames!LineEnd(s, j))
  <2>1. Frames!LinesOf(s) = [j \in 1..n |-> line(j)] /\ n \in Nat
    BY <1>6, FramesCardinality DEF Frames!LinesOf
  <2> HIDE DEF n, line
  <2>2. Len(Frames!LinesOf(s)) = n
    BY <2>1
  <2> QED BY <2>2 DEF n
<1>9. Frames!LinesOf(s)[k + 1] = SubSeq(s, Frames!LineEnd(s, k) + 1, Frames!LineEnd(s, k + 1))
  <2>1. k + 1 \in 1..Cardinality(Frames!LineEnds(s)) /\ (k + 1) - 1 = k
    BY <1>5, <1>6
  <2> DEFINE line(j) == SubSeq(s, Frames!LineEnd(s, j - 1) + 1, Frames!LineEnd(s, j))
  <2>2. Frames!LinesOf(s) = [j \in 1..Cardinality(Frames!LineEnds(s)) |-> line(j)]
    BY FramesCardinality DEF Frames!LinesOf
  <2>3. line(k + 1) = SubSeq(s, Frames!LineEnd(s, k) + 1, Frames!LineEnd(s, k + 1))
    BY <2>1
  <2> HIDE DEF line
  <2>4. Frames!LinesOf(s)[k + 1] = line(k + 1)
    BY <2>1, <2>2
  <2> QED BY <2>3, <2>4
<1>10. k + 1 \in 1..Len(Frames!LinesOf(s))
  BY <1>5, <1>6, <1>8
<1> QED BY <1>5, <1>7, <1>9, <1>10 DEF k

\* ReadSlice: no line feed but at the end, and shorter than the buffer without
\* one only at the end of the stream.
LEMMA FragmentIs ==
    ASSUME stream \in Seq(Frames!Byte), read \in 0..Len(stream), buffer \in Nat \ {0}
    PROVE  LET n == Len(Frames!Fragment) IN
           /\ n \in 0..(Len(stream) - read) /\ n <= buffer
           /\ Frames!Fragment = SubSeq(stream, read + 1, read + n)
           /\ \A i \in (read + 1)..(read + n - 1) : stream[i] # Frames!LF
           /\ \/ n > 0 /\ stream[read + n] = Frames!LF
              \/ n = buffer
              \/ n = Len(stream) - read
<1> DEFINE rest == SubSeq(stream, read + 1, Len(stream))
           I == {i \in 1..Len(rest) : rest[i] = Frames!LF}
           nl == IF I # {} THEN Frames!Min(I) ELSE 0
           full == IF Len(rest) < buffer THEN Len(rest) ELSE buffer
           n == IF nl \in 1..full THEN nl ELSE full
<1>1. Frames!Fragment = SubSeq(rest, 1, n)
  BY DEF Frames!Fragment, Frames!SelectInSeq
<1>2. /\ Len(stream) \in Nat /\ read \in Nat /\ rest \in Seq(Frames!Byte)
      /\ Len(rest) = Len(stream) - read
      /\ \A i \in 1..Len(rest) : rest[i] = stream[read + i]
  OBVIOUS
<1>3. (nl = 0 /\ I = {}) \/ (nl \in I /\ \A i \in I : nl <= i)
  <2>1. CASE I = {}
    BY <2>1
  <2>2. CASE I # {}
    <3>1. I \in SUBSET Nat
      OBVIOUS
    <3>2. PICK x \in I : \A y \in I : x <= y
      <4> HIDE DEF I
      <4> QED BY <2>2, <3>1, LeastMember
    <3>3. nl = CHOOSE z \in I : \A y \in I : z <= y
      BY <2>2 DEF Frames!Min
    <3> HIDE DEF I, nl
    <3> QED BY <3>2, <3>3
  <2> QED BY <2>1, <2>2
<1>4. full \in 0..Len(rest) /\ full <= buffer /\ (full = buffer \/ full = Len(rest))
  BY <1>2
<1>5. I \in SUBSET (1..Len(rest)) /\ \A i \in 1..Len(rest) : i \in I <=> stream[read + i] = Frames!LF
  BY <1>2
<1> HIDE DEF rest, I, nl, full
<1>6. n \in 0..Len(rest) /\ n <= buffer /\ n \in Nat
  BY <1>2, <1>3, <1>4, <1>5
<1>7. \/ n > 0 /\ stream[read + n] = Frames!LF
      \/ n = buffer \/ n = Len(stream) - read
  BY <1>2, <1>3, <1>4, <1>5
<1>0. \A j \in I : n <= j
  <2>1. ASSUME NEW j \in I PROVE n <= j
    <3>1. nl \in I /\ nl <= j /\ nl \in 1..Len(rest) /\ j \in 1..Len(rest)
      BY <1>3, <1>5, <2>1
    <3>2. full \in Int /\ nl \in Int /\ j \in Int /\ 1 <= nl
      BY <1>2, <1>4, <3>1
    <3>3. n = nl \/ (n = full /\ ~ (nl <= full))
      BY <3>2
    <3> HIDE DEF n
    <3> QED BY <3>1, <3>2, <3>3
  <2> QED BY <2>1
<1> HIDE DEF n
<1>8. ASSUME NEW i \in (read + 1)..(read + n - 1) PROVE stream[i] # Frames!LF
  <2>1. i - read \in 1..(n - 1) /\ i - read \in 1..Len(rest) /\ read + (i - read) = i
    BY <1>2, <1>6
  <2>2. i - read \notin I
    <3>1. i - read \in Int /\ ~ (n <= i - read)
      BY <1>2, <1>6, <2>1
    <3> QED BY <1>0, <3>1
  <2> QED BY <1>5, <2>1, <2>2
<1>9. Len(Frames!Fragment) = n
  BY <1>1, <1>2, <1>6
<1>10. Frames!Fragment = SubSeq(stream, read + 1, read + n)
  <2> DEFINE b == SubSeq(stream, read + 1, read + n)
  <2>1. b \in Seq(Frames!Byte) /\ Len(b) = n /\ \A i \in 1..n : b[i] = stream[read + i]
    BY <1>2, <1>6
  <2>2. /\ Frames!Fragment \in Seq(Frames!Byte)
        /\ \A i \in 1..n : Frames!Fragment[i] = stream[read + i]
    BY <1>1, <1>2, <1>6
  <2> HIDE DEF b
  <2> QED BY <1>9, <2>1, <2>2
<1> QED BY <1>2, <1>6, <1>7, <1>8, <1>9, <1>10

\* The bytes from p to e: their last one, and the length of their payload.
LEMMA LineIs ==
    ASSUME NEW s \in Seq(Frames!Byte), NEW p \in 0..Len(s), NEW e \in p..Len(s)
    PROVE  LET l == SubSeq(s, p + 1, e)
               n == Len(Frames!Payload(l)) IN
           /\ l \in Seq(Frames!Byte) /\ Len(l) = e - p
           /\ \A b : Frames!Ends(l, b) <=> e > p /\ s[e] = b
           /\ ~ (e > p /\ s[e] = Frames!LF) => n = e - p
           /\ e > p /\ s[e] = Frames!LF =>
                  n = IF e > p + 1 /\ s[e - 1] = Frames!CR THEN e - p - 2 ELSE e - p - 1
<1> DEFINE l == SubSeq(s, p + 1, e)
           g == SubSeq(l, 1, Len(l) - 1)
<1>1. Len(s) \in Nat /\ p \in Nat /\ e \in Nat /\ p <= e /\ e <= Len(s)
  OBVIOUS
<1>2. l \in Seq(Frames!Byte) /\ Len(l) = e - p /\ \A i \in 1..(e - p) : l[i] = s[p + i]
  BY <1>1
<1> HIDE DEF l
<1>3. \A b : Frames!Ends(l, b) <=> e > p /\ s[e] = b
  <2>1. e > p => l[Len(l)] = s[e]
    BY <1>1, <1>2
  <2> QED BY <1>1, <1>2, <2>1 DEF Frames!Ends, Frames!Last
<1>4. CASE ~ (e > p /\ s[e] = Frames!LF)
  BY <1>2, <1>3, <1>4 DEF Frames!Payload, l
<1>5. CASE e > p /\ s[e] = Frames!LF
  <2>1. /\ g \in Seq(Frames!Byte) /\ Len(g) = e - p - 1
        /\ \A i \in 1..(e - p - 1) : g[i] = s[p + i]
    BY <1>1, <1>2, <1>5
  <2>2. Frames!Front(l) = g
    BY DEF Frames!Front
  <2> HIDE DEF g
  <2>3. Frames!Ends(g, Frames!CR) <=> e > p + 1 /\ s[e - 1] = Frames!CR
    <3>1. e > p + 1 => g[Len(g)] = s[e - 1]
      <4> SUFFICES ASSUME e > p + 1 PROVE g[Len(g)] = s[e - 1]
        OBVIOUS
      <4>1. e - p - 1 \in 1..(e - p - 1) /\ p + (e - p - 1) = e - 1
        BY <1>1
      <4> QED BY <2>1, <4>1
    <3> QED BY <1>1, <1>5, <2>1, <3>1 DEF Frames!Ends, Frames!Last
  <2>4. Frames!Payload(l) =
            IF Frames!Ends(g, Frames!CR) THEN Frames!Front(g) ELSE g
    BY <1>3, <1>5, <2>2 DEF Frames!Payload
  <2>5. e > p + 1 => Len(Frames!Front(g)) = e - p - 2
    BY <1>1, <2>1 DEF Frames!Front
  <2> QED BY <1>2, <1>3, <1>5, <2>1, <2>3, <2>4, <2>5 DEF l
<1> QED BY <1>4, <1>5, <1>2, <1>3 DEF l

\* Where the present line begins.
Begin == read - Len(frame)

FrameTypes ==
    /\ stream \in Seq(Frames!Byte) /\ frameLimit \in Nat \ {0} /\ buffer \in Nat \ {0}
    /\ read \in 0..Len(stream) /\ given \in Seq(Seq(Frames!Byte))

\* What is collected is the present line so far, and no more of it than allowed;
\* the lines before it were all given.
Collecting ==
    /\ frame \in Seq(Frames!Byte) /\ Len(frame) <= read
    /\ frame = SubSeq(stream, Begin + 1, read)
    /\ \A i \in (Begin + 1)..read : stream[i] # Frames!LF
    /\ Len(frame) <= frameLimit + 1
    /\ Len(frame) = frameLimit + 1 => stream[read] = Frames!CR
    /\ Begin \in Frames!LineEnds(stream) \cup {0}
    /\ Cardinality(Upto(stream, Begin)) = Len(given)

FrameInv ==
    part = "frames" =>
        /\ FrameTypes
        /\ afterErr = "none" => Collecting
        /\ Frames!ExactFrames

\* The lines given are those of the stream.
LEMMA LinesTypes ==
    ASSUME NEW s \in Seq(Frames!Byte)
    PROVE  /\ Len(Frames!LinesOf(s)) = Cardinality(Frames!LineEnds(s))
           /\ Len(Frames!LinesOf(s)) \in Nat
           /\ DOMAIN Frames!LinesOf(s) = 1..Len(Frames!LinesOf(s))
           /\ Frames!LinesOf(s) = [k \in 1..Len(Frames!LinesOf(s)) |-> Frames!LinesOf(s)[k]]
<1> DEFINE n == Cardinality(Frames!LineEnds(s))
           line(j) == SubSeq(s, Frames!LineEnd(s, j - 1) + 1, Frames!LineEnd(s, j))
<1>1. Frames!LinesOf(s) = [j \in 1..n |-> line(j)] /\ n \in Nat
  BY LineEndsFinite, FramesCardinality DEF Frames!LinesOf
<1> HIDE DEF n, line
<1>2. Len(Frames!LinesOf(s)) = n /\ DOMAIN Frames!LinesOf(s) = 1..n
  BY <1>1
<1>3. Frames!LinesOf(s) = [k \in 1..n |-> Frames!LinesOf(s)[k]]
  BY <1>1
<1> QED BY <1>1, <1>2, <1>3 DEF n

LEMMA GivenPrefix ==
    ASSUME NEW s \in Seq(Frames!Byte), NEW g \in Seq(Seq(Frames!Byte))
    PROVE  Frames!IsPrefix(g, Frames!LinesOf(s)) <=>
               /\ Len(g) <= Len(Frames!LinesOf(s))
               /\ \A k \in 1..Len(g) : g[k] = Frames!LinesOf(s)[k]
<1> DEFINE lines == Frames!LinesOf(s)
           n == Len(g)
<1>1. Len(lines) \in Nat /\ lines = [k \in 1..Len(lines) |-> lines[k]] /\ n \in Nat
  BY LinesTypes
<1>2. SubSeq(g, 1, n) = [k \in 1..n |-> g[k]]
  BY <1>1
<1>3. n <= Len(lines) => SubSeq(lines, 1, n) = [k \in 1..n |-> lines[k]]
  BY <1>1
<1>4. Frames!IsPrefix(g, lines) <=> n <= Len(lines) /\ SubSeq(g, 1, n) = SubSeq(lines, 1, n)
  BY DEF Frames!IsPrefix
<1> HIDE DEF lines, n
<1>5. [k \in 1..n |-> g[k]] = [k \in 1..n |-> lines[k]] <=> \A k \in 1..n : g[k] = lines[k]
  <2>1. ASSUME [k \in 1..n |-> g[k]] = [k \in 1..n |-> lines[k]], NEW k \in 1..n
        PROVE  g[k] = lines[k]
    <3>1. [j \in 1..n |-> g[j]][k] = [j \in 1..n |-> lines[j]][k]
      BY <2>1
    <3> QED BY <3>1
  <2>2. ASSUME \A k \in 1..n : g[k] = lines[k]
        PROVE  [k \in 1..n |-> g[k]] = [k \in 1..n |-> lines[k]]
    BY <2>2
  <2> QED BY <2>1, <2>2
<1>6. Frames!IsPrefix(g, lines) <=> n <= Len(lines) /\ \A k \in 1..n : g[k] = lines[k]
  BY <1>2, <1>3, <1>4, <1>5, Zenon
<1> QED BY <1>6 DEF lines, n

\* The end of the present line, which is not before a place up to which there is
\* no line feed.
LEMMA EndAhead ==
    ASSUME NEW s \in Seq(Frames!Byte), NEW p \in 0..Len(s), p < Len(s)
    PROVE  \E e \in Frames!LineEnds(s) :
               p < e /\ \A i \in (p + 1)..(e - 1) : s[i] # Frames!LF
<1> DEFINE After == {i \in Frames!LineEnds(s) : p < i}
<1>1. Frames!LineEnds(s) \in SUBSET (1..Len(s)) /\ Len(s) \in Nat /\ p \in Nat
  BY LineEndsFinite
<1>2. Len(s) \in After /\ After \in SUBSET Nat
  BY <1>1 DEF Frames!LineEnds
<1> HIDE DEF After
<1>3. PICK e \in After : \A y \in After : e <= y
  BY <1>2, LeastMember
<1> USE DEF After
<1>4. e \in Frames!LineEnds(s) /\ p < e /\ e \in 1..Len(s)
  BY <1>1, <1>3
<1>5. ASSUME NEW i \in (p + 1)..(e - 1), s[i] = Frames!LF PROVE FALSE
  <2>1. i \in 1..Len(s) /\ p < i /\ ~ (e <= i)
    BY <1>1, <1>4
  <2>2. i \in After
    BY <1>5, <2>1 DEF Frames!LineEnds
  <2> QED BY <1>3, <2>1, <2>2
<1> QED BY <1>4, <1>5

\* ExactFrames, line by line.
Exact ==
    LET lines == Frames!LinesOf(stream)
        n == Len(given) IN
    /\ n <= Len(lines)
    /\ \A k \in 1..n : given[k] = lines[k] /\ Frames!ErrorIn(lines[k]) = "none"
    /\ afterErr # "none" =>
           /\ n = Len(lines) => afterErr = "EOF"
           /\ n # Len(lines) => afterErr = Frames!ErrorIn(lines[n + 1])
    /\ Len(frame) <= frameLimit + 1

LEMMA ExactIs == FrameTypes => (Frames!ExactFrames <=> Exact)
<1> SUFFICES ASSUME FrameTypes PROVE Frames!ExactFrames <=> Exact
  OBVIOUS
<1>1. Frames!IsPrefix(given, Frames!LinesOf(stream)) <=>
          /\ Len(given) <= Len(Frames!LinesOf(stream))
          /\ \A k \in 1..Len(given) : given[k] = Frames!LinesOf(stream)[k]
  BY GivenPrefix DEF FrameTypes
<1> QED BY <1>1, Zenon DEF Frames!ExactFrames, Exact

LEMMA ExactNext == FrameTypes' => (Frames!ExactFrames' <=> Exact')
BY ExactIs, PTL

\* readFrame returns a line that ended where its last read did.
LEMMA LineReturned ==
    ASSUME FrameTypes, afterErr = "none", Collecting, Exact,
           NEW e \in Frames!LineEnds(stream), Begin < e,
           \A i \in (Begin + 1)..(e - 1) : stream[i] # Frames!LF,
           NEW next \in {"none", "EOF"}, next = "EOF" => e = Len(stream),
           UNCHANGED <<stream, frameLimit, buffer>>, read' = e, frame' = << >>,
           Frames!Return(SubSeq(stream, Begin + 1, e), next)
    PROVE  FrameTypes' /\ (afterErr' = "none" => Collecting') /\ Exact'
<1> DEFINE lines == Frames!LinesOf(stream)
           line == SubSeq(stream, Begin + 1, e)
           n == Len(given)
<1>1. /\ stream \in Seq(Frames!Byte) /\ Begin \in Frames!LineEnds(stream) \cup {0}
      /\ Cardinality(Upto(stream, Begin)) = n /\ n \in Nat
  BY DEF FrameTypes, Collecting
<1>2. /\ Cardinality(Upto(stream, e)) = n + 1 /\ n + 1 \in 1..Len(lines)
      /\ lines[n + 1] = line
  BY <1>1, NextLine
<1>3. /\ e \in 1..Len(stream) /\ Len(stream) \in Nat /\ line \in Seq(Frames!Byte)
      /\ Begin \in 0..Len(stream)
  BY <1>1, LineEndsFinite
<1>4. e = Len(stream) => Len(lines) = n + 1
  <2> SUFFICES ASSUME e = Len(stream) PROVE Len(lines) = n + 1
    OBVIOUS
  <2>1. Upto(stream, e) = Frames!LineEnds(stream)
    BY <1>1, <1>3, LineEndsFinite DEF Upto
  <2> QED BY <1>1, <1>2, <2>1, LinesTypes
<1>5. \A l : Frames!ErrorIn(l)' = Frames!ErrorIn(l)
  BY DEF Frames!ErrorIn, Frames!Payload, Frames!ValidText, Frames!Ends
<1> HIDE DEF lines, line
<1>6. Len(frame') <= frameLimit + 1 /\ frameLimit \in Nat
  BY DEF FrameTypes
<1>7. CASE Frames!ErrorIn(line) # "none"
  <2>1. given' = given /\ afterErr' = Frames!ErrorIn(line)
    BY <1>7 DEF Frames!Return, line
  <2>2. FrameTypes'
    BY <1>3, <2>1 DEF FrameTypes
  <2>3. n # Len(lines) /\ afterErr' = Frames!ErrorIn(lines[n + 1])
    BY <1>1, <1>2, <2>1
  <2>4. Exact'
    BY <1>5, <1>6, <2>1, <2>3 DEF Exact, lines
  <2> QED BY <1>7, <2>1, <2>2, <2>4
<1>8. CASE Frames!ErrorIn(line) = "none"
  <2>1. given' = Append(given, line) /\ afterErr' = next
    BY <1>8 DEF Frames!Return, line
  <2>2. /\ given' \in Seq(Seq(Frames!Byte)) /\ Len(given') = n + 1
        /\ given'[n + 1] = line /\ \A k \in 1..n : given'[k] = given[k]
    BY <1>1, <1>3, <2>1 DEF FrameTypes
  <2>3. FrameTypes'
    BY <1>3, <2>2 DEF FrameTypes
  <2>4. \A k \in 1..(n + 1) : given'[k] = lines[k] /\ Frames!ErrorIn(lines[k]) = "none"
    <3>1. \A k \in 1..n : given[k] = lines[k] /\ Frames!ErrorIn(lines[k]) = "none"
      BY DEF Exact, lines
    <3>2. ASSUME NEW k \in 1..(n + 1)
          PROVE  given'[k] = lines[k] /\ Frames!ErrorIn(lines[k]) = "none"
      <4>1. k \in 1..n \/ k = n + 1
        BY <1>1
      <4> QED BY <1>2, <1>8, <2>2, <3>1, <4>1
    <3> QED BY <3>2
  <2>5. Exact'
    <3>1. n + 1 <= Len(lines)
      BY <1>1, <1>2
    <3>2. afterErr' # "none" => n + 1 = Len(lines) /\ afterErr' = "EOF"
      BY <1>4, <2>1
    <3> QED BY <1>5, <1>6, <2>2, <2>4, <3>1, <3>2 DEF Exact, lines
  <2>6. Collecting'
    <3>1. Begin' = e
      BY <1>3 DEF Begin
    <3>2. Cardinality(Upto(stream', Begin')) = Len(given')
      BY <1>2, <2>2, <3>1
    <3>3. frame' = SubSeq(stream', Begin' + 1, read')
      BY <1>1, <1>3, <3>1
    <3>4. frame' \in Seq(Frames!Byte) /\ Len(frame') = 0
      OBVIOUS
    <3> QED BY <1>3, <1>6, <3>1, <3>2, <3>3, <3>4 DEF Collecting
  <2> QED BY <2>3, <2>5, <2>6
<1> QED BY <1>7, <1>8

LEMMA Glue ==
    ASSUME NEW s \in Seq(Frames!Byte), NEW p \in Nat, NEW q \in p..Len(s), NEW e \in q..Len(s)
    PROVE  SubSeq(s, p + 1, q) \o SubSeq(s, q + 1, e) = SubSeq(s, p + 1, e)
<1> DEFINE a == SubSeq(s, p + 1, q)
           b == SubSeq(s, q + 1, e)
           c == SubSeq(s, p + 1, e)
<1>1. /\ Len(s) \in Nat /\ q \in Nat /\ e \in Nat
      /\ p <= q /\ q <= e /\ e <= Len(s)
  OBVIOUS
<1>2. /\ a \in Seq(Frames!Byte) /\ Len(a) = q - p /\ \A i \in 1..(q - p) : a[i] = s[p + i]
      /\ b \in Seq(Frames!Byte) /\ Len(b) = e - q /\ \A i \in 1..(e - q) : b[i] = s[q + i]
      /\ c \in Seq(Frames!Byte) /\ Len(c) = e - p /\ \A i \in 1..(e - p) : c[i] = s[p + i]
  BY <1>1
<1> HIDE DEF a, b, c
<1>6. /\ a \o b \in Seq(Frames!Byte) /\ Len(a \o b) = Len(a) + Len(b)
      /\ \A i \in 1..(Len(a) + Len(b)) :
             (a \o b)[i] = IF i <= Len(a) THEN a[i] ELSE b[i - Len(a)]
  BY <1>2, ConcatProperties
<1> DEFINE d == a \o b
<1>7. /\ d \in Seq(Frames!Byte) /\ Len(d) = Len(a) + Len(b)
      /\ \A i \in 1..(Len(a) + Len(b)) :
             d[i] = IF i <= Len(a) THEN a[i] ELSE b[i - Len(a)]
  BY <1>6
<1> HIDE DEF d
<1>3. Len(d) = e - p
  BY <1>1, <1>2, <1>7
<1>4. ASSUME NEW i \in 1..(e - p) PROVE d[i] = s[p + i]
  <2>1. CASE i <= q - p
    BY <1>1, <1>2, <1>7, <2>1
  <2>2. CASE ~ (i <= q - p)
    <3>1. d[i] = b[i - (q - p)]
      BY <1>1, <1>2, <1>7, <2>2
    <3>2. i - (q - p) \in 1..(e - q) /\ q + (i - (q - p)) = p + i
      BY <1>1, <2>2
    <3> QED BY <1>2, <3>1, <3>2
  <2> QED BY <2>1, <2>2
<1>5. d = c
  <2>1. Len(d) = Len(c) /\ \A i \in 1..Len(d) : d[i] = c[i]
    BY <1>2, <1>3, <1>4
  <2> QED BY <1>2, <1>7, <2>1, SeqEqual
<1> QED BY <1>5 DEF a, b, c, d

\* What the next fragment adds to the present line, which then is the bytes up to t.
LEMMA FragmentAdds ==
    ASSUME FrameTypes, Collecting
    PROVE  LET f == Frames!Fragment
               t == read + Len(f) IN
           /\ Begin \in 0..read /\ Len(frame) = read - Begin /\ t \in read..Len(stream)
           /\ frame \o f = SubSeq(stream, Begin + 1, t)
           /\ \A i \in (Begin + 1)..(t - 1) : stream[i] # Frames!LF
           /\ \A b : Frames!Ends(f, b) <=> t > read /\ stream[t] = b
           /\ Len(f) >= 2 => f[Len(f) - 1] = stream[t - 1]
           /\ Len(f) <= buffer
           /\ \/ t > read /\ stream[t] = Frames!LF
              \/ Len(f) = buffer
              \/ t = Len(stream)
<1> DEFINE f == Frames!Fragment
           m == Len(f)
           t == read + m
<1>1. /\ stream \in Seq(Frames!Byte) /\ Len(stream) \in Nat /\ read \in 0..Len(stream)
      /\ buffer \in Nat \ {0}
      /\ frame = SubSeq(stream, Begin + 1, read)
      /\ \A i \in (Begin + 1)..read : stream[i] # Frames!LF
  BY DEF FrameTypes, Collecting
<1>2. Begin \in 0..read /\ Len(frame) = read - Begin
  BY <1>1 DEF Begin, Collecting
<1>3. /\ m \in 0..(Len(stream) - read) /\ m <= buffer
      /\ f = SubSeq(stream, read + 1, t)
      /\ \A i \in (read + 1)..(t - 1) : stream[i] # Frames!LF
      /\ (m > 0 /\ stream[t] = Frames!LF) \/ m = buffer \/ m = Len(stream) - read
  BY <1>1, FragmentIs
<1> HIDE DEF f
<1>4. t \in read..Len(stream)
  BY <1>1, <1>3
<1>5. /\ f \in Seq(Frames!Byte)
      /\ \A b : Frames!Ends(f, b) <=> t > read /\ stream[t] = b
  <2> DEFINE g == SubSeq(stream, read + 1, t)
  <2>1. g \in Seq(Frames!Byte) /\ \A b : Frames!Ends(g, b) <=> t > read /\ stream[t] = b
    <3> HIDE DEF t
    <3> QED BY <1>1, <1>4, LineIs
  <2>2. f = g
    BY <1>3
  <2> HIDE DEF g, t
  <2> QED BY <2>1, <2>2
<1>6. m >= 2 => f[m - 1] = stream[t - 1]
  <2> SUFFICES ASSUME m >= 2 PROVE f[m - 1] = stream[t - 1]
    OBVIOUS
  <2>1. \A i \in 1..m : SubSeq(stream, read + 1, t)[i] = stream[read + i]
    BY <1>1, <1>3, <1>4
  <2>2. m - 1 \in 1..m /\ read + (m - 1) = t - 1
    BY <1>1, <1>3
  <2> QED BY <1>3, <2>1, <2>2
<1>7. frame \o f = SubSeq(stream, Begin + 1, t)
  <2>1. Begin \in Nat /\ read \in Begin..Len(stream) /\ t \in read..Len(stream)
    BY <1>1, <1>2, <1>4
  <2> HIDE DEF t
  <2>2. SubSeq(stream, Begin + 1, read) \o SubSeq(stream, read + 1, t) = SubSeq(stream, Begin + 1, t)
    BY <1>1, <2>1, Glue
  <2> QED BY <1>1, <1>3, <2>2
<1>8. \A i \in (Begin + 1)..(t - 1) : stream[i] # Frames!LF
  <2>1. ASSUME NEW i \in (Begin + 1)..(t - 1)
        PROVE  i \in (Begin + 1)..read \/ i \in (read + 1)..(t - 1)
    BY <1>1, <1>2, <1>4
  <2> QED BY <1>1, <1>3, <2>1
<1>9. (t > read /\ stream[t] = Frames!LF) \/ m = buffer \/ t = Len(stream)
  BY <1>1, <1>3
<1> QED BY <1>2, <1>3, <1>4, <1>5, <1>6, <1>7, <1>8, <1>9 DEF f

\* frameFragmentFits: what does not fit is the beginning of a line whose payload
\* is over the limit, however the line goes on.
LEMMA UnfitIsTooLarge ==
    ASSUME FrameTypes, Collecting, ~ Frames!FragmentFits(Len(frame), Frames!Fragment)
    PROVE  \E e \in Frames!LineEnds(stream) :
               /\ Begin < e /\ \A i \in (Begin + 1)..(e - 1) : stream[i] # Frames!LF
               /\ Frames!ErrorIn(SubSeq(stream, Begin + 1, e)) = "too large"
<1> DEFINE f == Frames!Fragment
           m == Len(f)
           t == read + m
           total == Len(frame) + m
           size(e) == Len(Frames!Payload(SubSeq(stream, Begin + 1, e)))
<1>1. /\ stream \in Seq(Frames!Byte) /\ Len(stream) \in Nat /\ read \in 0..Len(stream)
      /\ buffer \in Nat \ {0} /\ frameLimit \in Nat \ {0}
      /\ Len(frame) <= frameLimit + 1
      /\ Len(frame) = frameLimit + 1 => stream[read] = Frames!CR
      /\ \A i \in (Begin + 1)..read : stream[i] # Frames!LF
  BY DEF FrameTypes, Collecting
<1>2. /\ Begin \in 0..read /\ Len(frame) = read - Begin /\ t \in read..Len(stream)
      /\ \A i \in (Begin + 1)..(t - 1) : stream[i] # Frames!LF
      /\ \A b : Frames!Ends(f, b) <=> t > read /\ stream[t] = b
      /\ m >= 2 => f[m - 1] = stream[t - 1]
      /\ (t > read /\ stream[t] = Frames!LF) \/ m = buffer \/ t = Len(stream)
  BY FragmentAdds
<1>3. m \in Nat
  BY FragmentIs DEF FrameTypes
<1>4. /\ t > read /\ stream[t] = Frames!LF =>
             ~ \/ total - 1 <= frameLimit
               \/ /\ total - 1 = frameLimit + 1
                  /\ IF m >= 2 THEN stream[t - 1] = Frames!CR ELSE Len(frame) > 0
      /\ ~ (t > read /\ stream[t] = Frames!LF) =>
             ~ \/ total <= frameLimit
               \/ total = frameLimit + 1 /\ t > read /\ stream[t] = Frames!CR
  BY <1>2 DEF Frames!FragmentFits
<1>5. /\ Frames!LineEnds(stream) \in SUBSET (1..Len(stream))
      /\ \A e \in Frames!LineEnds(stream) : e < Len(stream) => stream[e] = Frames!LF
  BY <1>1 DEF Frames!LineEnds
<1>6. ASSUME NEW e \in Frames!LineEnds(stream), Begin < e,
             \A i \in (Begin + 1)..(e - 1) : stream[i] # Frames!LF, size(e) > frameLimit
      PROVE  \E d \in Frames!LineEnds(stream) :
               /\ Begin < d /\ \A i \in (Begin + 1)..(d - 1) : stream[i] # Frames!LF
               /\ Frames!ErrorIn(SubSeq(stream, Begin + 1, d)) = "too large"
  <2>1. Frames!ErrorIn(SubSeq(stream, Begin + 1, e)) = "too large"
    BY <1>6 DEF Frames!ErrorIn
  <2> QED BY <1>6, <2>1
<1>7. ASSUME NEW e \in Frames!LineEnds(stream), Begin < e
      PROVE  /\ stream[e] # Frames!LF => size(e) = e - Begin
             /\ stream[e] = Frames!LF =>
                    size(e) = IF e > Begin + 1 /\ stream[e - 1] = Frames!CR
                              THEN e - Begin - 2 ELSE e - Begin - 1
  <2>1. Begin \in 0..Len(stream) /\ e \in Begin..Len(stream)
    BY <1>1, <1>2, <1>5, <1>7
  <2> QED BY <1>1, <1>7, <2>1, LineIs
<1> HIDE DEF f, size
<1>8. CASE t > read /\ stream[t] = Frames!LF
  <2>1. t \in Frames!LineEnds(stream) /\ Begin < t
    BY <1>1, <1>2, <1>8 DEF Frames!LineEnds
  <2>2. size(t) > frameLimit
    <3>1. size(t) = IF t > Begin + 1 /\ stream[t - 1] = Frames!CR
                    THEN t - Begin - 2 ELSE t - Begin - 1
      BY <1>7, <1>8, <2>1
    <3>2. total = t - Begin /\ total \in Nat
      BY <1>1, <1>2, <1>3
    <3>3. ~ (total - 1 <= frameLimit)
      BY <1>4, <1>8
    <3>4. CASE total - 1 = frameLimit + 1
      <4>1. m >= 2 => stream[t - 1] # Frames!CR
        BY <1>4, <1>8, <3>4
      <4>2. ~ (m >= 2) => ~ (Len(frame) > 0)
        BY <1>4, <1>8, <3>4
      <4>3. m >= 2
        BY <1>1, <1>2, <1>3, <3>4, <4>2
      <4> QED BY <1>1, <1>2, <1>3, <3>1, <3>2, <3>3, <4>1, <4>3
    <3>5. CASE total - 1 # frameLimit + 1
      <4>1. t \in Int /\ Begin \in Int /\ frameLimit \in Int
        BY <1>1, <1>2
      <4>2. t - Begin - 2 > frameLimit
        BY <3>2, <3>3, <3>5, <4>1
      <4>3. t - Begin - 1 > frameLimit
        BY <4>1, <4>2
      <4> HIDE DEF t, total
      <4> QED BY <3>1, <4>2, <4>3
    <3> QED BY <3>4, <3>5
  <2> QED BY <1>2, <1>6, <2>1, <2>2
<1>9. CASE ~ (t > read /\ stream[t] = Frames!LF)
  <2>1. ~ (total <= frameLimit) /\ ~ (total = frameLimit + 1 /\ t > read /\ stream[t] = Frames!CR)
    BY <1>4, <1>9
  <2>2. total = t - Begin /\ total \in Nat /\ Begin < t
    BY <1>1, <1>2, <1>3, <2>1
  <2>3. \A i \in (Begin + 1)..t : stream[i] # Frames!LF
    <3>1. ASSUME NEW i \in (Begin + 1)..t
          PROVE  i \in (Begin + 1)..(t - 1) \/ (i = t /\ t > read) \/ i \in (Begin + 1)..read
      BY <1>1, <1>2
    <3> QED BY <1>1, <1>2, <1>9, <3>1
  <2>4. PICK e \in Frames!LineEnds(stream) :
            Begin < e /\ \A i \in (Begin + 1)..(e - 1) : stream[i] # Frames!LF
    <3>1. Begin \in 0..Len(stream) /\ Begin < Len(stream)
      BY <1>1, <1>2, <2>2
    <3> QED BY <1>1, <3>1, EndAhead
  <2>5. e \in 1..Len(stream) /\ e >= t
    <3>1. e \in 1..Len(stream)
      BY <1>5
    <3>2. ASSUME e < t PROVE FALSE
      <4>1. e \in (Begin + 1)..t /\ e < Len(stream)
        BY <1>1, <1>2, <2>4, <3>1, <3>2
      <4> QED BY <1>5, <2>3, <4>1
    <3> QED BY <1>1, <1>2, <3>1, <3>2
  <2>6. stream[t] # Frames!LF
    BY <1>1, <1>2, <2>2, <2>3
  <2>7. total = frameLimit + 1 => stream[t] # Frames!CR \/ (t = read /\ e = t)
    <3> SUFFICES ASSUME total = frameLimit + 1, stream[t] = Frames!CR
                 PROVE  t = read /\ e = t
      OBVIOUS
    <3>1. t = read
      BY <1>1, <1>2, <2>1
    <3>2. t = Len(stream)
      BY <1>1, <1>2, <1>3, <3>1
    <3> QED BY <1>1, <2>5, <3>1, <3>2
  <2>8. size(e) > frameLimit
    <3>1. CASE stream[e] # Frames!LF
      BY <1>1, <1>2, <1>7, <2>1, <2>2, <2>4, <2>5, <3>1
    <3>2. CASE stream[e] = Frames!LF
      <4>1. e > t
        BY <1>1, <1>2, <2>5, <2>6, <3>2
      <4>2. size(e) = IF e > Begin + 1 /\ stream[e - 1] = Frames!CR
                      THEN e - Begin - 2 ELSE e - Begin - 1
        BY <1>7, <2>4, <3>2
      <4>5. t \in Int /\ Begin \in Int /\ frameLimit \in Int /\ e \in Int
        BY <1>1, <1>2, <2>5
      <4>6. t - Begin > frameLimit
        BY <2>1, <2>2, <4>5
      <4> HIDE DEF t
      <4>7. e - Begin - 1 > frameLimit
        BY <4>1, <4>5, <4>6
      <4>3. CASE e - 1 = t
        <5>1. CASE stream[t] = Frames!CR
          <6>1. t - Begin # frameLimit + 1
            BY <2>2, <2>7, <4>1, <4>5, <5>1
          <6>2. e - Begin - 2 > frameLimit
            BY <4>3, <4>5, <4>6, <6>1
          <6> QED BY <4>2, <4>7, <6>2
        <5>2. CASE stream[t] # Frames!CR
          BY <4>2, <4>3, <4>7, <5>2
        <5> QED BY <5>1, <5>2
      <4>4. CASE e - 1 > t
        <5>1. e - Begin - 2 > frameLimit
          BY <4>4, <4>5, <4>6
        <5> QED BY <4>2, <4>7, <5>1
      <4> QED BY <4>1, <4>3, <4>4, <4>5
    <3> QED BY <3>1, <3>2
  <2> QED BY <1>6, <2>4, <2>8
<1> QED BY <1>8, <1>9

LEMMA FrameStep ==
    ASSUME FrameTypes, afterErr = "none", Collecting, Exact, Frames!Turn
    PROVE  FrameTypes' /\ (afterErr' = "none" => Collecting') /\ Exact'
<1> DEFINE f == Frames!Fragment
           t == read + Len(f)
           line == frame \o f
           fits == Frames!FragmentFits(Len(frame), f)
<1>1. /\ stream \in Seq(Frames!Byte) /\ Len(stream) \in Nat /\ read \in 0..Len(stream)
      /\ frameLimit \in Nat \ {0} /\ buffer \in Nat \ {0}
      /\ given \in Seq(Seq(Frames!Byte)) /\ Len(frame) <= frameLimit + 1
      /\ Begin \in Frames!LineEnds(stream) \cup {0}
      /\ Cardinality(Upto(stream, Begin)) = Len(given)
  BY DEF FrameTypes, Collecting
<1>2. /\ Begin \in 0..read /\ Len(frame) = read - Begin /\ t \in read..Len(stream)
      /\ line = SubSeq(stream, Begin + 1, t)
      /\ \A i \in (Begin + 1)..(t - 1) : stream[i] # Frames!LF
      /\ \A b : Frames!Ends(f, b) <=> t > read /\ stream[t] = b
      /\ (t > read /\ stream[t] = Frames!LF) \/ Len(f) = buffer \/ t = Len(stream)
  BY FragmentAdds
<1>3. /\ read' = t /\ UNCHANGED <<stream, frameLimit, buffer>>
      /\ \/ /\ ~ fits /\ frame' = << >> /\ afterErr' = "too large" /\ UNCHANGED given
         \/ /\ fits /\ Frames!Ends(f, Frames!LF) /\ frame' = << >>
            /\ Frames!Return(line, "none")
         \/ /\ fits /\ ~ Frames!Ends(f, Frames!LF) /\ Len(f) = buffer /\ frame' = line
            /\ UNCHANGED <<afterErr, given>>
         \/ /\ fits /\ ~ Frames!Ends(f, Frames!LF) /\ t = Len(stream) /\ frame' = << >>
            /\ IF line = << >> THEN afterErr' = "EOF" /\ UNCHANGED given
                               ELSE Frames!Return(line, "EOF")
  BY DEF Frames!Turn
<1>4. fits => \/ Frames!Ends(f, Frames!LF)
              \/ Len(frame) + Len(f) <= frameLimit
              \/ Len(frame) + Len(f) = frameLimit + 1 /\ Frames!Ends(f, Frames!CR)
  BY DEF Frames!FragmentFits
<1>5. Len(f) \in Nat
  BY FragmentIs DEF FrameTypes
<1>6. ~ fits => \E e \in Frames!LineEnds(stream) :
               /\ Begin < e /\ \A i \in (Begin + 1)..(e - 1) : stream[i] # Frames!LF
               /\ Frames!ErrorIn(SubSeq(stream, Begin + 1, e)) = "too large"
  BY UnfitIsTooLarge
<1>7. \A l : Frames!ErrorIn(l)' = Frames!ErrorIn(l)
  BY <1>3 DEF Frames!ErrorIn, Frames!Payload, Frames!ValidText, Frames!Ends
<1>13. /\ Begin \in Nat /\ read \in Nat /\ t \in Nat /\ t \in 0..Len(stream)
       /\ Begin <= read /\ read <= t /\ Begin \in 0..Len(stream) /\ t \in Begin..Len(stream)
  <2> HIDE DEF t
  <2> QED BY <1>1, <1>2
<1>8. FrameTypes /\ UNCHANGED given => FrameTypes'
  <2> HIDE DEF t
  <2> QED BY <1>1, <1>3, <1>13 DEF FrameTypes
<1>14. /\ stream \in Seq(Frames!Byte) /\ Begin \in Frames!LineEnds(stream) \cup {0}
       /\ Cardinality(Upto(stream, Begin)) = Len(given) /\ Len(given) \in Nat
  BY DEF FrameTypes, Collecting
<1>15. line \in Seq(Frames!Byte) /\ Len(line) = t - Begin
  <2> HIDE DEF t, line
  <2> QED BY <1>2, <1>13, <1>14, LineIs
<1> HIDE DEF f, line, fits
<1>9. CASE ~ fits
  <2>1. frame' = << >> /\ afterErr' = "too large" /\ given' = given
    BY <1>3, <1>9
  <2>2. PICK e \in Frames!LineEnds(stream) :
               /\ Begin < e /\ \A i \in (Begin + 1)..(e - 1) : stream[i] # Frames!LF
               /\ Frames!ErrorIn(SubSeq(stream, Begin + 1, e)) = "too large"
    BY <1>6, <1>9
  <2> DEFINE lines == Frames!LinesOf(stream)
             n == Len(given)
  <2>3. n + 1 \in 1..Len(lines) /\ lines[n + 1] = SubSeq(stream, Begin + 1, e) /\ n \in Nat
    BY <1>14, <2>2, NextLine
  <2>4. n # Len(lines) /\ afterErr' = Frames!ErrorIn(lines[n + 1])
    <3>1. Len(lines) \in Nat
      BY <1>14, LinesTypes
    <3>2. Frames!ErrorIn(lines[n + 1]) = "too large"
      BY <2>2, <2>3
    <3> HIDE DEF lines, n
    <3>3. n # Len(lines)
      BY <2>3, <3>1
    <3> QED BY <2>1, <3>2, <3>3
  <2>5. Len(frame') <= frameLimit + 1
    <3>1. frame' = << >> /\ frameLimit \in Nat
      BY <1>1, <2>1
    <3> QED BY <3>1
  <2>6. Exact'
    BY <1>3, <1>7, <2>1, <2>4, <2>5 DEF Exact
  <2> QED BY <1>8, <2>1, <2>6
<1>10. CASE fits /\ Frames!Ends(f, Frames!LF)
  <2>1. frame' = << >> /\ Frames!Return(line, "none")
    BY <1>3, <1>10
  <2>2. t \in Frames!LineEnds(stream) /\ Begin < t
    BY <1>1, <1>2, <1>10 DEF Frames!LineEnds
  <2> HIDE DEF t
  <2>3. Frames!Return(SubSeq(stream, Begin + 1, t), "none")
    BY <1>2, <2>1
  <2> QED BY <1>2, <1>3, <2>1, <2>2, <2>3, LineReturned
<1>11. CASE fits /\ ~ Frames!Ends(f, Frames!LF) /\ Len(f) = buffer
            /\ frame' = line /\ UNCHANGED <<afterErr, given>>
  <2>1. Len(f) > 0 /\ t > read
    BY <1>1, <1>5, <1>11
  <2> HIDE DEF t
  <2>2. line \in Seq(Frames!Byte) /\ Len(line) = t - Begin
    BY <1>15
  <2>3. Begin' = Begin
    <3>1. Begin' = t - (t - Begin)
      BY <1>3, <1>11, <2>2 DEF Begin
    <3>2. Begin \in Nat /\ t \in Nat
      BY <1>13
    <3> HIDE DEF Begin
    <3> QED BY <3>1, <3>2
  <2>4. \A i \in (Begin + 1)..t : stream[i] # Frames!LF
    <3>1. ASSUME NEW i \in (Begin + 1)..t PROVE i \in (Begin + 1)..(t - 1) \/ i = t
      BY <1>1, <1>2
    <3> QED BY <1>2, <1>11, <2>1, <3>1
  <2>5. Len(line) = Len(frame) + Len(f)
    BY <1>1, <1>2, <1>5, <2>2 DEF t
  <2>6. Len(line) <= frameLimit + 1
    BY <1>1, <1>2, <1>4, <1>5, <1>11, <2>5
  <2>7. Len(line) = frameLimit + 1 => stream[t] = Frames!CR
    BY <1>1, <1>2, <1>4, <1>5, <1>11, <2>5
  <2>8. FrameTypes'
    BY <1>8, <1>11
  <2>9. Exact'
    BY <1>3, <1>7, <1>11, <2>6 DEF Exact
  <2>10. Begin \in 0..t /\ Len(line) <= t
    BY <1>1, <1>2, <2>2
  <2>11. Collecting'
    <3>1. frame' \in Seq(Frames!Byte) /\ Len(frame') <= read'
          /\ frame' = SubSeq(stream', Begin' + 1, read')
      BY <1>2, <1>3, <1>11, <2>2, <2>3, <2>10
    <3>2. \A i \in (Begin' + 1)..read' : stream'[i] # Frames!LF
      BY <1>3, <2>3, <2>4
    <3>3. Len(frame') <= frameLimit' + 1
          /\ (Len(frame') = frameLimit' + 1 => stream'[read'] = Frames!CR)
      BY <1>3, <1>11, <2>6, <2>7
    <3>4. Begin' \in Frames!LineEnds(stream') \cup {0}
          /\ Cardinality(Upto(stream', Begin')) = Len(given')
      BY <1>1, <1>3, <1>11, <2>3
    <3> QED BY <3>1, <3>2, <3>3, <3>4 DEF Collecting
  <2> QED BY <2>8, <2>9, <2>11
<1>12. CASE fits /\ ~ Frames!Ends(f, Frames!LF) /\ t = Len(stream) /\ frame' = << >>
            /\ IF line = << >> THEN afterErr' = "EOF" /\ UNCHANGED given
                               ELSE Frames!Return(line, "EOF")
  <2> HIDE DEF t
  <2>1. line \in Seq(Frames!Byte) /\ Len(line) = t - Begin /\ t = Len(stream) /\ t \in Nat
    BY <1>12, <1>13, <1>15
  <2>2. CASE line = << >>
    <3>1. afterErr' = "EOF" /\ given' = given /\ frame' = << >>
      BY <1>12, <2>2
    <3>2. Begin = Len(stream)
      BY <1>13, <2>1, <2>2
    <3>3. Upto(stream, Begin) = Frames!LineEnds(stream)
      BY <1>1, <3>2, LineEndsFinite DEF Upto
    <3>4. Len(given) = Len(Frames!LinesOf(stream))
      BY <1>1, <3>3, LinesTypes
    <3>5. Len(frame') <= frameLimit + 1
      BY <1>1, <3>1
    <3>6. Exact'
      BY <1>3, <1>7, <3>1, <3>4, <3>5 DEF Exact
    <3> QED BY <1>8, <3>1, <3>6
  <2>3. CASE line # << >>
    <3>1. Frames!Return(SubSeq(stream, Begin + 1, t), "EOF") /\ frame' = << >>
      BY <1>2, <1>12, <2>3
    <3>2. Begin < t
      BY <1>1, <1>2, <2>1, <2>3
    <3>3. t \in Frames!LineEnds(stream)
      BY <1>1, <1>2, <2>1, <3>2 DEF Frames!LineEnds
    <3> QED BY <1>2, <1>3, <2>1, <3>1, <3>2, <3>3, LineReturned
  <2> QED BY <2>2, <2>3
<1> QED BY <1>3, <1>9, <1>10, <1>11, <1>12

LEMMA InitFrameInv == PartInit => FrameInv
<1> SUFFICES ASSUME PartInit, part = "frames"
             PROVE  FrameTypes /\ (afterErr = "none" => Collecting) /\ Frames!ExactFrames
  BY DEF FrameInv
<1>1. Frames!Init
  BY DEF PartInit
<1>2. FrameTypes
  <2>1. stream \in Seq(Frames!Byte)
    <3>1. PICK n \in 0..MaxStream : stream \in [1..n -> Frames!Byte]
      BY <1>1 DEF Frames!Init
    <3>2. n \in Nat
      BY <3>1
    <3> QED BY <3>1, <3>2
  <2>2. frameLimit \in Nat \ {0} /\ buffer \in Nat \ {0}
    BY <1>1, ComponentsAssumption DEF Frames!Init, Frames!FrameReaderAssumption
  <2>3. read = 0 /\ given = << >>
    BY <1>1 DEF Frames!Init
  <2> QED BY <2>1, <2>2, <2>3 DEF FrameTypes
<1>3. frame = << >> /\ given = << >> /\ read = 0 /\ afterErr = "none"
  BY <1>1 DEF Frames!Init
<1>4. Begin = 0
  <2>1. read = 0 /\ Len(frame) = 0
    BY <1>3
  <2> QED BY <2>1 DEF Begin
<1>5. Cardinality(Upto(stream, 0)) = 0
  <2>1. Upto(stream, 0) = {}
    BY <1>2, LineEndsFinite DEF Upto, FrameTypes
  <2> QED BY <2>1, FS_EmptySet
<1>6. Collecting
  <2>1. SubSeq(stream, Begin + 1, read) = << >>
    BY <1>2, <1>3, <1>4 DEF FrameTypes
  <2>2. Len(frame) = 0 /\ frame \in Seq(Frames!Byte) /\ Len(given) = 0
    BY <1>3
  <2> QED BY <1>2, <1>3, <1>4, <1>5, <2>1, <2>2 DEF Collecting, FrameTypes
<1>7. Exact
  <2>1. Len(Frames!LinesOf(stream)) \in Nat
    BY <1>2, LinesTypes DEF FrameTypes
  <2> QED BY <1>2, <1>3, <2>1 DEF Exact, FrameTypes
<1> QED BY <1>2, <1>6, <1>7, ExactIs

LEMMA NextFrameInv == FrameInv /\ [PartNext]_partVars => FrameInv'
<1> SUFFICES ASSUME FrameInv, [PartNext]_partVars PROVE FrameInv'
  OBVIOUS
<1>1. part' = part /\ (part = "frames" => [Frames!Next]_frameVars)
  BY PartSteps
<1>2. CASE part # "frames"
  BY <1>1, <1>2 DEF FrameInv
<1>3. CASE part = "frames" /\ UNCHANGED frameVars
  <2>1. UNCHANGED <<stream, frameLimit, buffer, read, frame, afterErr, given>>
    BY <1>3 DEF frameVars
  <2>2. FrameTypes' <=> FrameTypes
    BY <2>1 DEF FrameTypes
  <2>3. Collecting' <=> Collecting
    BY <2>1 DEF Collecting, Begin
  <2>4. Exact' <=> Exact
    BY <2>1 DEF Exact, Frames!ErrorIn, Frames!Payload, Frames!ValidText, Frames!Ends
  <2> QED BY <1>1, <1>3, <2>1, <2>2, <2>3, <2>4, ExactIs, ExactNext DEF FrameInv
<1>4. CASE part = "frames" /\ Frames!Turn
  <2>1. FrameTypes /\ Exact /\ afterErr = "none" /\ Collecting
    BY <1>4, ExactIs DEF FrameInv, Frames!Turn
  <2>2. FrameTypes' /\ (afterErr' = "none" => Collecting') /\ Exact'
    BY <1>4, <2>1, FrameStep
  <2> QED BY <2>2, ExactNext DEF FrameInv
<1> QED BY <1>1, <1>2, <1>3, <1>4 DEF Frames!Next

\* readFrame: however the buffer splits the stream, ReadFrame returns exactly the
\* lines before the first one whose payload is over the limit or invalid, then
\* that line's error or the end, and never holds more than a line may have.
THEOREM FramesExact == PartSpec => []ExactFrames
<1>1. FrameInv => ExactFrames
  BY DEF FrameInv, ExactFrames
<1>2. PartSpec => []FrameInv
  BY InitFrameInv, NextFrameInv, PTL DEF PartSpec, partVars
<1> QED BY <1>1, <1>2, PTL

(***************************************************************************)
(* The log queries.                                                        *)
(***************************************************************************)

\* Induction up to n, over a set.
LEMMA UpTo ==
    ASSUME NEW n \in Nat, NEW S, 0 \in S, \A k \in 0..(n - 1) : k \in S => k + 1 \in S
    PROVE  \A k \in 0..n : k \in S
<1> DEFINE T == {k \in 0..n : k \notin S}
<1>1. ASSUME T # {} PROVE FALSE
  <2>1. T \in SUBSET Nat
    OBVIOUS
  <2> HIDE DEF T
  <2>2. PICK x \in T : \A y \in T : x <= y
    BY <1>1, <2>1, LeastMember
  <2> USE DEF T
  <2>3. x \in 0..n /\ x \notin S /\ x # 0
    BY <2>2
  <2>4. x - 1 \in 0..(n - 1) /\ x - 1 \in 0..n /\ (x - 1) + 1 = x /\ ~ (x <= x - 1)
    BY <2>3
  <2>5. x - 1 \in S
    BY <2>2, <2>4
  <2> HIDE DEF T
  <2> QED BY <2>3, <2>4, <2>5
<1> QED BY <1>1

Positions == 1..Len(log)

\* g sums up the bytes of the first entries of s.
Sums(g, s) ==
    g = [n \in 0..Len(s) |-> IF n = 0 THEN 0 ELSE g[n - 1] + log[s[n]].size]

LEMMA EntrySize ==
    ASSUME log \in Seq(Logs!Entry), NEW s \in Seq(Positions), NEW k \in 1..Len(s)
    PROVE  log[s[k]].size \in Nat
<1>1. s[k] \in Positions /\ log[s[k]] \in Logs!Entry
  BY DEF Positions
<1> QED BY <1>1, ComponentsAssumption DEF Logs!Entry, Logs!LogQueryAssumption

LEMMA SumsExist ==
    ASSUME log \in Seq(Logs!Entry), NEW s \in Seq(Positions)
    PROVE  \E g : Sums(g, s)
<1> DEFINE size(k) == log[s[k]].size
           P(n, g) == g = [k \in 0..n |-> IF k = 0 THEN 0 ELSE g[k - 1] + size(k)]
           S == {n \in 0..Len(s) : \E g : P(n, g)}
<1>1. Len(s) \in Nat
  OBVIOUS
<1>2. 0 \in S
  <2> DEFINE g == [k \in 0..0 |-> 0]
  <2>1. P(0, g)
    OBVIOUS
  <2> HIDE DEF P, g
  <2>2. 0 \in 0..Len(s) /\ \E f : P(0, f)
    BY <1>1, <2>1
  <2> QED BY <2>2
<1>3. ASSUME NEW n \in 0..(Len(s) - 1), n \in S PROVE n + 1 \in S
  <2>1. PICK g : P(n, g)
    BY <1>3
  <2> DEFINE h == [k \in 0..(n + 1) |-> IF k = n + 1 THEN g[n] + size(n + 1) ELSE g[k]]
  <2>2. n + 1 \in 0..Len(s) /\ n \in Nat
    BY <1>1
  <2>3. \A k \in 0..n : g[k] = IF k = 0 THEN 0 ELSE g[k - 1] + size(k)
    <3> HIDE DEF size
    <3> QED BY <2>1
  <2>4. ASSUME NEW k \in 0..(n + 1)
        PROVE  h[k] = IF k = 0 THEN 0 ELSE h[k - 1] + size(k)
    <3> HIDE DEF size
    <3>1. CASE k = n + 1
      <4>1. k - 1 = n /\ k - 1 \in 0..(n + 1) /\ k - 1 # n + 1 /\ k # 0
        BY <2>2, <3>1
      <4>2. h[k - 1] = g[n] /\ h[k] = g[n] + size(n + 1)
        BY <3>1, <4>1
      <4> HIDE DEF h
      <4> QED BY <3>1, <4>1, <4>2
    <3>2. CASE k # n + 1
      <4>1. k \in 0..n
        BY <2>2, <3>2
      <4>2. h[k] = g[k] /\ (k # 0 => k - 1 \in 0..(n + 1) /\ k - 1 # n + 1)
        BY <2>2, <3>2, <4>1
      <4>3. k # 0 => h[k - 1] = g[k - 1]
        BY <4>2
      <4> HIDE DEF h
      <4> QED BY <2>3, <4>1, <4>2, <4>3
    <3> QED BY <3>1, <3>2
  <2>5. P(n + 1, h)
    <3>1. h = [k \in 0..(n + 1) |-> h[k]]
      OBVIOUS
    <3> HIDE DEF h, size
    <3> QED BY <2>4, <3>1
  <2> HIDE DEF P, h
  <2> QED BY <2>2, <2>5
<1> HIDE DEF S, P
<1>4. Len(s) \in S
  <2>1. \A k \in 0..Len(s) : k \in S
    BY <1>1, <1>2, <1>3, UpTo
  <2> QED BY <1>1, <2>1
<1> USE DEF S, P
<1> QED BY <1>4 DEF Sums

\* What sums up the same entries agrees, also from the middle of another sum.
LEMMA SumsFacts ==
    ASSUME log \in Seq(Logs!Entry), NEW s \in Seq(Positions), NEW g, Sums(g, s)
    PROVE  /\ \A k \in 0..Len(s) : g[k] \in Nat
           /\ g[0] = 0
           /\ \A k \in 1..Len(s) : g[k] = g[k - 1] + log[s[k]].size
<1> DEFINE S == {k \in 0..Len(s) : g[k] \in Nat}
           size(k) == log[s[k]].size
<1>1. Len(s) \in Nat
  OBVIOUS
<1>2. \A k \in 0..Len(s) : g[k] = IF k = 0 THEN 0 ELSE g[k - 1] + size(k)
  <2>1. g = [k \in 0..Len(s) |-> IF k = 0 THEN 0 ELSE g[k - 1] + size(k)]
    BY DEF Sums
  <2> HIDE DEF size
  <2> QED BY <2>1
<1>3. \A k \in 1..Len(s) : size(k) \in Nat
  BY EntrySize
<1> HIDE DEF size
<1>4. g[0] = 0 /\ 0 \in S
  BY <1>1, <1>2
<1>5. ASSUME NEW k \in 0..(Len(s) - 1), k \in S PROVE k + 1 \in S
  <2>1. k + 1 \in 1..Len(s) /\ k + 1 \in 0..Len(s) /\ k + 1 # 0 /\ (k + 1) - 1 = k /\ g[k] \in Nat
    BY <1>1, <1>5
  <2>2. g[k + 1] = g[k] + size(k + 1) /\ size(k + 1) \in Nat
    BY <1>2, <1>3, <2>1
  <2>3. g[k + 1] \in Nat
    BY <2>1, <2>2
  <2> QED BY <2>1, <2>3
<1>6. \A k \in 0..Len(s) : k \in S
  <2> HIDE DEF S
  <2> QED BY <1>1, <1>4, <1>5, UpTo
<1>7. \A k \in 1..Len(s) : k \in 0..Len(s) /\ k # 0
  BY <1>1
<1> QED BY <1>2, <1>4, <1>6, <1>7 DEF size

LEMMA BytesIs ==
    ASSUME log \in Seq(Logs!Entry), NEW s \in Seq(Positions)
    PROVE  \E g : Sums(g, s) /\ Logs!Bytes(s) = g[Len(s)]
<1> DEFINE c == CHOOSE g : Sums(g, s)
<1>1. Sums(c, s)
  BY SumsExist
<1>2. Logs!Bytes(s) = c[Len(s)]
  BY DEF Logs!Bytes, Sums
<1> HIDE DEF c
<1> QED BY <1>1, <1>2

LEMMA BytesTypes ==
    ASSUME log \in Seq(Logs!Entry), NEW s \in Seq(Positions)
    PROVE  Logs!Bytes(s) \in Nat
<1>1. PICK g : Sums(g, s) /\ Logs!Bytes(s) = g[Len(s)]
  BY BytesIs
<1>2. Len(s) \in 0..Len(s)
  <2>1. Len(s) \in Nat
    OBVIOUS
  <2> QED BY <2>1
<1> QED BY <1>1, <1>2, SumsFacts

LEMMA BytesAppend ==
    ASSUME log \in Seq(Logs!Entry), NEW s \in Seq(Positions), NEW i \in Positions
    PROVE  Logs!Bytes(Append(s, i)) = Logs!Bytes(s) + log[i].size
<1> DEFINE t == Append(s, i)
<1>1. /\ t \in Seq(Positions) /\ Len(t) = Len(s) + 1 /\ t[Len(s) + 1] = i /\ Len(s) \in Nat
      /\ \A k \in 1..Len(s) : t[k] = s[k]
  OBVIOUS
<1> HIDE DEF t
<1>2. PICK g : Sums(g, s) /\ Logs!Bytes(s) = g[Len(s)]
  BY BytesIs
<1>3. PICK h : Sums(h, t) /\ Logs!Bytes(t) = h[Len(t)]
  BY <1>1, BytesIs
<1>4. /\ \A k \in 0..Len(s) : g[k] \in Nat
      /\ g[0] = 0
      /\ \A k \in 1..Len(s) : g[k] = g[k - 1] + log[s[k]].size
  BY <1>2, SumsFacts
<1>5. /\ h[0] = 0
      /\ \A k \in 1..Len(t) : h[k] = h[k - 1] + log[t[k]].size
  BY <1>1, <1>3, SumsFacts
<1> DEFINE S == {k \in 0..Len(s) : h[k] = g[k]}
<1>6. 0 \in S
  BY <1>1, <1>4, <1>5
<1>7. ASSUME NEW k \in 0..(Len(s) - 1), k \in S PROVE k + 1 \in S
  <2>1. /\ k + 1 \in 1..Len(s) /\ k + 1 \in 1..Len(t) /\ k + 1 \in 0..Len(s)
        /\ (k + 1) - 1 = k /\ h[k] = g[k]
    BY <1>1, <1>7
  <2>2. h[k + 1] = g[k] + log[s[k + 1]].size /\ g[k + 1] = g[k] + log[s[k + 1]].size
    BY <1>1, <1>4, <1>5, <2>1
  <2> QED BY <2>1, <2>2
<1>8. h[Len(s)] = g[Len(s)]
  <2> HIDE DEF S
  <2>1. \A k \in 0..Len(s) : k \in S
    BY <1>1, <1>6, <1>7, UpTo
  <2> QED BY <1>1, <2>1 DEF S
<1>9. h[Len(s) + 1] = h[Len(s)] + log[i].size
  <2>1. Len(s) + 1 \in 1..Len(t) /\ (Len(s) + 1) - 1 = Len(s)
    BY <1>1
  <2> QED BY <1>1, <1>5, <2>1
<1>10. Len(s) \in 0..Len(s)
  BY <1>1
<1> QED BY <1>1, <1>2, <1>3, <1>4, <1>8, <1>9, <1>10 DEF t

LEMMA BytesEmpty == log \in Seq(Logs!Entry) => Logs!Bytes(<< >>) = 0
<1> SUFFICES ASSUME log \in Seq(Logs!Entry) PROVE Logs!Bytes(<< >>) = 0
  OBVIOUS
<1> DEFINE e == << >>
<1>1. e \in Seq(Positions) /\ Len(e) = 0
  OBVIOUS
<1> HIDE DEF e
<1>2. PICK g : Sums(g, e) /\ Logs!Bytes(e) = g[Len(e)]
  BY <1>1, BytesIs
<1>3. g[0] = 0
  BY <1>1, <1>2, SumsFacts
<1> QED BY <1>1, <1>2, <1>3 DEF e

\* An end of a sequence retains no more than the whole.
LEMMA BytesEnd ==
    ASSUME log \in Seq(Logs!Entry), NEW s \in Seq(Positions), NEW m \in 0..Len(s)
    PROVE  Logs!Bytes(SubSeq(s, m + 1, Len(s))) <= Logs!Bytes(s)
<1> DEFINE t == SubSeq(s, m + 1, Len(s))
<1>1. /\ t \in Seq(Positions) /\ Len(t) = Len(s) - m /\ Len(s) \in Nat /\ m \in Nat
      /\ \A k \in 1..(Len(s) - m) : t[k] = s[m + k]
  OBVIOUS
<1> HIDE DEF t
<1>2. PICK g : Sums(g, s) /\ Logs!Bytes(s) = g[Len(s)]
  BY BytesIs
<1>3. PICK h : Sums(h, t) /\ Logs!Bytes(t) = h[Len(t)]
  BY <1>1, BytesIs
<1>4. /\ \A k \in 0..Len(s) : g[k] \in Nat
      /\ \A k \in 1..Len(s) : g[k] = g[k - 1] + log[s[k]].size
  BY <1>2, SumsFacts
<1>5. /\ h[0] = 0 /\ \A k \in 0..Len(t) : h[k] \in Nat
      /\ \A k \in 1..Len(t) : h[k] = h[k - 1] + log[t[k]].size
  BY <1>1, <1>3, SumsFacts
<1> DEFINE S == {k \in 0..Len(t) : h[k] + g[m] = g[m + k]}
<1>6. 0 \in S
  <2>1. m + 0 = m /\ m \in 0..Len(s) /\ 0 \in 0..Len(t)
    BY <1>1
  <2>2. g[m] \in Nat
    BY <1>4
  <2> QED BY <1>5, <2>1, <2>2
<1>7. ASSUME NEW k \in 0..(Len(t) - 1), k \in S PROVE k + 1 \in S
  <2>1. /\ k + 1 \in 1..Len(t) /\ k + 1 \in 0..Len(t) /\ k \in 0..Len(t)
        /\ m + (k + 1) \in 1..Len(s) /\ k + 1 \in 1..(Len(s) - m)
        /\ (k + 1) - 1 = k /\ (m + (k + 1)) - 1 = m + k /\ m + k \in 0..Len(s)
        /\ m \in 0..Len(s)
    BY <1>1
  <2>2. h[k] + g[m] = g[m + k]
    BY <1>7
  <2>3. /\ h[k + 1] = h[k] + log[s[m + (k + 1)]].size
        /\ g[m + (k + 1)] = g[m + k] + log[s[m + (k + 1)]].size
    BY <1>1, <1>4, <1>5, <2>1
  <2>4. /\ h[k] \in Nat /\ g[m] \in Nat /\ g[m + k] \in Nat
        /\ log[s[m + (k + 1)]].size \in Nat
    BY <1>4, <1>5, <2>1, EntrySize
  <2>5. h[k + 1] + g[m] = g[m + (k + 1)]
    BY <2>2, <2>3, <2>4
  <2> QED BY <2>1, <2>5
<1>8. h[Len(t)] + g[m] = g[Len(s)]
  <2> HIDE DEF S
  <2>1. \A k \in 0..Len(t) : k \in S
    <3>1. Len(t) \in Nat
      BY <1>1
    <3> QED BY <1>6, <1>7, <3>1, UpTo
  <2>2. Len(t) \in 0..Len(t) /\ m + Len(t) = Len(s)
    BY <1>1
  <2> QED BY <2>1, <2>2 DEF S
<1>9. h[Len(t)] \in Nat /\ g[m] \in Nat /\ g[Len(s)] \in Nat
  <2>1. Len(t) \in 0..Len(t) /\ Len(s) \in 0..Len(s)
    BY <1>1
  <2> QED BY <1>4, <1>5, <2>1
<1>10. Logs!Bytes(t) <= Logs!Bytes(s)
  BY <1>2, <1>3, <1>8, <1>9
<1> QED BY <1>10 DEF t

\* The selection goes on entry by entry.
LEMMA SelectionIs ==
    ASSUME log \in Seq(Logs!Entry)
    PROVE  /\ Logs!Selection[0] = << >>
           /\ \A n \in 1..Len(log) :
                  Logs!Selection[n] = IF log[n].selected THEN Append(Logs!Selection[n - 1], n)
                                      ELSE Logs!Selection[n - 1]
<1> DEFINE next(f, n) == IF log[n].selected THEN Append(f, n) ELSE f
           P(n, g) == g = [k \in 0..n |-> IF k = 0 THEN << >> ELSE next(g[k - 1], k)]
           S == {n \in 0..Len(log) : \E g : P(n, g)}
<1>1. Len(log) \in Nat
  OBVIOUS
<1>2. 0 \in S
  <2> DEFINE g == [k \in 0..0 |-> << >>]
  <2>1. P(0, g)
    OBVIOUS
  <2> HIDE DEF P, g
  <2>2. 0 \in 0..Len(log) /\ \E f : P(0, f)
    BY <1>1, <2>1
  <2> QED BY <2>2
<1>3. ASSUME NEW n \in 0..(Len(log) - 1), n \in S PROVE n + 1 \in S
  <2>1. PICK g : P(n, g)
    BY <1>3
  <2> DEFINE h == [k \in 0..(n + 1) |-> IF k = n + 1 THEN next(g[n], n + 1) ELSE g[k]]
  <2>2. n + 1 \in 0..Len(log) /\ n \in Nat
    BY <1>1
  <2>3. \A k \in 0..n : g[k] = IF k = 0 THEN << >> ELSE next(g[k - 1], k)
    <3> HIDE DEF next
    <3> QED BY <2>1
  <2>4. ASSUME NEW k \in 0..(n + 1)
        PROVE  h[k] = IF k = 0 THEN << >> ELSE next(h[k - 1], k)
    <3> HIDE DEF next
    <3>1. CASE k = n + 1
      <4>1. k - 1 = n /\ k - 1 \in 0..(n + 1) /\ k - 1 # n + 1 /\ k # 0
        BY <2>2, <3>1
      <4>2. h[k - 1] = g[n] /\ h[k] = next(g[n], n + 1)
        BY <3>1, <4>1
      <4> HIDE DEF h
      <4> QED BY <3>1, <4>1, <4>2
    <3>2. CASE k # n + 1
      <4>1. k \in 0..n
        BY <2>2, <3>2
      <4>2. h[k] = g[k] /\ (k # 0 => k - 1 \in 0..(n + 1) /\ k - 1 # n + 1)
        BY <2>2, <3>2, <4>1
      <4>3. k # 0 => h[k - 1] = g[k - 1]
        BY <4>2
      <4> HIDE DEF h
      <4> QED BY <2>3, <4>1, <4>2, <4>3
    <3> QED BY <3>1, <3>2
  <2>5. P(n + 1, h)
    <3>1. h = [k \in 0..(n + 1) |-> h[k]]
      OBVIOUS
    <3> HIDE DEF h, next
    <3> QED BY <2>4, <3>1
  <2> HIDE DEF P, h
  <2> QED BY <2>2, <2>5
<1>4. \E g : P(Len(log), g)
  <2> HIDE DEF S, P
  <2>1. \A k \in 0..Len(log) : k \in S
    BY <1>1, <1>2, <1>3, UpTo
  <2>2. Len(log) \in S
    BY <1>1, <2>1
  <2> QED BY <2>2 DEF S
<1>5. Logs!Selection = CHOOSE g : P(Len(log), g)
  BY DEF Logs!Selection
<1>6. P(Len(log), Logs!Selection)
  <2> HIDE DEF P
  <2> QED BY <1>4, <1>5
<1>7. \A k \in 0..Len(log) :
          Logs!Selection[k] = IF k = 0 THEN << >> ELSE next(Logs!Selection[k - 1], k)
  <2> DEFINE sel == Logs!Selection
  <2>1. sel = [k \in 0..Len(log) |-> IF k = 0 THEN << >> ELSE next(sel[k - 1], k)]
    BY <1>6
  <2> HIDE DEF sel, next
  <2>2. \A k \in 0..Len(log) : sel[k] = IF k = 0 THEN << >> ELSE next(sel[k - 1], k)
    BY <2>1
  <2> QED BY <2>2 DEF sel
<1> HIDE DEF P, S
<1>8. 0 \in 0..Len(log) /\ \A n \in 1..Len(log) : n \in 0..Len(log) /\ n # 0
  BY <1>1
<1> QED BY <1>7, <1>8

LEMMA SelectionTypes ==
    ASSUME log \in Seq(Logs!Entry)
    PROVE  \A n \in 0..Len(log) : Logs!Selection[n] \in Seq(Positions)
<1> DEFINE S == {n \in 0..Len(log) : Logs!Selection[n] \in Seq(Positions)}
<1>1. Len(log) \in Nat
  OBVIOUS
<1>2. 0 \in S
  <2>1. Logs!Selection[0] = << >> /\ 0 \in 0..Len(log) /\ << >> \in Seq(Positions)
    BY <1>1, SelectionIs
  <2>2. Logs!Selection[0] \in Seq(Positions)
    BY <2>1
  <2> QED BY <2>1, <2>2
<1>3. ASSUME NEW n \in 0..(Len(log) - 1), n \in S PROVE n + 1 \in S
  <2>1. n + 1 \in 1..Len(log) /\ (n + 1) - 1 = n /\ n + 1 \in 0..Len(log)
    BY <1>1
  <2>2. Logs!Selection[n + 1] \in {Append(Logs!Selection[n], n + 1), Logs!Selection[n]}
    BY <2>1, SelectionIs
  <2>3. Append(Logs!Selection[n], n + 1) \in Seq(Positions)
    BY <1>3, <2>1 DEF Positions
  <2> QED BY <1>3, <2>1, <2>2, <2>3
<1> HIDE DEF S
<1>4. \A n \in 0..Len(log) : n \in S
  BY <1>1, <1>2, <1>3, UpTo
<1> QED BY <1>4 DEF S

\* What is selected retains no less when the walk goes on.
LEMMA SelectionGrows ==
    ASSUME log \in Seq(Logs!Entry), NEW a \in 0..Len(log)
    PROVE  Logs!Bytes(Logs!Selection[a]) <= Logs!Bytes(Logs!Selected)
<1> DEFINE bytes(n) == Logs!Bytes(Logs!Selection[n])
           S == {k \in 0..(Len(log) - a) : bytes(a) <= bytes(a + k)}
<1>1. Len(log) \in Nat /\ a \in Nat /\ Len(log) - a \in Nat
  OBVIOUS
<1>2. ASSUME NEW n \in 0..Len(log) PROVE bytes(n) \in Nat
  <2>1. Logs!Selection[n] \in Seq(Positions)
    BY SelectionTypes
  <2> QED BY <2>1, BytesTypes
<1>3. 0 \in S
  <2>1. a + 0 = a /\ bytes(a) \in Nat /\ 0 \in 0..(Len(log) - a)
    BY <1>1, <1>2
  <2> HIDE DEF bytes
  <2> QED BY <2>1
<1>4. ASSUME NEW k \in 0..((Len(log) - a) - 1), k \in S PROVE k + 1 \in S
  <2> DEFINE n == a + (k + 1)
  <2>1. /\ n \in 1..Len(log) /\ n - 1 = a + k /\ a + k \in 0..Len(log) /\ n \in Positions
        /\ k + 1 \in 0..(Len(log) - a)
    BY <1>1 DEF Positions
  <2>2. Logs!Selection[a + k] \in Seq(Positions)
    BY <2>1, SelectionTypes
  <2>3. bytes(a) <= bytes(a + k) /\ bytes(a) \in Nat /\ bytes(a + k) \in Nat
    BY <1>2, <1>4, <2>1
  <2>4. log[n].size \in Nat
    <3>1. log[n] \in Logs!Entry
      <4> HIDE DEF n
      <4> QED BY <2>1
    <3> HIDE DEF n
    <3> QED BY <3>1, ComponentsAssumption DEF Logs!Entry, Logs!LogQueryAssumption
  <2>5. bytes(n) \in {bytes(a + k), bytes(a + k) + log[n].size}
    <3> HIDE DEF n
    <3>1. Logs!Selection[n] \in {Append(Logs!Selection[a + k], n), Logs!Selection[a + k]}
      BY <2>1, SelectionIs
    <3>2. Logs!Bytes(Append(Logs!Selection[a + k], n)) = bytes(a + k) + log[n].size
      BY <2>1, <2>2, BytesAppend
    <3> QED BY <3>1, <3>2
  <2> HIDE DEF n, bytes
  <2>6. bytes(a) <= bytes(n)
    BY <2>3, <2>4, <2>5
  <2> QED BY <2>1, <2>6 DEF n
<1>5. bytes(a) <= bytes(Len(log))
  <2> HIDE DEF S
  <2>1. \A k \in 0..(Len(log) - a) : k \in S
    BY <1>1, <1>3, <1>4, UpTo
  <2>2. Len(log) - a \in S /\ a + (Len(log) - a) = Len(log)
    BY <1>1, <2>1
  <2> HIDE DEF bytes
  <2> QED BY <2>2 DEF S
<1> QED BY <1>5 DEF Logs!Selected

\* The longest end within a length.
LEMMA EndByLength ==
    ASSUME NEW s \in Seq(Positions), query.limit \in Nat \ {0}
    PROVE  LET c == IF Len(s) <= query.limit THEN 0 ELSE Len(s) - query.limit
               wanted == Logs!LongestEnd(s, LAMBDA e : Len(e) <= query.limit) IN
           wanted = SubSeq(s, c + 1, Len(s)) /\ c \in 0..Len(s)
<1> DEFINE c == IF Len(s) <= query.limit THEN 0 ELSE Len(s) - query.limit
           P(n) == /\ Len(SubSeq(s, n + 1, Len(s))) <= query.limit
                   /\ \A m \in 0..(n - 1) : ~ (Len(SubSeq(s, m + 1, Len(s))) <= query.limit)
           d == CHOOSE n \in 0..Len(s) : P(n)
<1>1. Len(s) \in Nat /\ query.limit \in Nat /\ c \in 0..Len(s)
  OBVIOUS
<1>2. \A m \in 0..Len(s) : Len(SubSeq(s, m + 1, Len(s))) = Len(s) - m
  BY <1>1
<1>3. P(c)
  <2>1. Len(SubSeq(s, c + 1, Len(s))) <= query.limit
    BY <1>1, <1>2
  <2>2. ASSUME NEW m \in 0..(c - 1)
        PROVE  ~ (Len(SubSeq(s, m + 1, Len(s))) <= query.limit)
    <3>1. m \in 0..Len(s) /\ Len(s) - m > query.limit
      BY <1>1
    <3> QED BY <1>1, <1>2, <3>1
  <2> QED BY <2>1, <2>2
<1>4. ASSUME NEW n \in 0..Len(s), P(n) PROVE n = c
  <2>1. Len(s) - n <= query.limit
    BY <1>2, <1>4
  <2>2. ~ (c < n)
    <3> SUFFICES ASSUME c < n PROVE FALSE
      OBVIOUS
    <3>1. c \in 0..(n - 1)
      BY <1>1
    <3>2. ~ (Len(SubSeq(s, c + 1, Len(s))) <= query.limit)
      BY <1>4, <3>1
    <3> QED BY <1>3, <3>2
  <2> QED BY <1>1, <2>1, <2>2
<1>5. Logs!LongestEnd(s, LAMBDA e : Len(e) <= query.limit) = SubSeq(s, d + 1, Len(s))
  BY DEF Logs!LongestEnd
<1>6. d = c
  <2> HIDE DEF c, P
  <2> QED BY <1>1, <1>3, <1>4
<1> HIDE DEF d
<1> QED BY <1>1, <1>5, <1>6

\* The longest end within the budget.
LEMMA EndByBytes ==
    ASSUME log \in Seq(Logs!Entry), NEW s \in Seq(Positions), query.budget \in Nat
    PROVE  \E c \in 0..Len(s) :
               /\ Logs!LongestEnd(s, LAMBDA e : Logs!Bytes(e) <= query.budget)
                      = SubSeq(s, c + 1, Len(s))
               /\ Logs!Bytes(SubSeq(s, c + 1, Len(s))) <= query.budget
               /\ \A m \in 0..(c - 1) :
                      ~ (Logs!Bytes(SubSeq(s, m + 1, Len(s))) <= query.budget)
<1> DEFINE bytes(m) == Logs!Bytes(SubSeq(s, m + 1, Len(s)))
           P(n) == /\ bytes(n) <= query.budget
                   /\ \A m \in 0..(n - 1) : ~ (bytes(m) <= query.budget)
           d == CHOOSE n \in 0..Len(s) : P(n)
           Fit == {n \in 0..Len(s) : bytes(n) <= query.budget}
<1>1. Len(s) \in Nat
  OBVIOUS
<1>2. Len(s) \in Fit
  <2>1. SubSeq(s, Len(s) + 1, Len(s)) = << >>
    BY <1>1
  <2>2. bytes(Len(s)) = 0
    BY <2>1, BytesEmpty
  <2> HIDE DEF bytes
  <2> QED BY <1>1, <2>2
<1>3. \E n \in 0..Len(s) : P(n)
  <2>1. Fit \in SUBSET Nat
    OBVIOUS
  <2> HIDE DEF Fit
  <2>2. PICK x \in Fit : \A y \in Fit : x <= y
    BY <1>2, <2>1, LeastMember
  <2> USE DEF Fit
  <2> HIDE DEF bytes
  <2>3. x \in 0..Len(s) /\ bytes(x) <= query.budget
    BY <2>2
  <2>4. ASSUME NEW m \in 0..(x - 1) PROVE ~ (bytes(m) <= query.budget)
    <3>1. m \in 0..Len(s) /\ ~ (x <= m)
      BY <1>1, <2>3
    <3> QED BY <2>2, <3>1
  <2> QED BY <2>3, <2>4
<1>4. d \in 0..Len(s) /\ P(d)
  <2> HIDE DEF P
  <2> QED BY <1>3
<1>5. Logs!LongestEnd(s, LAMBDA e : Logs!Bytes(e) <= query.budget) = SubSeq(s, d + 1, Len(s))
  BY DEF Logs!LongestEnd
<1> HIDE DEF d
<1> QED BY <1>4, <1>5

\* An end of an end is an end, and so is an end that goes on.
LEMMA EndsOfEnds ==
    ASSUME NEW S, NEW s \in Seq(S), NEW a \in 0..Len(s), NEW b \in 0..(Len(s) - a)
    PROVE  LET e == SubSeq(s, a + 1, Len(s)) IN
           /\ e \in Seq(S) /\ Len(e) = Len(s) - a
           /\ SubSeq(e, b + 1, Len(e)) = SubSeq(s, a + b + 1, Len(s))
<1> DEFINE e == SubSeq(s, a + 1, Len(s))
           c == SubSeq(e, b + 1, Len(e))
           d == SubSeq(s, a + b + 1, Len(s))
<1>1. Len(s) \in Nat /\ a \in Nat /\ b \in Nat /\ a + b <= Len(s)
  OBVIOUS
<1>2. e \in Seq(S) /\ Len(e) = Len(s) - a /\ \A i \in 1..(Len(s) - a) : e[i] = s[a + i]
  BY <1>1
<1> HIDE DEF e
<1>3. /\ c \in Seq(S) /\ Len(c) = Len(s) - a - b
      /\ \A i \in 1..(Len(s) - a - b) : c[i] = e[b + i]
  BY <1>1, <1>2
<1>4. /\ d \in Seq(S) /\ Len(d) = Len(s) - a - b
      /\ \A i \in 1..(Len(s) - a - b) : d[i] = s[a + b + i]
  BY <1>1
<1> HIDE DEF c, d
<1>5. ASSUME NEW i \in 1..Len(c) PROVE c[i] = d[i]
  <2>1. i \in 1..(Len(s) - a - b) /\ b + i \in 1..(Len(s) - a) /\ a + (b + i) = a + b + i
    BY <1>1, <1>3
  <2> QED BY <1>2, <1>3, <1>4, <2>1
<1>6. c = d
  BY <1>3, <1>4, <1>5, SeqEqual
<1> QED BY <1>2, <1>6 DEF c, d, e

LEMMA EndAppends ==
    ASSUME NEW S, NEW s \in Seq(S), NEW x \in S, NEW a \in 0..Len(s)
    PROVE  /\ SubSeq(Append(s, x), a + 1, Len(s) + 1) = Append(SubSeq(s, a + 1, Len(s)), x)
           /\ Append(s, x) \in Seq(S) /\ Len(Append(s, x)) = Len(s) + 1
<1> DEFINE t == Append(s, x)
           c == SubSeq(t, a + 1, Len(s) + 1)
           e == SubSeq(s, a + 1, Len(s))
           d == Append(e, x)
<1>1. Len(s) \in Nat /\ a \in Nat /\ a <= Len(s)
  OBVIOUS
<1>2. /\ t \in Seq(S) /\ Len(t) = Len(s) + 1 /\ t[Len(s) + 1] = x
      /\ \A i \in 1..Len(s) : t[i] = s[i]
  OBVIOUS
<1> HIDE DEF t
<1>3. /\ c \in Seq(S) /\ Len(c) = Len(s) + 1 - a
      /\ \A i \in 1..(Len(s) + 1 - a) : c[i] = t[a + i]
  BY <1>1, <1>2
<1>4. e \in Seq(S) /\ Len(e) = Len(s) - a /\ \A i \in 1..(Len(s) - a) : e[i] = s[a + i]
  BY <1>1
<1> HIDE DEF e
<1>5. /\ d \in Seq(S) /\ Len(d) = Len(e) + 1 /\ d[Len(e) + 1] = x
      /\ \A i \in 1..Len(e) : d[i] = e[i]
  BY <1>4
<1> HIDE DEF c, d
<1>6. ASSUME NEW i \in 1..Len(c) PROVE c[i] = d[i]
  <2>1. CASE i <= Len(s) - a
    <3>1. i \in 1..(Len(s) - a) /\ i \in 1..Len(e) /\ a + i \in 1..Len(s) /\ i \in 1..(Len(s) + 1 - a)
      BY <1>1, <1>3, <1>4, <2>1
    <3> QED BY <1>2, <1>3, <1>4, <1>5, <3>1
  <2>2. CASE ~ (i <= Len(s) - a)
    <3>1. i = Len(e) + 1 /\ a + i = Len(s) + 1 /\ i \in 1..(Len(s) + 1 - a)
      BY <1>1, <1>3, <1>4, <2>2
    <3> QED BY <1>2, <1>3, <1>5, <3>1
  <2> QED BY <2>1, <2>2
<1>7. Len(c) = Len(d)
  BY <1>1, <1>3, <1>4, <1>5
<1>8. c = d
  BY <1>3, <1>5, <1>6, <1>7, SeqEqual
<1> QED BY <1>2, <1>8 DEF c, d, e, t

(***************************************************************************)
(* The invariant of the walk.                                              *)
(***************************************************************************)

\* What the positions s of the log l retain, the entries being an argument.
BytesOf(l, s) ==
    LET sum[n \in 0..Len(s)] == IF n = 0 THEN 0 ELSE sum[n - 1] + l[s[n]].size
    IN  sum[Len(s)]

LEMMA BytesAre == \A s : Logs!Bytes(s) = BytesOf(log, s)
BY DEF Logs!Bytes, BytesOf

\* The end of s after its first n entries.
After(s, n) == SubSeq(s, n + 1, Len(s))

LogTypes ==
    /\ log \in Seq(Logs!Entry) /\ at \in 0..Len(log) /\ kept \in Seq(Positions)
    /\ query.command \in {"list", "show", "export"}
    /\ query.command = "list" => query.limit \in Nat \ {0}
    /\ query.command \in {"list", "show"} => query.budget \in Nat
    /\ query.command = "export" => query.path \in {Logs!NoFile, Logs!FormerFile}
    /\ query.command = "list" => result \in {"none", "listed", "exceeds"}
    /\ query.command = "show" => result \in {"none", "shown", "not found", "exceeds"}
    /\ query.command = "export" => result \in {"none", "exported", "failed", "killed"}

\* list keeps an end of what was selected so far.  The last entry given up for
\* its size did not fit with those after it; and as many are kept as the limit
\* allows, but for that one.
ListKeeps ==
    LET sel == Logs!Selection[at]
        given_up == matching - Len(kept) IN
    /\ matching = Len(sel) /\ given_up \in 0..matching /\ kept = After(sel, given_up)
    /\ Len(kept) <= query.limit /\ BytesOf(log, kept) <= query.budget
    /\ lastBudgetDrop \in 0..given_up
    /\ lastBudgetDrop > 0 => ~ (BytesOf(log, After(sel, lastBudgetDrop - 1)) <= query.budget)
    /\ given_up <= lastBudgetDrop \/ given_up <= matching - query.limit

ShowKeeps == kept = Logs!Selection[at] /\ BytesOf(log, kept) <= query.budget

\* The answers, with the end that list is asked for spelled out.
Newest ==
    LET m == Len(Logs!Selected) IN
    After(Logs!Selected, IF m <= query.limit THEN 0 ELSE m - query.limit)
Wanted == IF query.command = "list" THEN Newest ELSE Logs!Selected

Answered ==
    query.command \in {"list", "show"} =>
        /\ result \in {"listed", "shown", "not found"} =>
               BytesOf(log, Wanted) <= query.budget /\ kept = Wanted
        /\ result = "not found" => Wanted = << >>
        /\ result = "exceeds" => ~ (BytesOf(log, Wanted) <= query.budget)

\* What stands in line k of a whole export, and what an export has written.
Line == [kind : {"entry", "checkpoint"}, seq : Nat]
LineOf(k) == IF k <= Len(log) THEN Logs!Exported(k) ELSE Logs!Checkpoint(Len(log))

Written ==
    LET n == Len(export.lines) IN
    /\ query.path = Logs!NoFile
    /\ export = Logs!Made(export.lines, export.durable)
    /\ export.lines \in Seq(Line) /\ n <= Len(log) + 1
    /\ \A k \in 1..n : export.lines[k] = LineOf(k)
    /\ n <= Len(log) => at = n

ExportKeeps ==
    /\ export.by = "export" => Written
    /\ export.by # "export" => export = query.path
    /\ export.by # "export" /\ result = "none" => at = 0
    /\ result = "exported" =>
           export.by = "export" /\ export.durable = TRUE /\ Len(export.lines) = Len(log) + 1
    /\ result = "failed" => export.by # "export"

LogInv ==
    part = "logs" =>
        /\ LogTypes /\ Answered
        /\ query.command = "list" => ListKeeps
        /\ query.command = "show" /\ result = "none" => ShowKeeps
        /\ query.command = "export" => ExportKeeps

LEMMA InitLogInv == PartInit => LogInv
<1> SUFFICES ASSUME PartInit, part = "logs"
             PROVE  /\ LogTypes /\ Answered
                    /\ query.command = "list" => ListKeeps
                    /\ query.command = "show" /\ result = "none" => ShowKeeps
                    /\ query.command = "export" => ExportKeeps
  BY DEF LogInv
<1>1. Logs!Init
  BY DEF PartInit
<1>2. log \in Seq(Logs!Entry) /\ Len(log) \in Nat
  <2>1. PICK n \in 0..MaxEntries : log \in [1..n -> Logs!Entry]
    BY <1>1 DEF Logs!Init
  <2>2. n \in Nat
    BY <2>1
  <2> QED BY <2>1, <2>2
<1>3. /\ at = 0 /\ kept = << >> /\ matching = 0 /\ lastBudgetDrop = 0 /\ result = "none"
      /\ export = IF query.command = "export" THEN query.path ELSE Logs!NoFile
  BY <1>1 DEF Logs!Init
<1>4. \/ query \in [command : {"list"}, limit : ListLimits, budget : MemoryBudgets]
      \/ query \in [command : {"show"}, budget : MemoryBudgets]
      \/ query \in [command : {"export"}, path : {Logs!NoFile, Logs!FormerFile}]
  BY <1>1 DEF Logs!Init
<1>5. ListLimits \subseteq Nat \ {0} /\ MemoryBudgets \subseteq Nat
  BY ComponentsAssumption DEF Logs!LogQueryAssumption
<1>6. LogTypes
  <2>1. /\ query.command \in {"list", "show", "export"}
        /\ query.command = "list" => query.limit \in Nat \ {0}
        /\ query.command \in {"list", "show"} => query.budget \in Nat
        /\ query.command = "export" => query.path \in {Logs!NoFile, Logs!FormerFile}
    BY <1>4, <1>5
  <2>2. at \in 0..Len(log) /\ kept \in Seq(Positions)
    BY <1>2, <1>3
  <2> QED BY <1>2, <1>3, <2>1, <2>2 DEF LogTypes
<1>7. Answered
  BY <1>3 DEF Answered
<1>8. Logs!Selection[at] = << >> /\ Len(<< >>) = 0 /\ BytesOf(log, << >>) = 0
  BY <1>2, <1>3, SelectionIs, BytesEmpty, BytesAre
<1>9. query.command = "list" => ListKeeps
  <2> SUFFICES ASSUME query.command = "list" PROVE ListKeeps
    OBVIOUS
  <2>1. query.limit \in Nat /\ query.budget \in Nat
    BY <1>6 DEF LogTypes
  <2>2. After(<< >>, 0) = << >>
    <3> DEFINE e == SubSeq(<< >>, 0 + 1, Len(<< >>))
    <3>1. e = SubSeq(<< >>, 1, 0)
      BY <1>8
    <3>2. SubSeq(<< >>, 1, 0) = << >>
      OBVIOUS
    <3> QED BY <3>1, <3>2 DEF After
  <2>3. Len(kept) = 0 /\ BytesOf(log, kept) = 0 /\ matching - Len(kept) = 0
    <3>1. kept = << >>
      BY <1>3
    <3>2. Len(kept) = Len(<< >>) /\ BytesOf(log, kept) = BytesOf(log, << >>)
      BY ONLY <3>1, Zenon
    <3>3. Len(kept) = 0 /\ BytesOf(log, kept) = 0
      BY ONLY <1>8, <3>2, Zenon
    <3>4. matching = 0
      BY <1>3
    <3>5. matching - Len(kept) = 0
      BY ONLY <3>3, <3>4
    <3> QED BY ONLY <3>3, <3>5
  <2>4. matching = Len(Logs!Selection[at]) /\ kept = After(Logs!Selection[at], 0)
    BY <1>3, <1>8, <2>2
  <2> QED BY <1>3, <2>1, <2>3, <2>4 DEF ListKeeps
<1>10. query.command = "show" => ShowKeeps
  <2> SUFFICES ASSUME query.command = "show" PROVE ShowKeeps
    OBVIOUS
  <2>1. query.budget \in Nat
    BY <1>6 DEF LogTypes
  <2> QED BY <1>3, <1>8, <2>1 DEF ShowKeeps
<1>11. query.command = "export" => ExportKeeps
  <2> SUFFICES ASSUME query.command = "export" PROVE ExportKeeps
    OBVIOUS
  <2>1. export = query.path /\ query.path \in {Logs!NoFile, Logs!FormerFile}
    BY <1>3, <1>6 DEF LogTypes
  <2>2. export.by # "export"
    BY <2>1 DEF Logs!NoFile, Logs!FormerFile
  <2> QED BY <1>3, <2>1, <2>2 DEF ExportKeeps
<1> QED BY <1>6, <1>7, <1>9, <1>10, <1>11

LEMMA AfterAfter ==
    ASSUME NEW S, NEW s \in Seq(S), NEW a \in 0..Len(s)
    PROVE  /\ After(s, a) \in Seq(S) /\ Len(After(s, a)) = Len(s) - a
           /\ \A b \in 0..Len(After(s, a)) : After(After(s, a), b) = After(s, a + b)
<1>1. After(s, a) \in Seq(S) /\ Len(After(s, a)) = Len(s) - a
  BY DEF After
<1>2. ASSUME NEW b \in 0..Len(After(s, a)) PROVE After(After(s, a), b) = After(s, a + b)
  <2>1. b \in 0..(Len(s) - a)
    BY <1>1
  <2> QED BY <2>1, EndsOfEnds DEF After
<1> QED BY <1>1, <1>2

LEMMA AfterAppends ==
    ASSUME NEW S, NEW s \in Seq(S), NEW x \in S, NEW a \in 0..Len(s)
    PROVE  After(Append(s, x), a) = Append(After(s, a), x)
BY EndAppends DEF After

\* The two ends that Visit takes.
Longest == Logs!LongestEnd(Append(kept, at + 1), LAMBDA e : Len(e) <= query.limit)
Fitting(w) == Logs!LongestEnd(w, LAMBDA e : Logs!Bytes(e) <= query.budget)

\* One more selected entry is visited: what list keeps then, and what it gives up.
LEMMA VisitKeeps ==
    ASSUME LogTypes, ListKeeps, query.command = "list", at < Len(log), log[at + 1].selected,
           NEW window, window = Longest, NEW fitting, fitting = Fitting(window)
    PROVE  LET sel == Logs!Selection[at + 1]
               m == matching + 1
               given_up == m - Len(fitting)
               drop == IF fitting = window THEN lastBudgetDrop ELSE given_up IN
           /\ fitting \in Seq(Positions)
           /\ m = Len(sel) /\ given_up \in 0..m /\ fitting = After(sel, given_up)
           /\ Len(fitting) <= query.limit /\ BytesOf(log, fitting) <= query.budget
           /\ drop \in 0..given_up
           /\ drop > 0 => ~ (BytesOf(log, After(sel, drop - 1)) <= query.budget)
           /\ given_up <= drop \/ given_up <= m - query.limit
<1> DEFINE old == Logs!Selection[at]
           sel == Logs!Selection[at + 1]
           s == Append(kept, at + 1)
           over(e) == ~ (BytesOf(log, e) <= query.budget)
<1>1. /\ log \in Seq(Logs!Entry) /\ Len(log) \in Nat /\ at \in 0..Len(log)
      /\ query.limit \in Nat \ {0} /\ query.budget \in Nat /\ kept \in Seq(Positions)
      /\ Len(kept) \in Nat
  BY DEF LogTypes
<1>2. at + 1 \in Positions /\ at + 1 \in 1..Len(log) /\ (at + 1) - 1 = at
  BY <1>1 DEF Positions
<1>3. PICK c : c = matching - Len(kept)
  OBVIOUS
<1>4. /\ old \in Seq(Positions) /\ matching = Len(old) /\ c \in 0..Len(old)
      /\ kept = After(old, c)
      /\ lastBudgetDrop > 0 => over(After(old, lastBudgetDrop - 1))
  <2>1. old \in Seq(Positions)
    BY <1>1, SelectionTypes
  <2> QED BY <1>3, <2>1 DEF ListKeeps
<1>5. PICK m : m = matching + 1
  OBVIOUS
<1>6. /\ matching \in Nat /\ m \in Nat /\ c \in Nat /\ c <= matching
      /\ Len(kept) <= query.limit /\ Len(kept) = matching - c
      /\ lastBudgetDrop \in Nat /\ lastBudgetDrop <= c
      /\ c <= lastBudgetDrop \/ c <= matching - query.limit
  <2>1. matching \in Nat
    BY <1>4
  <2>2. /\ Len(kept) <= query.limit /\ lastBudgetDrop \in 0..c
        /\ c <= lastBudgetDrop \/ c <= matching - query.limit
    BY <1>3 DEF ListKeeps
  <2>3. c \in Nat /\ c <= matching
    BY <1>4, <2>1
  <2>4. lastBudgetDrop \in Nat /\ lastBudgetDrop <= c
    BY ONLY <2>2, <2>3
  <2>5. Len(kept) = matching - c
    BY ONLY <1>1, <1>3, <2>1
  <2> QED BY <1>5, <2>1, <2>2, <2>3, <2>4, <2>5
<1>7. sel = Append(old, at + 1)
  BY <1>1, <1>2, SelectionIs
<1> HIDE DEF old, sel
<1>8. sel \in Seq(Positions) /\ Len(sel) = m /\ c \in 0..Len(sel)
  <2>1. sel \in Seq(Positions) /\ Len(sel) = m
    BY <1>2, <1>4, <1>5, <1>7, EndAppends
  <2> QED BY ONLY <1>5, <1>6, <2>1
<1>9. s = After(sel, c) /\ s \in Seq(Positions) /\ Len(s) = m - c
  <2>1. s = After(sel, c)
    BY <1>2, <1>4, <1>7, AfterAppends
  <2> HIDE DEF s
  <2> QED BY ONLY <1>8, <2>1, AfterAfter
<1>10. PICK w \in 0..Len(s) :
           /\ window = After(s, w)
           /\ w = IF Len(s) <= query.limit THEN 0 ELSE Len(s) - query.limit
  <2>1. s \in Seq(Positions) /\ query.limit \in Nat \ {0}
    BY <1>1, <1>9
  <2> QED BY <2>1, EndByLength DEF After, Longest
<1> HIDE DEF s
<1>11. /\ w \in Nat /\ c + w <= m /\ m - (c + w) <= query.limit
       /\ w = 0 \/ c + w = m - query.limit
       /\ query.limit \in Nat /\ query.limit > 0
  <2>1. w \in 0..Len(s) /\ w = IF Len(s) <= query.limit THEN 0 ELSE Len(s) - query.limit
    BY <1>10
  <2>2. Len(s) = m - c /\ query.limit \in Nat \ {0}
    BY <1>1, <1>9
  <2> QED BY ONLY <1>5, <1>6, <2>1, <2>2
<1>12. PICK a : a = c + w
  OBVIOUS
<1>13. a \in 0..Len(sel) /\ a \in Nat /\ a <= m
  BY ONLY <1>6, <1>8, <1>11, <1>12
<1>14. window = After(sel, a) /\ window \in Seq(Positions) /\ Len(window) = m - a
  <2>1. window = After(sel, a)
    BY ONLY <1>8, <1>9, <1>10, <1>12, AfterAfter
  <2> QED BY ONLY <1>8, <1>13, <2>1, AfterAfter
<1>15. PICK b \in 0..Len(window) :
          /\ fitting = After(window, b)
          /\ BytesOf(log, After(window, b)) <= query.budget
          /\ \A k \in 0..(b - 1) : over(After(window, k))
  <2>1. PICK b \in 0..Len(window) :
            /\ fitting = SubSeq(window, b + 1, Len(window))
            /\ Logs!Bytes(SubSeq(window, b + 1, Len(window))) <= query.budget
            /\ \A k \in 0..(b - 1) :
                   ~ (Logs!Bytes(SubSeq(window, k + 1, Len(window))) <= query.budget)
    BY <1>1, <1>14, EndByBytes DEF Fitting
  <2> QED BY <2>1, BytesAre DEF After
<1>16. ASSUME NEW k \in 0..Len(window) PROVE After(window, k) = After(sel, a + k)
  BY ONLY <1>8, <1>13, <1>14, AfterAfter
<1>17. PICK g : g = m - Len(fitting)
  OBVIOUS
<1>18. b \in Nat /\ Len(window) \in Nat /\ b <= Len(window)
  BY <1>14, <1>15
<1>19. /\ fitting \in Seq(Positions) /\ Len(fitting) = Len(window) - b /\ g = a + b
       /\ fitting = After(sel, g)
  <2>1. fitting = After(sel, a + b)
    BY <1>15, <1>16
  <2>2. fitting \in Seq(Positions) /\ Len(fitting) = Len(window) - b
    BY ONLY <1>14, <1>15, AfterAfter
  <2>3. Len(window) = m - a
    BY <1>14
  <2>4. g = a + b
    BY ONLY <1>6, <1>13, <1>17, <1>18, <2>2, <2>3
  <2> QED BY <2>1, <2>2, <2>4
<1>20. BytesOf(log, fitting) <= query.budget
  BY <1>15
<1>21. g \in 0..m /\ Len(fitting) <= query.limit
  <2>1. Len(window) = m - a /\ Len(fitting) = Len(window) - b /\ g = a + b
    BY <1>14, <1>19
  <2> QED BY ONLY <1>6, <1>11, <1>12, <1>13, <1>18, <2>1
<1>22. PICK drop : drop = IF fitting = window THEN lastBudgetDrop ELSE g
  OBVIOUS
<1>23. /\ drop \in 0..g
       /\ drop > 0 => over(After(sel, drop - 1))
       /\ g <= drop \/ g <= m - query.limit
  <2>1. CASE b = 0
    <3>1. fitting = window
      <4>1. g = a
        BY ONLY <1>13, <1>19, <2>1
      <4> QED BY <1>14, <1>19, <4>1
    <3>2. drop = lastBudgetDrop /\ g = c + w
      <4>1. g = c + w
        BY ONLY <1>12, <1>13, <1>19, <2>1
      <4> QED BY <1>22, <3>1, <4>1
    <3>3. drop \in 0..g /\ (g <= drop \/ g <= m - query.limit)
      BY ONLY <1>5, <1>6, <1>11, <1>12, <3>2
    <3>4. ASSUME drop > 0 PROVE over(After(sel, drop - 1))
      <4>1. PICK k : k = lastBudgetDrop - 1
        OBVIOUS
      <4>2. k \in 0..Len(old)
        <5>1. Len(old) = matching
          BY <1>4
        <5> QED BY ONLY <1>6, <3>2, <3>4, <4>1, <5>1
      <4> DEFINE e == After(old, k)
      <4>3. over(e)
        BY <1>4, <3>2, <3>4, <4>1
      <4>4. After(sel, k) = Append(e, at + 1) /\ e \in Seq(Positions)
        BY <1>2, <1>4, <1>7, <4>2, AfterAfter, AfterAppends
      <4> HIDE DEF e
      <4>5. BytesOf(log, After(sel, k)) = BytesOf(log, e) + log[at + 1].size
        BY <1>1, <1>2, <4>4, BytesAppend, BytesAre
      <4>6. BytesOf(log, e) \in Nat /\ log[at + 1].size \in Nat
        <5>1. log[at + 1] \in Logs!Entry
          BY <1>1, <1>2
        <5>2. log[at + 1].size \in Nat
          BY <5>1, ComponentsAssumption DEF Logs!Entry, Logs!LogQueryAssumption
        <5> QED BY <1>1, <4>4, <5>2, BytesTypes, BytesAre
      <4>7. over(After(sel, k))
        <5>1. ~ (BytesOf(log, e) <= query.budget) /\ query.budget \in Nat
          BY <1>1, <4>3
        <5>2. ~ (BytesOf(log, After(sel, k)) <= query.budget)
          BY ONLY <4>5, <4>6, <5>1
        <5> QED BY <5>2
      <4> QED BY <3>2, <4>1, <4>7
    <3> QED BY <3>3, <3>4
  <2>2. CASE b # 0
    <3>1. fitting # window
      <4>1. Len(fitting) # Len(window)
        BY ONLY <1>18, <1>19, <2>2
      <4> QED BY <4>1
    <3>2. /\ drop = g /\ b - 1 \in 0..(b - 1) /\ b - 1 \in 0..Len(window)
          /\ a + (b - 1) = g - 1
      <4>1. b - 1 \in 0..(b - 1) /\ b - 1 \in 0..Len(window) /\ a + (b - 1) = g - 1
        BY ONLY <1>13, <1>18, <1>19, <2>2
      <4> QED BY <1>22, <3>1, <4>1
    <3>3. over(After(window, b - 1))
      BY <1>15, <3>2
    <3>4. After(window, b - 1) = After(sel, a + (b - 1))
      BY <1>16, <3>2
    <3>5. over(After(sel, drop - 1))
      BY <3>2, <3>3, <3>4
    <3>6. drop \in 0..g /\ g <= drop
      BY ONLY <1>6, <1>21, <3>2
    <3> QED BY <3>5, <3>6
  <2> QED BY <2>1, <2>2
<1>24. m = Len(sel)
  BY <1>8
<1> QED BY <1>5, <1>17, <1>19, <1>20, <1>21, <1>22, <1>23, <1>24 DEF sel

\* At the end of the walk: what is given up is in the end asked for exactly when
\* that end does not fit.
LEMMA ListAnswers ==
    ASSUME LogTypes, ListKeeps, query.command = "list", at = Len(log)
    PROVE  LET start == matching - query.limit + 1 IN
           IF lastBudgetDrop >= (IF start < 1 THEN 1 ELSE start)
           THEN ~ (BytesOf(log, Newest) <= query.budget)
           ELSE BytesOf(log, Newest) <= query.budget /\ kept = Newest
<1> DEFINE sel == Logs!Selected
<1>1. /\ log \in Seq(Logs!Entry) /\ kept \in Seq(Positions) /\ at \in 0..Len(log)
      /\ query.limit \in Nat \ {0} /\ query.budget \in Nat
  BY DEF LogTypes
<1>2. sel = Logs!Selection[at] /\ sel \in Seq(Positions)
  <2>1. sel = Logs!Selection[at]
    BY DEF Logs!Selected
  <2> QED BY <1>1, <2>1, SelectionTypes
<1> HIDE DEF sel
<1>3. PICK c : c = matching - Len(kept)
  OBVIOUS
<1>4. /\ matching = Len(sel) /\ c \in 0..matching /\ kept = After(sel, c)
      /\ Len(kept) <= query.limit /\ BytesOf(log, kept) <= query.budget
      /\ lastBudgetDrop \in 0..c
      /\ lastBudgetDrop > 0 => ~ (BytesOf(log, After(sel, lastBudgetDrop - 1)) <= query.budget)
      /\ c <= lastBudgetDrop \/ c <= matching - query.limit
  BY <1>2, <1>3 DEF ListKeeps
<1>5. PICK n : n = IF matching <= query.limit THEN 0 ELSE matching - query.limit
  OBVIOUS
<1>6. Newest = After(sel, n)
  BY <1>4, <1>5 DEF Newest, sel
<1>7. /\ matching \in Nat /\ Len(kept) \in Nat /\ query.limit \in Nat /\ query.limit > 0
  BY <1>1, <1>2, <1>4
<1>8. /\ n \in 0..matching /\ n <= c /\ c \in Nat /\ lastBudgetDrop \in Nat
      /\ lastBudgetDrop <= c /\ c <= matching
      /\ (IF matching - query.limit + 1 < 1 THEN 1 ELSE matching - query.limit + 1) = n + 1
  <2>1. /\ c \in 0..matching /\ Len(kept) <= query.limit /\ lastBudgetDrop \in 0..c
    BY <1>4
  <2> QED BY ONLY <1>3, <1>5, <1>7, <2>1
<1>9. CASE lastBudgetDrop >= n + 1
  <2>1. PICK k : k = lastBudgetDrop - 1 - n
    OBVIOUS
  <2>2. k \in 0..(matching - n) /\ n + k = lastBudgetDrop - 1 /\ lastBudgetDrop > 0
    BY ONLY <1>7, <1>8, <1>9, <2>1
  <2> DEFINE e == After(sel, n)
  <2>3. e \in Seq(Positions) /\ k \in 0..Len(e) /\ After(e, k) = After(sel, n + k)
    <3>1. e \in Seq(Positions) /\ Len(e) = matching - n
      BY <1>2, <1>4, <1>8, AfterAfter
    <3>2. \A b \in 0..Len(e) : After(e, b) = After(sel, n + b)
      BY <1>2, <1>4, <1>8, AfterAfter
    <3> HIDE DEF e
    <3>3. k \in 0..Len(e)
      BY ONLY <2>2, <3>1
    <3> QED BY ONLY <3>1, <3>2, <3>3
  <2> HIDE DEF e
  <2>4. BytesOf(log, After(e, k)) <= BytesOf(log, e)
    <3>1. Logs!Bytes(SubSeq(e, k + 1, Len(e))) <= Logs!Bytes(e)
      BY <1>1, <2>3, BytesEnd
    <3> QED BY <3>1, BytesAre DEF After
  <2>5. BytesOf(log, e) \in Nat /\ BytesOf(log, After(e, k)) \in Nat
    <3>1. After(e, k) \in Seq(Positions)
      BY ONLY <2>3, AfterAfter
    <3> QED BY <1>1, <2>3, <3>1, BytesTypes, BytesAre
  <2>6. ~ (BytesOf(log, After(e, k)) <= query.budget)
    BY <1>4, <2>2, <2>3
  <2>7. ~ (BytesOf(log, e) <= query.budget)
    <3>1. query.budget \in Nat
      BY <1>1
    <3> QED BY ONLY <2>4, <2>5, <2>6, <3>1
  <2> QED BY <1>6, <1>8, <1>9, <2>7 DEF e
<1>10. CASE ~ (lastBudgetDrop >= n + 1)
  <2>1. c = n
    <3>1. c <= lastBudgetDrop \/ c <= matching - query.limit
      BY <1>4
    <3> QED BY ONLY <1>5, <1>7, <1>8, <1>10, <3>1
  <2>2. kept = Newest /\ BytesOf(log, Newest) <= query.budget
    BY <1>4, <1>6, <2>1
  <2> QED BY <1>8, <1>10, <2>2
<1> QED BY <1>9, <1>10

LEMMA MatchAnswers ==
    ASSUME LogTypes, ShowKeeps, query.command = "show", at < Len(log), log[at + 1].selected
    PROVE  IF Logs!Bytes(kept) + log[at + 1].size > query.budget
           THEN ~ (BytesOf(log, Logs!Selected) <= query.budget)
           ELSE /\ Append(kept, at + 1) = Logs!Selection[at + 1]
                /\ BytesOf(log, Append(kept, at + 1)) <= query.budget
<1> DEFINE s == Append(kept, at + 1)
<1>1. /\ log \in Seq(Logs!Entry) /\ kept \in Seq(Positions) /\ at \in 0..Len(log)
      /\ query.budget \in Nat /\ Len(log) \in Nat
  <2>1. log \in Seq(Logs!Entry) /\ kept \in Seq(Positions) /\ at \in 0..Len(log)
    BY DEF LogTypes
  <2>2. query.budget \in Nat
    <3>1. query.command \in {"list", "show"} => query.budget \in Nat
      BY DEF LogTypes
    <3> QED BY <3>1
  <2>3. Len(log) \in Nat
    BY <2>1
  <2> QED BY <2>1, <2>2, <2>3
<1>2. at + 1 \in Positions /\ at + 1 \in 1..Len(log) /\ (at + 1) - 1 = at /\ at + 1 \in 0..Len(log)
  BY <1>1 DEF Positions
<1>3. s = Logs!Selection[at + 1]
  BY <1>1, <1>2, SelectionIs DEF ShowKeeps
<1>4. BytesOf(log, s) = Logs!Bytes(kept) + log[at + 1].size
  BY <1>1, <1>2, BytesAppend, BytesAre
<1>5. /\ s \in Seq(Positions) /\ Logs!Selection[Len(log)] \in Seq(Positions)
  BY <1>1, <1>2, SelectionTypes
<1>6. BytesOf(log, s) <= BytesOf(log, Logs!Selected)
  BY <1>1, <1>2, <1>3, SelectionGrows, BytesAre
<1>7. BytesOf(log, s) \in Nat /\ BytesOf(log, Logs!Selected) \in Nat
  BY <1>1, <1>5, BytesTypes, BytesAre DEF Logs!Selected
<1> HIDE DEF s
<1>8. CASE BytesOf(log, s) > query.budget
  <2>1. ~ (BytesOf(log, Logs!Selected) <= query.budget)
    BY <1>1, <1>6, <1>7, <1>8
  <2> QED BY <1>4, <1>8, <2>1
<1>9. CASE ~ (BytesOf(log, s) > query.budget)
  <2>1. BytesOf(log, s) <= query.budget
    BY <1>1, <1>7, <1>9
  <2> QED BY <1>3, <1>4, <1>9, <2>1 DEF s
<1> QED BY <1>8, <1>9

\* One line more, the next of a whole export.
LEMMA WritesLine ==
    ASSUME LogTypes, Written, Len(export.lines) <= Len(log),
           NEW line, line = LineOf(Len(export.lines) + 1),
           at' = IF at < Len(log) THEN at + 1 ELSE at, UNCHANGED <<log, query>>,
           export' = Logs!Made(Append(export.lines, line), FALSE)
    PROVE  Written'
<1> DEFINE n == Len(export.lines)
<1>1. /\ Len(log) \in Nat /\ n \in Nat /\ export.lines \in Seq(Line) /\ at = n
      /\ query.path = Logs!NoFile
      /\ \A k \in 1..n : export.lines[k] = LineOf(k)
  <2>1. log \in Seq(Logs!Entry)
    BY DEF LogTypes
  <2>2. export.lines \in Seq(Line)
    BY DEF Written
  <2>3. Len(log) \in Nat /\ n \in Nat
    BY ONLY <2>1, <2>2
  <2>4. query.path = Logs!NoFile /\ at = n /\ \A k \in 1..n : export.lines[k] = LineOf(k)
    BY DEF Written
  <2> QED BY <2>2, <2>3, <2>4
<1>2. line \in Line
  <2>1. n + 1 \in Nat
    BY <1>1
  <2> QED BY <1>1, <2>1 DEF Line, LineOf, Logs!Exported, Logs!Checkpoint
<1>3. export'.lines = Append(export.lines, line) /\ export'.durable = FALSE
  BY DEF Logs!Made
<1>4. /\ export'.lines \in Seq(Line) /\ Len(export'.lines) = n + 1
      /\ \A k \in 1..n : export'.lines[k] = export.lines[k]
      /\ export'.lines[n + 1] = line
  <2>1. export.lines \in Seq(Line)
    BY <1>1
  <2> QED BY ONLY <1>2, <1>3, <2>1
<1>5. \A k \in 1..(n + 1) : export'.lines[k] = LineOf(k)
  <2> HIDE DEF n
  <2>1. \A k \in 1..(n + 1) : k \in 1..n \/ k = n + 1
    BY <1>1
  <2> QED BY <1>1, <1>4, <2>1 DEF n
<1>6. \A k : LineOf(k)' = LineOf(k)
  BY DEF LineOf, Logs!Exported, Logs!Checkpoint
<1>7. n + 1 <= Len(log) => at' = n + 1
  BY <1>1
<1>8. n + 1 <= Len(log) + 1
  BY <1>1
<1> HIDE DEF n
<1> QED BY <1>1, <1>3, <1>4, <1>5, <1>6, <1>7, <1>8 DEF Written, Logs!NoFile

LEMMA LogStands ==
    UNCHANGED <<log, query>> =>
        /\ Logs!Selection' = Logs!Selection /\ Logs!Selected' = Logs!Selected
        /\ Wanted' = Wanted /\ Positions' = Positions
<1> SUFFICES ASSUME UNCHANGED <<log, query>>
             PROVE  /\ Logs!Selection' = Logs!Selection /\ Logs!Selected' = Logs!Selected
                    /\ Wanted' = Wanted /\ Positions' = Positions
  OBVIOUS
<1>1. Logs!Selection' = Logs!Selection
  BY DEF Logs!Selection
<1>2. Logs!Selected' = Logs!Selected
  BY <1>1 DEF Logs!Selected
<1>3. Newest' = Newest
  BY <1>2 DEF Newest
<1> QED BY <1>1, <1>2, <1>3 DEF Wanted, Positions

LogParts ==
    /\ LogTypes /\ Answered
    /\ query.command = "list" => ListKeeps
    /\ query.command = "show" /\ result = "none" => ShowKeeps
    /\ query.command = "export" => ExportKeeps

LEMMA ListSteps ==
    ASSUME LogParts, Logs!Visit \/ Logs!List
    PROVE  LogParts'
<1>1. /\ query.command = "list" /\ result = "none" /\ LogTypes /\ ListKeeps /\ Answered
      /\ UNCHANGED <<log, query>>
  BY DEF LogParts, Logs!Visit, Logs!List, Logs!Running
<1>2. /\ Logs!Selection' = Logs!Selection /\ Logs!Selected' = Logs!Selected
      /\ Wanted' = Wanted /\ Positions' = Positions
  BY <1>1, LogStands
<1>3. /\ log \in Seq(Logs!Entry) /\ Len(log) \in Nat /\ at \in 0..Len(log)
  BY <1>1 DEF LogTypes
<1>4. SUFFICES LogTypes' /\ Answered' /\ ListKeeps'
  BY <1>1 DEF LogParts
<1>5. CASE Logs!Visit /\ ~ log[at + 1].selected
  <2>1. /\ at < Len(log) /\ at' = at + 1
        /\ UNCHANGED <<kept, matching, lastBudgetDrop, result>>
    BY <1>5 DEF Logs!Visit
  <2>2. at + 1 \in 1..Len(log) /\ at + 1 \in 0..Len(log) /\ (at + 1) - 1 = at
    BY ONLY <1>3, <2>1
  <2>3. LogTypes'
    BY <1>1, <1>2, <2>1, <2>2 DEF LogTypes
  <2>4. Answered'
    BY <1>1, <2>1 DEF Answered
  <2>5. Logs!Selection[at + 1] = Logs!Selection[at]
    BY <1>3, <1>5, <2>2, SelectionIs
  <2>6. ListKeeps'
    BY <1>1, <1>2, <2>1, <2>5 DEF ListKeeps
  <2> QED BY <2>3, <2>4, <2>6
<1>6. CASE Logs!Visit /\ log[at + 1].selected
  <2>1. /\ at < Len(log) /\ at' = at + 1 /\ result' = result
    BY <1>6 DEF Logs!Visit
  <2>2. PICK window, fitting :
            /\ window = Longest /\ fitting = Fitting(window)
            /\ matching' = matching + 1 /\ kept' = fitting
            /\ lastBudgetDrop' = IF fitting = window THEN lastBudgetDrop
                                 ELSE matching' - Len(fitting)
    BY <1>6 DEF Logs!Visit, Longest, Fitting
  <2>3. LET sel == Logs!Selection[at + 1]
            m == matching + 1
            given_up == m - Len(fitting)
            drop == IF fitting = window THEN lastBudgetDrop ELSE given_up IN
        /\ fitting \in Seq(Positions)
        /\ m = Len(sel) /\ given_up \in 0..m /\ fitting = After(sel, given_up)
        /\ Len(fitting) <= query.limit /\ BytesOf(log, fitting) <= query.budget
        /\ drop \in 0..given_up
        /\ drop > 0 => ~ (BytesOf(log, After(sel, drop - 1)) <= query.budget)
        /\ given_up <= drop \/ given_up <= m - query.limit
    BY <1>1, <1>6, <2>1, <2>2, VisitKeeps
  <2>4. at + 1 \in 0..Len(log)
    BY ONLY <1>3, <2>1
  <2>5. LogTypes'
    <3>1. kept' \in Seq(Positions) /\ at' \in 0..Len(log)
      BY <2>1, <2>2, <2>3, <2>4
    <3> QED BY <1>1, <1>2, <2>1, <3>1 DEF LogTypes
  <2>6. Answered'
    BY <1>1, <2>1 DEF Answered
  <2>7. ListKeeps'
    <3>1. /\ Logs!Selection'[at'] = Logs!Selection[at + 1] /\ matching' = matching + 1
          /\ matching' - Len(kept') = (matching + 1) - Len(fitting)
          /\ lastBudgetDrop' = IF fitting = window THEN lastBudgetDrop
                               ELSE (matching + 1) - Len(fitting)
      BY <1>2, <2>1, <2>2
    <3> QED BY <1>1, <2>2, <2>3, <3>1 DEF ListKeeps
  <2> QED BY <2>5, <2>6, <2>7
<1>7. CASE Logs!List
  <2>1. /\ at = Len(log) /\ UNCHANGED <<at, kept, matching, lastBudgetDrop>>
        /\ result' = IF lastBudgetDrop >= (IF matching - query.limit + 1 < 1 THEN 1
                                           ELSE matching - query.limit + 1)
                     THEN "exceeds" ELSE "listed"
    BY <1>7 DEF Logs!List
  <2>2. LogTypes'
    BY <1>1, <1>2, <2>1 DEF LogTypes
  <2>3. ListKeeps'
    BY <1>1, <1>2, <2>1 DEF ListKeeps
  <2>4. Wanted = Newest
    BY <1>1 DEF Wanted
  <2>5. Answered'
    <3>1. IF result' = "exceeds" THEN ~ (BytesOf(log, Wanted) <= query.budget)
          ELSE BytesOf(log, Wanted) <= query.budget /\ kept = Wanted
      BY <1>1, <2>1, <2>4, ListAnswers
    <3>2. result' \in {"exceeds", "listed"}
      BY <2>1
    <3> QED BY <1>1, <1>2, <2>1, <3>1, <3>2 DEF Answered
  <2> QED BY <2>2, <2>3, <2>5
<1> QED BY <1>5, <1>6, <1>7

LEMMA ShowSteps ==
    ASSUME LogParts, Logs!Match \/ Logs!Show
    PROVE  LogParts'
<1>1. /\ query.command = "show" /\ result = "none" /\ LogTypes /\ ShowKeeps /\ Answered
      /\ UNCHANGED <<log, query>>
  BY DEF LogParts, Logs!Match, Logs!Show, Logs!Running
<1>2. /\ Logs!Selection' = Logs!Selection /\ Logs!Selected' = Logs!Selected
      /\ Wanted' = Wanted /\ Positions' = Positions /\ Wanted = Logs!Selected
  BY <1>1, LogStands DEF Wanted
<1>3. /\ log \in Seq(Logs!Entry) /\ Len(log) \in Nat /\ at \in 0..Len(log)
  BY <1>1 DEF LogTypes
<1>4. SUFFICES LogTypes' /\ Answered' /\ (result' = "none" => ShowKeeps')
  BY <1>1 DEF LogParts
<1>5. CASE Logs!Match
  <2>1. at < Len(log) /\ at' = at + 1
    BY <1>5 DEF Logs!Match
  <2>2. /\ at + 1 \in 1..Len(log) /\ at + 1 \in 0..Len(log) /\ (at + 1) - 1 = at
        /\ at + 1 \in Positions
    BY <1>3, <2>1 DEF Positions
  <2>3. CASE ~ log[at + 1].selected
    <3>1. UNCHANGED <<kept, result>>
      BY <1>5, <2>3 DEF Logs!Match
    <3>2. Logs!Selection[at + 1] = Logs!Selection[at]
      BY <1>3, <2>2, <2>3, SelectionIs
    <3>3. LogTypes'
      BY <1>1, <1>2, <2>1, <2>2, <3>1 DEF LogTypes
    <3>4. Answered'
      BY <1>1, <3>1 DEF Answered
    <3>5. ShowKeeps'
      BY <1>1, <1>2, <2>1, <3>1, <3>2 DEF ShowKeeps
    <3> QED BY <3>3, <3>4, <3>5
  <2>4. CASE log[at + 1].selected /\ Logs!Bytes(kept) + log[at + 1].size > query.budget
    <3>1. result' = "exceeds" /\ kept' = kept
      BY <1>5, <2>4 DEF Logs!Match
    <3>2. ~ (BytesOf(log, Wanted) <= query.budget)
      BY <1>1, <1>2, <2>1, <2>4, MatchAnswers
    <3>3. LogTypes'
      BY <1>1, <1>2, <2>1, <2>2, <3>1 DEF LogTypes
    <3>4. Answered'
      BY <1>1, <1>2, <3>1, <3>2 DEF Answered
    <3> QED BY <3>1, <3>3, <3>4
  <2>5. CASE log[at + 1].selected /\ ~ (Logs!Bytes(kept) + log[at + 1].size > query.budget)
    <3>1. kept' = Append(kept, at + 1) /\ result' = result
      BY <1>5, <2>5 DEF Logs!Match
    <3>2. /\ Append(kept, at + 1) = Logs!Selection[at + 1]
          /\ BytesOf(log, Append(kept, at + 1)) <= query.budget
      BY <1>1, <2>1, <2>5, MatchAnswers
    <3>3. LogTypes'
      <4>1. Append(kept, at + 1) \in Seq(Positions)
        BY <1>1, <2>2 DEF LogTypes
      <4> QED BY <1>1, <1>2, <2>1, <2>2, <3>1, <4>1 DEF LogTypes
    <3>4. Answered'
      BY <1>1, <3>1 DEF Answered
    <3>5. ShowKeeps'
      <4>1. BytesOf(log', kept') <= query'.budget /\ kept' = Logs!Selection'[at']
        BY <1>1, <1>2, <2>1, <3>1, <3>2
      <4> QED BY <4>1 DEF ShowKeeps
    <3> QED BY <3>3, <3>4, <3>5
  <2> QED BY <2>3, <2>4, <2>5
<1>6. CASE Logs!Show
  <2>1. /\ at = Len(log) /\ UNCHANGED <<at, kept>>
        /\ result' = IF kept = << >> THEN "not found" ELSE "shown"
    BY <1>6 DEF Logs!Show
  <2>2. kept = Wanted /\ BytesOf(log, Wanted) <= query.budget
    BY <1>1, <1>2, <2>1 DEF ShowKeeps, Logs!Selected
  <2>3. LogTypes'
    BY <1>1, <1>2, <2>1 DEF LogTypes
  <2>4. Answered'
    BY <1>1, <1>2, <2>1, <2>2 DEF Answered
  <2>5. result' # "none"
    BY <2>1
  <2> QED BY <2>3, <2>4, <2>5
<1> QED BY <1>5, <1>6

LEMMA ExportSteps ==
    ASSUME LogParts,
           \/ Logs!Create \/ Logs!Encode \/ Logs!Complete \/ Logs!ExportFails \/ Logs!ExportDies
    PROVE  LogParts'
<1>1. /\ query.command = "export" /\ result = "none" /\ LogTypes /\ ExportKeeps
      /\ UNCHANGED <<log, query, kept>>
  BY DEF LogParts, Logs!Create, Logs!Encode, Logs!Complete, Logs!ExportFails,
         Logs!ExportDies, Logs!Running
<1>2. Positions' = Positions
  BY <1>1, LogStands
<1>3. /\ log \in Seq(Logs!Entry) /\ Len(log) \in Nat /\ at \in 0..Len(log)
  BY <1>1 DEF LogTypes
<1>4. at' \in 0..Len(log) /\ result' \in {"none", "exported", "failed", "killed"} => LogTypes'
  BY <1>1, <1>2 DEF LogTypes
<1>5. Answered'
  BY <1>1 DEF Answered
<1>6. SUFFICES /\ at' \in 0..Len(log) /\ result' \in {"none", "exported", "failed", "killed"}
               /\ ExportKeeps'
  BY <1>1, <1>4, <1>5 DEF LogParts
<1>7. \A k : LineOf(k)' = LineOf(k)
  BY <1>1 DEF LineOf, Logs!Exported, Logs!Checkpoint
<1>8. CASE Logs!Create
  <2>1. /\ export = Logs!NoFile /\ export' = Logs!Made(<< >>, FALSE)
        /\ UNCHANGED <<at, result>>
    BY <1>8 DEF Logs!Create
  <2>2. /\ export'.lines = << >> /\ export'.durable = FALSE /\ export'.by = "export"
        /\ export.by # "export"
    BY <2>1 DEF Logs!Made, Logs!NoFile
  <2>3. query.path = Logs!NoFile /\ at = 0
    BY <1>1, <2>1, <2>2 DEF ExportKeeps
  <2>4. Len(export'.lines) = 0 /\ export'.lines \in Seq(Line)
    <3>1. Len(<< >>) = 0 /\ << >> \in Seq(Line)
      OBVIOUS
    <3> QED BY <2>2, <3>1, Zenon
  <2>5. Written'
    <3>1. /\ query'.path = Logs!NoFile /\ at' = 0
          /\ export' = Logs!Made(export'.lines, export'.durable)
      BY <1>1, <2>1, <2>2, <2>3
    <3>2. \A k \in 1..Len(export'.lines) : export'.lines[k] = LineOf(k)'
      BY <2>4
    <3>3. 0 <= Len(log') + 1
      BY <1>1, <1>3
    <3> QED BY <2>4, <3>1, <3>2, <3>3 DEF Written, Logs!NoFile, Logs!Made
  <2>6. ExportKeeps'
    BY <1>1, <2>1, <2>2, <2>5 DEF ExportKeeps
  <2> QED BY <1>1, <1>3, <2>1, <2>6
<1>9. CASE Logs!Encode
  <2> DEFINE line == LineOf(Len(export.lines) + 1)
  <2>1. /\ export.by = "export" /\ Len(export.lines) <= Len(log) /\ result' = result
        /\ IF at < Len(log)
           THEN at' = at + 1 /\ export' = Logs!Made(Append(export.lines, Logs!Exported(at + 1)), FALSE)
           ELSE at' = at /\ export' = Logs!Made(Append(export.lines, Logs!Checkpoint(Len(log))), FALSE)
    BY <1>9 DEF Logs!Encode
  <2>2. Written
    BY <1>1, <2>1 DEF ExportKeeps
  <2>3. at = Len(export.lines)
    BY <2>1, <2>2 DEF Written
  <2>4. line = IF at < Len(log) THEN Logs!Exported(at + 1) ELSE Logs!Checkpoint(Len(log))
    <3>1. at + 1 <= Len(log) <=> at < Len(log)
      BY <1>3
    <3> QED BY <2>3, <3>1 DEF LineOf
  <2> HIDE DEF line
  <2>5. at' = (IF at < Len(log) THEN at + 1 ELSE at) /\ export' = Logs!Made(Append(export.lines, line), FALSE)
    BY <2>1, <2>4
  <2>6. Written'
    BY <1>1, <2>1, <2>2, <2>5, WritesLine DEF line
  <2>7. at' \in 0..Len(log)
    BY ONLY <1>3, <2>5
  <2>8. export'.by = "export"
    BY <2>5 DEF Logs!Made
  <2>9. ExportKeeps'
    BY <1>1, <2>1, <2>6, <2>8 DEF ExportKeeps
  <2> QED BY <1>1, <2>1, <2>7, <2>9
<1>10. CASE Logs!Complete
  <2>1. /\ export.by = "export" /\ Len(export.lines) = Len(log) + 1
        /\ export' = Logs!Made(export.lines, TRUE) /\ result' = "exported" /\ at' = at
    BY <1>10 DEF Logs!Complete
  <2>2. Written
    BY <1>1, <2>1 DEF ExportKeeps
  <2>3. export'.lines = export.lines /\ export'.durable = TRUE /\ export'.by = "export"
    BY <2>1 DEF Logs!Made
  <2>4. Written'
    BY <1>1, <1>7, <2>1, <2>2, <2>3 DEF Written, Logs!NoFile, Logs!Made
  <2>5. ExportKeeps'
    BY <1>1, <2>1, <2>3, <2>4 DEF ExportKeeps
  <2> QED BY <1>3, <2>1, <2>5
<1>11. CASE Logs!ExportFails
  <2>1. /\ export' = (IF export.by = "export" THEN Logs!NoFile ELSE export)
        /\ result' = "failed" /\ at' = at
    BY <1>11 DEF Logs!ExportFails
  <2>2. export.by = "export" => query.path = Logs!NoFile
    BY <1>1 DEF ExportKeeps, Written
  <2>3. export.by # "export" => export = query.path
    BY <1>1 DEF ExportKeeps
  <2>4. export' = query.path /\ export'.by # "export"
    BY <2>1, <2>2, <2>3 DEF Logs!NoFile
  <2>5. ExportKeeps'
    BY <1>1, <2>1, <2>4 DEF ExportKeeps
  <2> QED BY <1>3, <2>1, <2>5
<1>12. CASE Logs!ExportDies
  <2>1. result' = "killed" /\ UNCHANGED <<at, export>>
    BY <1>12 DEF Logs!ExportDies
  <2>2. Written => Written'
    BY <1>1, <1>7, <2>1 DEF Written, Logs!NoFile, Logs!Made
  <2>3. ExportKeeps'
    BY <1>1, <2>1, <2>2 DEF ExportKeeps
  <2> QED BY <1>3, <2>1, <2>3
<1> QED BY <1>8, <1>9, <1>10, <1>11, <1>12

LEMMA NextLogInv == LogInv /\ [PartNext]_partVars => LogInv'
<1> SUFFICES ASSUME LogInv, [PartNext]_partVars PROVE LogInv'
  OBVIOUS
<1>1. part' = part /\ (part = "logs" => [Logs!Next]_logVars)
  BY PartSteps
<1>2. LogInv <=> (part = "logs" => LogParts)
  BY DEF LogInv, LogParts
<1>3. LogInv' <=> (part' = "logs" => LogParts')
  BY DEF LogInv, LogParts
<1>4. ASSUME part = "logs", LogParts, UNCHANGED logVars PROVE LogParts'
  <2>1. UNCHANGED <<log, query, at, kept, matching, lastBudgetDrop, export, result>>
    BY <1>4 DEF logVars
  <2>2. /\ Logs!Selection' = Logs!Selection /\ Logs!Selected' = Logs!Selected
        /\ Wanted' = Wanted /\ Positions' = Positions
    BY <2>1, LogStands
  <2>3. LogTypes' <=> LogTypes
    BY <2>1, <2>2 DEF LogTypes
  <2>4. Answered' <=> Answered
    BY <2>1, <2>2 DEF Answered
  <2>5. ListKeeps' <=> ListKeeps
    BY <2>1, <2>2 DEF ListKeeps
  <2>6. ShowKeeps' <=> ShowKeeps
    BY <2>1, <2>2 DEF ShowKeeps
  <2>7. Written' <=> Written
    BY <2>1 DEF Written, LineOf, Logs!Exported, Logs!Checkpoint
  <2>8. ExportKeeps' <=> ExportKeeps
    BY <2>1, <2>7 DEF ExportKeeps
  <2> QED BY <1>4, <2>1, <2>3, <2>4, <2>5, <2>6, <2>8 DEF LogParts
<1>5. ASSUME part = "logs", LogParts, Logs!Next PROVE LogParts'
  BY <1>5, ListSteps, ShowSteps, ExportSteps DEF Logs!Next
<1> QED BY <1>1, <1>2, <1>3, <1>4, <1>5

LEMMA AnswersExact == LogTypes /\ Answered => Logs!ExactAnswers
<1> SUFFICES ASSUME LogTypes, Answered PROVE Logs!ExactAnswers
  OBVIOUS
<1> DEFINE newest == Logs!LongestEnd(Logs!Selected, LAMBDA e : Len(e) <= query.limit)
           wanted == IF query.command = "list" THEN newest ELSE Logs!Selected
<1>1. Logs!Selected \in Seq(Positions)
  <2>1. log \in Seq(Logs!Entry)
    BY DEF LogTypes
  <2>2. Len(log) \in 0..Len(log)
    <3>1. Len(log) \in Nat
      BY <2>1
    <3> QED BY ONLY <3>1
  <2> QED BY <2>1, <2>2, SelectionTypes DEF Logs!Selected
<1>2. query.command = "list" => newest = Newest
  <2>1. query.command = "list" => query.limit \in Nat \ {0}
    BY DEF LogTypes
  <2> QED BY <1>1, <2>1, EndByLength DEF Newest, After
<1>3. wanted = Wanted
  BY <1>2 DEF Wanted
<1>4. CASE query.command \in {"list", "show"}
  <2>1. /\ result \in {"listed", "shown", "not found"} =>
               Logs!Bytes(Wanted) <= query.budget /\ kept = Wanted
        /\ result = "not found" => Wanted = << >>
        /\ result = "exceeds" => ~ (Logs!Bytes(Wanted) <= query.budget)
    BY <1>4, BytesAre DEF Answered
  <2> QED BY <1>3, <2>1 DEF Logs!ExactAnswers
<1>5. CASE query.command = "export"
  <2>1. result \in {"none", "exported", "failed", "killed"}
    BY <1>5 DEF LogTypes
  <2> QED BY <2>1 DEF Logs!ExactAnswers
<1> QED BY <1>4, <1>5 DEF LogTypes

LEMMA ExportsExact == LogTypes /\ (query.command = "export" => ExportKeeps) => Logs!ExportWhole
<1> DEFINE entries == [i \in 1..Len(log) |-> Logs!Exported(i)]
           last_line == << Logs!Checkpoint(Len(log)) >>
           whole == entries \o last_line
<1> SUFFICES ASSUME LogTypes, query.command = "export", ExportKeeps
             PROVE  /\ result = "exported" => export = Logs!Made(whole, TRUE)
                    /\ result = "failed" => export = query.path
                    /\ export.by = "export" => Logs!IsPrefix(export.lines, whole)
  BY DEF Logs!ExportWhole
<1>1. Len(log) \in Nat
  BY DEF LogTypes
<1>2. /\ entries \in Seq(Line) /\ Len(entries) = Len(log)
      /\ \A k \in 1..Len(log) : entries[k] = Logs!Exported(k)
  <2>1. \A k \in 1..Len(log) : Logs!Exported(k) \in Line
    BY <1>1 DEF Line, Logs!Exported
  <2> QED BY <1>1, <2>1
<1>3. /\ last_line \in Seq(Line) /\ Len(last_line) = 1 /\ last_line[1] = Logs!Checkpoint(Len(log))
  <2>1. Logs!Checkpoint(Len(log)) \in Line
    BY <1>1 DEF Line, Logs!Checkpoint
  <2> QED BY <2>1
<1> HIDE DEF entries, last_line
<1>4. /\ whole \in Seq(Line) /\ Len(whole) = Len(log) + 1
      /\ \A k \in 1..(Len(log) + 1) : whole[k] = IF k <= Len(log) THEN entries[k]
                                                 ELSE last_line[k - Len(log)]
  <2>1. entries \in Seq(Line) /\ last_line \in Seq(Line)
    BY <1>2, <1>3
  <2>2. /\ whole \in Seq(Line) /\ Len(whole) = Len(entries) + Len(last_line)
        /\ \A k \in 1..(Len(entries) + Len(last_line)) :
               whole[k] = IF k <= Len(entries) THEN entries[k] ELSE last_line[k - Len(entries)]
    BY ONLY <2>1, ConcatProperties, Zenon
  <2>3. Len(entries) = Len(log) /\ Len(last_line) = 1
    BY <1>2, <1>3
  <2> HIDE DEF whole
  <2> QED BY <2>2, <2>3, Zenon
<1> HIDE DEF whole
<1>5. ASSUME NEW k \in 1..(Len(log) + 1) PROVE whole[k] = LineOf(k)
  <2>1. CASE k <= Len(log)
    <3>1. k \in 1..Len(log)
      BY <1>1, <2>1
    <3> QED BY <1>2, <1>4, <2>1, <3>1 DEF LineOf
  <2>2. CASE ~ (k <= Len(log))
    <3>1. k - Len(log) = 1
      BY <1>1, <2>2
    <3> QED BY <1>3, <1>4, <2>2, <3>1 DEF LineOf
  <2> QED BY <2>1, <2>2
<1>6. ASSUME Written
      PROVE  /\ export.lines \in Seq(Line) /\ Len(export.lines) <= Len(whole)
             /\ \A k \in 1..Len(export.lines) : export.lines[k] = whole[k]
  <2>1. export.lines \in Seq(Line) /\ Len(export.lines) <= Len(whole)
    BY <1>4, <1>6 DEF Written
  <2>2. Len(export.lines) \in Nat
    BY <2>1
  <2>3. \A k \in 1..Len(export.lines) : k \in 1..(Len(log) + 1)
    BY <1>1, <1>4, <2>1, <2>2
  <2> QED BY <1>5, <1>6, <2>1, <2>3 DEF Written
<1>7. ASSUME result = "exported" PROVE export = Logs!Made(whole, TRUE)
  <2>1. Written /\ export.durable = TRUE /\ Len(export.lines) = Len(log) + 1
    BY <1>7 DEF ExportKeeps
  <2>2. export.lines = whole
    BY <1>4, <1>6, <2>1, SeqEqual
  <2> QED BY <2>1, <2>2 DEF Written
<1>8. ASSUME result = "failed" PROVE export = query.path
  BY <1>8 DEF ExportKeeps
<1>9. ASSUME export.by = "export" PROVE Logs!IsPrefix(export.lines, whole)
  <2> DEFINE lines == export.lines
             n == Len(lines)
  <2>1. Written
    BY <1>9 DEF ExportKeeps
  <2>2. /\ lines \in Seq(Line) /\ n \in Nat /\ n <= Len(whole)
        /\ \A k \in 1..n : lines[k] = whole[k]
    BY <1>6, <2>1
  <2> HIDE DEF lines
  <2>3. SubSeq(lines, 1, n) = [k \in 1..n |-> lines[k]]
    BY <2>2
  <2>4. SubSeq(whole, 1, n) = [k \in 1..n |-> whole[k]]
    BY <1>4, <2>2
  <2>5. [k \in 1..n |-> lines[k]] = [k \in 1..n |-> whole[k]]
    <3> HIDE DEF n
    <3> QED BY <2>2
  <2> QED BY <2>2, <2>3, <2>4, <2>5 DEF Logs!IsPrefix, lines
<1> QED BY <1>7, <1>8, <1>9

\* runLogList, runLogShow and runLogExport: list answers with exactly the newest
\* matching entries that were asked for and show with all of them, or they refuse
\* because these do not fit; an export is whole and durable, or was not made.
THEOREM QueriesAnswered == PartSpec => []QueriesExact
<1>1. LogInv => QueriesExact
  BY AnswersExact, ExportsExact DEF LogInv, QueriesExact, Logs!QueriesExact
<1>2. PartSpec => []LogInv
  BY InitLogInv, NextLogInv, PTL DEF PartSpec, partVars
<1> QED BY <1>1, <1>2, PTL
=============================================================================
