------------------------- MODULE RequestLimitProofs -------------------------
(***************************************************************************)
(* Theorems about RequestLimit, for every limit, every set of request IDs  *)
(* and any number of frames.                                               *)
(***************************************************************************)
EXTENDS RequestLimit, FiniteSetTheorems, TLAPS

\* The answer of a tracked call is going out.
Writing == writer.pc \in {"write", "written"}

\* A frame that waits for admission is a frame, and the handler that holds the
\* output lane has not been forgotten.
InHand ==
    /\ reader.pc \in {"admit", "busy"} => reader.frame \in Frame
    /\ reader.pc = "busy" => reader.frame.kind = "call"
    /\ writer.pc = "locked" => writer.id \in sdk

\* The slots never exceed the limit.
WithinLimit ==
    /\ IsFiniteSet(pending)
    /\ Cardinality(pending) + responding <= MaxInFlight

\* The slots are those of the calls in the SDK, and of those whose answer was
\* refused while the stream is not closed yet.
Accounted ==
    /\ stopped => pending = {} /\ responding = 0
    /\ ~ stopped =>
           /\ sdk \subseteq pending
           /\ responding = IF Writing THEN 1 ELSE 0
           /\ Writing => writer.count = 1
           /\ ~ failed => pending = sdk

IInv == TypeOK /\ InHand /\ WithinLimit /\ Accounted

-----------------------------------------------------------------------------
LEMMA CallFrame ==
    ASSUME NEW f \in Frame, f.kind = "call"
    PROVE  f.id \in Id
BY DEF Frame

LEMMA InitInv == Init => IInv
<1> SUFFICES ASSUME Init PROVE IInv
    OBVIOUS
<1> USE RequestLimitAssumption DEF Init
<1>1. TypeOK
  <2>1. input \in Seq(Frame)
      OBVIOUS
  <2>2. reader \in [pc : {"read", "admit", "busy", "done"}, frame : Frame \cup {None}]
      BY DEF InRead
  <2>3. writer \in [pc : {"free", "busy", "locked", "write", "written", "other"},
                   id : Id \cup {None}, count : 0..1]
      BY DEF Unlocked
  <2>4. awaited \in [Id -> Int]
      OBVIOUS
  <2> QED BY <2>1, <2>2, <2>3, <2>4 DEF TypeOK
<1>2. InHand
    BY DEF InHand, InRead, Unlocked
<1>3. WithinLimit
    BY FS_EmptySet DEF WithinLimit
<1>4. Accounted
    BY DEF Accounted, Writing, Unlocked
<1> QED BY <1>1, <1>2, <1>3, <1>4 DEF IInv

LEMMA StepInv == IInv /\ [Next]_vars => IInv'
<1> SUFFICES ASSUME IInv, [Next]_vars PROVE IInv'
    OBVIOUS
<1> USE RequestLimitAssumption DEF IInv
<1>1. ASSUME NEW f \in Frame, ClientSends(f) PROVE IInv'
  <2> USE <1>1 DEF ClientSends, slots
  <2>1. TypeOK'
    <3>1. input' \in Seq(Frame)
        BY DEF TypeOK
    <3>2. awaited' \in [Id -> Int]
        BY CallFrame DEF TypeOK
    <3> QED BY <3>1, <3>2 DEF TypeOK
  <2>2. InHand' /\ WithinLimit' /\ Accounted'
      BY DEF InHand, WithinLimit, Accounted, Writing
  <2> QED BY <2>1, <2>2
<1>2. CASE ClientCloses
    BY <1>2 DEF ClientCloses, slots, TypeOK, InHand, WithinLimit, Accounted, Writing
<1>3. CASE ReadFrame
  <2> USE <1>3 DEF ReadFrame, slots
  <2>1. input # << >> /\ input \in Seq(Frame)
      BY DEF TypeOK
  <2>2. Head(input) \in Frame /\ Tail(input) \in Seq(Frame)
      BY <2>1
  <2>3. TypeOK'
      BY <2>2 DEF TypeOK
  <2>4. InHand' /\ WithinLimit' /\ Accounted'
      BY <2>2 DEF InHand, WithinLimit, Accounted, Writing
  <2> QED BY <2>3, <2>4
<1>4. CASE ReadEnds
    BY <1>4 DEF ReadEnds, ReadDone, client, slots, TypeOK, InHand, WithinLimit,
                Accounted, Writing
<1>5. CASE FrameRefused
    BY <1>5 DEF FrameRefused, Refuses, ReadDone, client, slots, TypeOK, InHand,
                WithinLimit, Accounted, Writing
<1>6. CASE AdmitFrame
  <2> USE <1>6
  <2>1. reader.frame \in Frame
      BY DEF AdmitFrame, InHand
  <2>2. CASE UNCHANGED <<slots, sdk>> /\ reader' \in {ReadDone, InRead}
      BY <2>2 DEF AdmitFrame, ReadDone, InRead, client, slots, TypeOK, InHand,
                  WithinLimit, Accounted, Writing
  <2>3. CASE ~ stopped /\ AdmitNonCall
      BY <2>3 DEF AdmitFrame, AdmitNonCall, Refuses, Goes, ReadDone, InRead, client,
                  slots, TypeOK, InHand, WithinLimit, Accounted, Writing
  <2>4. CASE ~ stopped /\ reader.frame.kind = "call" /\ AdmitCall(reader.frame.id)
    <3> DEFINE id == reader.frame.id
    <3>1. id \in Id
        BY <2>1, <2>4, CallFrame
    <3>2. CASE id \notin pending /\ AtCapacity
        BY <2>1, <2>4, <3>2 DEF AdmitFrame, AdmitCall, Refuses, Goes, client, slots,
                  TypeOK, InHand, WithinLimit, Accounted, Writing
    <3>3. CASE id \notin pending /\ ~ AtCapacity
      <4>1. /\ pending' = pending \cup {id} /\ sdk' = sdk \cup {id}
            /\ reader' = InRead
            /\ UNCHANGED <<responding, nonCalls>>
            /\ UNCHANGED <<client, writer, stopped, failed, awaited, reused>>
          BY <2>4, <3>3 DEF AdmitFrame, AdmitCall, Goes
      <4>2. /\ IsFiniteSet(pending')
            /\ Cardinality(pending') = Cardinality(pending) + 1
          BY <3>3, <4>1, FS_AddElement DEF WithinLimit
      <4>3. Cardinality(pending) \in Nat /\ responding \in Nat
          BY FS_CardinalityType DEF WithinLimit, TypeOK
      <4>4. WithinLimit'
          BY <3>3, <4>1, <4>2, <4>3 DEF WithinLimit, AtCapacity
      <4>5. TypeOK'
          BY <3>1, <4>1 DEF TypeOK, InRead, client
      <4>6. InHand'
          BY <4>1 DEF InHand, InRead
      <4>7. Accounted'
          BY <2>4, <4>1 DEF Accounted, Writing
      <4> QED BY <4>4, <4>5, <4>6, <4>7
    <3>4. CASE id \in pending
        BY <2>2, <2>4, <3>4 DEF AdmitCall, Refuses
    <3> QED BY <3>2, <3>3, <3>4
  <2> QED BY <2>2, <2>3, <2>4 DEF AdmitFrame, Refuses, Goes
<1>7. CASE LockBusy
  <2>1. reader.frame \in Frame /\ reader.frame.id \in Id
      BY <1>7, CallFrame DEF LockBusy, InHand
  <2> QED BY <1>7, <2>1 DEF LockBusy, Unlocked, ReadDone, client, slots, TypeOK,
                InHand, WithinLimit, Accounted, Writing
<1>8. CASE WriteBusy
    BY <1>8 DEF WriteBusy, Answered, Unlocked, InRead, ReadDone, client, slots, TypeOK,
                InHand, WithinLimit, Accounted, Writing
<1>9. ASSUME NEW id \in Id, LockWrite(id) PROVE IInv'
    BY <1>9 DEF LockWrite, Unlocked, client, slots, TypeOK, InHand, WithinLimit,
                Accounted, Writing
<1>10. ASSUME NEW id \in Id, WriteStopped(id) PROVE IInv'
    BY <1>10 DEF WriteStopped, Unbegun, client, slots, TypeOK, InHand, WithinLimit,
                 Accounted, Writing
<1>11. ASSUME NEW id \in Id, WriteRefused(id) PROVE IInv'
    BY <1>11 DEF WriteRefused, Unbegun, client, slots, TypeOK, InHand, WithinLimit,
                 Accounted, Writing
<1>12. CASE BeginResponses
  <2> DEFINE tracked == writer.id \in pending
  <2>1. /\ writer.pc = "locked" /\ writer.id \in sdk /\ ~ Writing
        /\ pending' = pending \ {writer.id}
        /\ responding' = IF tracked THEN responding + 1 ELSE responding
        /\ sdk' = sdk \ {writer.id}
        /\ writer' = [writer EXCEPT !.pc = "write", !.count = IF tracked THEN 1 ELSE 0]
        /\ UNCHANGED <<client, reader, nonCalls, stopped, failed, errors, awaited, reused>>
      BY <1>12 DEF BeginResponses, InHand, Writing
  <2>2. tracked <=> ~ stopped
      BY <2>1 DEF Accounted, TypeOK
  <2>3. responding' \in 0..1
      BY <2>1, <2>2 DEF Accounted, TypeOK
  <2>4. TypeOK'
    <3> DEFINE n == IF tracked THEN 1 ELSE 0
    <3>1. n \in 0..1 /\ writer' = [writer EXCEPT !.pc = "write", !.count = n]
        BY <2>1
    <3> HIDE DEF n
    <3>2. writer' \in [pc : {"free", "busy", "locked", "write", "written", "other"},
                      id : Id \cup {None}, count : 0..1]
        BY <3>1 DEF TypeOK
    <3> QED BY <2>1, <2>3, <3>2 DEF TypeOK, client
  <2>5. InHand'
      BY <2>1 DEF InHand, TypeOK
  <2>6. WithinLimit'
    <3>1. /\ IsFiniteSet(pending')
          /\ Cardinality(pending') =
                 IF tracked THEN Cardinality(pending) - 1 ELSE Cardinality(pending)
        BY <2>1, FS_RemoveElement DEF WithinLimit
    <3>2. Cardinality(pending) \in Nat /\ responding \in Nat
        BY FS_CardinalityType DEF WithinLimit, TypeOK
    <3> QED BY <2>1, <3>1, <3>2 DEF WithinLimit
  <2>7. Accounted'
      BY <2>1, <2>2 DEF Accounted, Writing, TypeOK
  <2> QED BY <2>4, <2>5, <2>6, <2>7
<1>13. CASE WriteOut
  <2>1. awaited' \in [Id -> Int]
    <3>1. awaited' = [awaited EXCEPT ![writer.id] = @ - 1] /\ awaited \in [Id -> Int]
        BY <1>13 DEF WriteOut, Answered, TypeOK
    <3>2. CASE writer.id \in Id
      <4>1. awaited[writer.id] - 1 \in Int
          BY <3>1, <3>2
      <4> QED BY <3>1, <4>1
    <3>3. CASE writer.id \notin Id
        BY <3>1, <3>3
    <3> QED BY <3>2, <3>3
  <2>2. writer' \in [pc : {"written"}, id : Id \cup {None}, count : 0..1]
      BY <1>13 DEF WriteOut, TypeOK
  <2>3. TypeOK'
      BY <1>13, <2>1, <2>2 DEF WriteOut, client, slots, TypeOK
  <2>4. writer'.pc = "written" /\ writer'.count = writer.count
      BY <1>13 DEF WriteOut, TypeOK
  <2>5. InHand' /\ WithinLimit' /\ Accounted'
      BY <1>13, <2>4 DEF WriteOut, client, slots, InHand, WithinLimit, Accounted, Writing
  <2> QED BY <2>3, <2>5
<1>14. CASE FinishResponses
  <2>1. responding' \in 0..1 /\ responding' <= responding
      BY <1>14 DEF FinishResponses, TypeOK
  <2>2. ~ stopped => responding' = 0
      BY <1>14 DEF FinishResponses, Accounted, Writing
  <2>3. stopped => responding' = 0
      BY <1>14, <2>1 DEF Accounted, FinishResponses, TypeOK
  <2>4. WithinLimit'
    <3>1. Cardinality(pending) \in Nat
        BY FS_CardinalityType DEF WithinLimit
    <3> QED BY <1>14, <2>1, <3>1 DEF FinishResponses, WithinLimit, TypeOK
  <2>5. TypeOK'
      BY <1>14, <2>1 DEF FinishResponses, Unlocked, client, TypeOK
  <2>6. InHand' /\ Accounted'
      BY <1>14, <2>2, <2>3 DEF FinishResponses, Unlocked, client, InHand, Accounted, Writing
  <2> QED BY <2>4, <2>5, <2>6
<1>15. CASE OtherFrame
    BY <1>15 DEF OtherFrame, Unlocked, client, slots, TypeOK, InHand, WithinLimit,
                 Accounted, Writing
<1>16. CASE OtherWritten
    BY <1>16 DEF OtherWritten, Unlocked, client, slots, TypeOK, InHand, WithinLimit,
                 Accounted, Writing
<1>17. CASE Close
  <2>1. WithinLimit'
      BY <1>17, FS_EmptySet DEF Close, WithinLimit
  <2> QED BY <1>17, <2>1 DEF Close, client, TypeOK, InHand, Accounted, Writing
<1>18. CASE UNCHANGED vars
    BY <1>18 DEF vars, TypeOK, InHand, WithinLimit, Accounted, Writing
<1> QED
    BY <1>1, <1>2, <1>3, <1>4, <1>5, <1>6, <1>7, <1>8, <1>9, <1>10, <1>11, <1>12,
       <1>13, <1>14, <1>15, <1>16, <1>17, <1>18 DEF Next

LEMMA Invariance == Spec => []IInv
BY InitInv, StepInv, PTL DEF Spec

-----------------------------------------------------------------------------
\* Type correctness of RequestLimit.
THEOREM TypeCorrect == Spec => []TypeOK
BY Invariance, PTL DEF IInv

\* The SDK never holds more calls than maxInFlight, the one whose answer is
\* going out among them, however writes, reads and failures interleave; and until
\* a failure closes the stream the slots are exactly the open calls: none leaks,
\* and none is given back early.
THEOREM SlotAccounting == Spec => []CallsAccounted
<1>1. IInv => InFlightBounded
  <2> SUFFICES ASSUME IInv, ~ stopped PROVE InFlight <= MaxInFlight
      BY DEF InFlightBounded
  <2>1. sdk \subseteq pending /\ IsFiniteSet(pending)
      BY DEF IInv, Accounted, WithinLimit
  <2>2. Cardinality(sdk) <= Cardinality(pending)
      BY <2>1, FS_Subset
  <2>3. Cardinality(sdk) \in Nat /\ Cardinality(pending) \in Nat
      BY <2>1, FS_Subset, FS_CardinalityType
  <2> QED BY <2>2, <2>3, RequestLimitAssumption
          DEF IInv, Accounted, WithinLimit, InFlight, Writing
<1>2. IInv => SlotsExact
    BY DEF IInv, Accounted, SlotsExact, Writing
<1>3. IInv => CallsAccounted
    BY <1>1, <1>2 DEF CallsAccounted
<1> QED BY <1>3, Invariance, PTL

-----------------------------------------------------------------------------
(* Where a call the client has sent may be.                                *)

InInput(i, p) == p \in DOMAIN input /\ input[p].kind = "call" /\ input[p].id = i

InReader(i) ==
    /\ reader.pc \in {"admit", "busy"}
    /\ reader.frame.kind = "call" /\ reader.frame.id = i

InSlots(i) == i \in pending \cup sdk

InWriter(i) == writer.pc = "write" /\ writer.id = i

\* The call of an ID is in one place at a time, and its answer is still awaited.
OnePlace ==
    \A i \in Id :
        /\ awaited[i] \in 0..1
        /\ \A p, q \in Nat : InInput(i, p) /\ InInput(i, q) => p = q
        /\ \A p \in Nat : InInput(i, p) =>
               ~ InReader(i) /\ ~ InSlots(i) /\ ~ InWriter(i) /\ awaited[i] = 1
        /\ InReader(i) => ~ InSlots(i) /\ ~ InWriter(i) /\ awaited[i] = 1
        /\ InSlots(i) => ~ InWriter(i) /\ awaited[i] = 1
        /\ InWriter(i) => awaited[i] = 1

\* The busy response answers the call the reader holds; answers answer calls.
Answering ==
    /\ writer.pc = "busy" => reader.pc = "busy" /\ writer.id = reader.frame.id
    /\ writer.pc \in {"locked", "write"} => writer.id \in Id

\* What a client that awaits its answers can rely on.
Patient == Answering /\ (~ reused => OnePlace /\ "duplicate" \notin errors)

LEMMA StepPatient == IInv /\ Patient /\ [Next]_vars => Patient'
<1> SUFFICES ASSUME IInv, Patient, [Next]_vars PROVE Patient'
    OBVIOUS
<1>a. Answering'
  <2>1. CASE LockBusy
      BY <2>1, CallFrame DEF LockBusy, Unlocked, Answering, Patient, IInv, InHand, ReadDone
  <2>2. ASSUME NEW id \in Id, LockWrite(id) \/ WriteStopped(id) \/ WriteRefused(id)
        PROVE  Answering'
      BY <2>2 DEF LockWrite, WriteStopped, WriteRefused, Answering, Patient
  <2>3. CASE ReadFrame \/ ReadEnds \/ FrameRefused \/ AdmitFrame
      BY <2>3 DEF ReadFrame, ReadEnds, FrameRefused, AdmitFrame, Answering, Patient
  <2>4. CASE BeginResponses \/ WriteOut
      BY <2>4 DEF BeginResponses, WriteOut, Answering, Patient, IInv, TypeOK
  <2>5. CASE WriteBusy \/ FinishResponses \/ OtherFrame \/ OtherWritten
      BY <2>5 DEF WriteBusy, FinishResponses, OtherFrame, OtherWritten, Unlocked, Answering
  <2>6. ASSUME NEW f \in Frame, ClientSends(f) PROVE Answering'
      BY <2>6 DEF ClientSends, Answering, Patient
  <2>7. CASE ClientCloses \/ Close \/ UNCHANGED vars
      BY <2>7 DEF ClientCloses, Close, vars, Answering, Patient
  <2> QED BY <2>1, <2>2, <2>3, <2>4, <2>5, <2>6, <2>7 DEF Next
<1> SUFFICES ASSUME ~ reused' PROVE OnePlace' /\ "duplicate" \notin errors'
    BY <1>a DEF Patient
<1>b. ~ reused
    BY DEF Next, ClientSends, ClientCloses, ReadFrame, ReadEnds, FrameRefused, AdmitFrame,
           LockBusy, WriteBusy, LockWrite, WriteStopped, WriteRefused, BeginResponses,
           WriteOut, FinishResponses, OtherFrame, OtherWritten, Close, vars
<1>c. Answering /\ OnePlace /\ "duplicate" \notin errors
    BY <1>b DEF Patient
<1>t. TypeOK /\ awaited \in [Id -> Int] /\ input \in Seq(Frame)
    BY DEF IInv, TypeOK
<1> USE <1>c, <1>t
<1>1. ASSUME NEW f \in Frame, ClientSends(f) PROVE OnePlace' /\ "duplicate" \notin errors'
  <2>1. /\ input' = Append(input, f) /\ Len(input) \in Nat /\ Len(input') = Len(input) + 1
        /\ \A p \in DOMAIN input : input'[p] = input[p]
        /\ input'[Len(input) + 1] = f
        /\ DOMAIN input = 1..Len(input) /\ DOMAIN input' = 1..(Len(input) + 1)
      BY <1>1 DEF ClientSends
  <2>2. UNCHANGED <<reader, writer, sdk, pending, errors>>
      BY <1>1 DEF ClientSends, slots
  <2>3. CASE f.kind # "call"
    <3>1. awaited' = awaited
        BY <1>1, <2>3 DEF ClientSends
    <3>2. \A i \in Id, p \in Nat : InInput(i, p)' => InInput(i, p)
        BY <2>1, <2>3 DEF InInput
    <3> QED BY <2>2, <3>1, <3>2 DEF OnePlace, InReader, InSlots, InWriter
  <2>4. CASE f.kind = "call"
    <3>1. f.id \in Id /\ awaited' = [awaited EXCEPT ![f.id] = @ + 1] /\ ~ (awaited[f.id] > 0)
        BY <1>1, <2>4, CallFrame DEF ClientSends
    <3>2. awaited[f.id] = 0 /\ awaited'[f.id] = 1
        BY <3>1 DEF OnePlace
    <3>3. \A i \in Id \ {f.id} : awaited'[i] = awaited[i]
        BY <3>1
    <3>4. \A i \in Id, p \in Nat : InInput(i, p)' =>
              InInput(i, p) \/ (i = f.id /\ p = Len(input) + 1)
        BY <2>1, <2>4 DEF InInput
    <3>5. /\ \A p \in Nat : ~ InInput(f.id, p)
          /\ ~ InReader(f.id) /\ ~ InSlots(f.id) /\ ~ InWriter(f.id)
        BY <3>1, <3>2 DEF OnePlace
    <3>6. \A i \in Id : /\ InReader(i)' = InReader(i) /\ InSlots(i)' = InSlots(i)
                        /\ InWriter(i)' = InWriter(i)
        BY <2>2 DEF InReader, InSlots, InWriter
    <3>7. ASSUME NEW i \in Id, i # f.id
          PROVE  /\ awaited[i]' = awaited[i]
                 /\ \A p \in Nat : InInput(i, p)' => InInput(i, p)
        BY <3>3, <3>4, <3>7
    <3>8. \A p \in Nat : InInput(f.id, p)' => p = Len(input) + 1
        BY <3>1, <3>4, <3>5
    <3> HIDE DEF InInput, InReader, InSlots, InWriter
    <3> QED BY <2>2, <3>1, <3>2, <3>5, <3>6, <3>7, <3>8 DEF OnePlace
  <2> QED BY <2>3, <2>4
<1>2. CASE ReadFrame
  <2>1. /\ input # << >> /\ input' = Tail(input) /\ reader.pc = "read"
        /\ reader' = [pc |-> "admit", frame |-> Head(input)]
        /\ UNCHANGED <<writer, sdk, pending, awaited, errors>>
      BY <1>2 DEF ReadFrame, slots
  <2>2. /\ Len(input) \in Nat \ {0} /\ DOMAIN input = 1..Len(input)
        /\ DOMAIN Tail(input) = 1..(Len(input) - 1)
        /\ \A p \in 1..(Len(input) - 1) : Tail(input)[p] = input[p + 1]
        /\ Head(input) = input[1]
      BY <2>1
  <2>3. \A i \in Id, p \in Nat : InInput(i, p)' => InInput(i, p + 1) /\ p >= 1
      BY <2>1, <2>2 DEF InInput
  <2>4. \A i \in Id : InReader(i)' => InInput(i, 1)
      BY <2>1, <2>2 DEF InReader, InInput
  <2>5. ASSUME NEW i \in Id
        PROVE  InSlots(i)' = InSlots(i) /\ InWriter(i)' = InWriter(i) /\ awaited[i]' = awaited[i]
      BY <2>1 DEF InSlots, InWriter
  <2>6. ASSUME NEW i \in Id
        PROVE  /\ \A p, q \in Nat : InInput(i, p)' /\ InInput(i, q)' => p = q
               /\ \A p \in Nat : InInput(i, p)' => ~ InReader(i)'
    <3>1. \A p, q \in Nat : InInput(i, p + 1) /\ InInput(i, q + 1) => p = q
        BY DEF OnePlace
    <3>2. \A p \in Nat : InInput(i, p + 1) /\ InInput(i, 1) => p = 0
        BY DEF OnePlace
    <3> QED BY <2>3, <2>4, <3>1, <3>2
  <2> QED BY <2>1, <2>3, <2>4, <2>5, <2>6 DEF OnePlace
<1>3. CASE UNCHANGED <<input, awaited>> /\ "duplicate" \notin errors'
           /\ \A i \in Id : /\ InReader(i)' => InReader(i)
                            /\ InSlots(i)' => InSlots(i) \/ (InReader(i) /\ ~ InReader(i)')
                            /\ InWriter(i)' => InWriter(i) \/ (InSlots(i) /\ ~ InSlots(i)')
  <2>1. \A i \in Id, p \in Nat : InInput(i, p)' = InInput(i, p)
      BY <1>3 DEF InInput
  <2> QED BY <1>3, <2>1 DEF OnePlace
<1>4. CASE ReadEnds \/ FrameRefused
    BY <1>3, <1>4 DEF ReadEnds, FrameRefused, Refuses, ReadDone, client, slots,
                      InReader, InSlots, InWriter
<1>5. CASE AdmitFrame
  <2>1. reader.frame \in Frame /\ reader.pc = "admit"
        /\ UNCHANGED <<client, writer, awaited>>
      BY <1>5 DEF AdmitFrame, IInv, InHand
  <2>2. CASE UNCHANGED <<slots, sdk>> /\ reader' \in {ReadDone, InRead}
             /\ "duplicate" \notin errors'
      BY <1>3, <2>1, <2>2 DEF ReadDone, InRead, client, slots, InReader, InSlots, InWriter
  <2>3. CASE AdmitNonCall
      BY <1>3, <2>1, <2>3 DEF AdmitNonCall, Refuses, Goes, ReadDone, InRead, client, slots,
                              InReader, InSlots, InWriter
  <2>4. CASE reader.frame.kind = "call" /\ AdmitCall(reader.frame.id)
    <3> DEFINE id == reader.frame.id
    <3>1. id \in Id /\ InReader(id) /\ id \notin pending
        BY <2>1, <2>4, CallFrame DEF InReader, InSlots, OnePlace
    <3>2. CASE AtCapacity
      <4>1. /\ reader' = [reader EXCEPT !.pc = "busy"]
            /\ UNCHANGED <<pending, sdk, errors>>
          BY <2>4, <3>1, <3>2 DEF AdmitCall, Goes, slots
      <4>2. reader'.pc = "busy" /\ reader'.frame = reader.frame
          BY <4>1 DEF TypeOK
      <4> QED BY <1>3, <2>1, <4>1, <4>2 DEF client, InReader, InSlots, InWriter
    <3>3. CASE ~ AtCapacity
      <4>1. /\ pending' = pending \cup {id} /\ sdk' = sdk \cup {id}
            /\ reader' = InRead /\ UNCHANGED errors
          BY <2>4, <3>1, <3>3 DEF AdmitCall, Goes
      <4> QED BY <1>3, <2>1, <3>1, <4>1 DEF client, InRead, InReader, InSlots, InWriter
    <3> QED BY <3>2, <3>3
  <2> QED BY <1>5, <2>2, <2>3, <2>4 DEF AdmitFrame, Refuses, Goes
<1>6. CASE LockBusy
    BY <1>3, <1>6 DEF LockBusy, ReadDone, Unlocked, client, slots, InReader, InSlots, InWriter
<1>7. CASE WriteBusy
  <2>1. /\ reader.pc = "busy" /\ writer.id = reader.frame.id
        /\ reader.frame.kind = "call" /\ writer.id \in Id
      BY <1>7, CallFrame DEF WriteBusy, Answering, IInv, InHand
  <2>2. InReader(writer.id)
      BY <2>1 DEF InReader
  <2>3. CASE UNCHANGED awaited
      BY <1>3, <1>7, <2>3 DEF WriteBusy, ReadDone, InRead, Unlocked, client, slots,
                              InReader, InSlots, InWriter
  <2>4. CASE Answered(writer.id) /\ reader' = InRead /\ UNCHANGED errors
    <3> DEFINE id == writer.id
    <3>1. /\ awaited'[id] = 0
          /\ \A i \in Id \ {id} : awaited'[i] = awaited[i]
        BY <2>1, <2>2, <2>4 DEF Answered, OnePlace
    <3>2. /\ \A i \in Id : /\ ~ InReader(i)' /\ ~ InWriter(i)' /\ InSlots(i)' = InSlots(i)
                           /\ \A p \in Nat : InInput(i, p)' = InInput(i, p)
        BY <1>7, <2>4 DEF WriteBusy, Unlocked, InRead, client, slots, InReader, InSlots,
                          InWriter, InInput
    <3>3. ~ InSlots(id) /\ \A p \in Nat : ~ InInput(id, p)
        BY <2>1, <2>2 DEF OnePlace
    <3> HIDE DEF id
    <3> QED BY <2>4, <3>1, <3>2, <3>3 DEF OnePlace
  <2> QED BY <1>7, <2>3, <2>4 DEF WriteBusy
<1>8. ASSUME NEW id \in Id, LockWrite(id) \/ WriteStopped(id) \/ WriteRefused(id)
      PROVE  OnePlace' /\ "duplicate" \notin errors'
    BY <1>3, <1>8 DEF LockWrite, WriteStopped, WriteRefused, client, slots, InReader,
                      InSlots, InWriter
<1>9. CASE BeginResponses
  <2>1. /\ writer.pc = "locked" /\ writer.id \in Id /\ writer.id \in sdk
        /\ writer'.pc = "write" /\ writer'.id = writer.id
        /\ pending' = pending \ {writer.id} /\ sdk' = sdk \ {writer.id}
        /\ UNCHANGED <<input, awaited, reader, errors>>
      BY <1>9 DEF BeginResponses, client, TypeOK, IInv, InHand, Answering
  <2> QED BY <1>3, <2>1 DEF InReader, InSlots, InWriter
<1>10. CASE WriteOut
  <2> DEFINE id == writer.id
  <2>1. id \in Id /\ InWriter(id)
      BY <1>10 DEF WriteOut, Answering, InWriter
  <2>2. /\ awaited'[id] = 0
        /\ \A i \in Id \ {id} : awaited'[i] = awaited[i]
      BY <1>10, <2>1 DEF WriteOut, Answered, OnePlace
  <2>3. writer'.pc = "written" /\ UNCHANGED errors
      BY <1>10 DEF WriteOut, TypeOK
  <2>4. \A i \in Id : /\ ~ InWriter(i)' /\ InReader(i)' = InReader(i) /\ InSlots(i)' = InSlots(i)
                      /\ \A p \in Nat : InInput(i, p)' = InInput(i, p)
      BY <1>10, <2>3 DEF WriteOut, client, slots, InReader, InSlots, InWriter, InInput
  <2>5. ~ InSlots(id) /\ ~ InReader(id) /\ \A p \in Nat : ~ InInput(id, p)
      BY <2>1 DEF OnePlace
  <2> HIDE DEF id
  <2> QED BY <2>2, <2>3, <2>4, <2>5 DEF OnePlace
<1>11. CASE FinishResponses \/ OtherFrame \/ OtherWritten
    BY <1>3, <1>11 DEF FinishResponses, OtherFrame, OtherWritten, Unlocked, client, slots,
                       InReader, InSlots, InWriter
<1>12. CASE ClientCloses \/ Close \/ UNCHANGED vars
    BY <1>3, <1>12 DEF ClientCloses, Close, vars, client, slots, InReader, InSlots, InWriter
<1> QED BY <1>1, <1>2, <1>4, <1>5, <1>6, <1>7, <1>8, <1>9, <1>10, <1>11, <1>12 DEF Next

\* A client that uses an ID again only when it has the answer to its last use is
\* never cut off for a duplicate: the ID leaves pending before its answer can
\* reach the client, whatever the reader, the handlers and Close do meanwhile.
THEOREM DuplicatesAreReal == Spec => []NoFalseDuplicate
<1>1. Init => Patient
  <2> SUFFICES ASSUME Init PROVE Answering /\ OnePlace /\ "duplicate" \notin errors
      BY DEF Patient
  <2>1. \A i \in Id : ~ InReader(i) /\ ~ InSlots(i) /\ ~ InWriter(i) /\ awaited[i] = 0
      BY DEF Init, InRead, Unlocked, InReader, InSlots, InWriter
  <2>2. \A i \in Id, p \in Nat : ~ InInput(i, p)
      BY DEF Init, InInput
  <2> QED BY <2>1, <2>2 DEF Init, Unlocked, Answering, OnePlace
<1>2. Spec => []Patient
    BY <1>1, StepPatient, Invariance, PTL DEF Spec
<1>3. Patient => NoFalseDuplicate
    BY DEF Patient, NoFalseDuplicate
<1> QED BY <1>2, <1>3, PTL
=============================================================================
