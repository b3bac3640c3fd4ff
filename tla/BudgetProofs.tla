---------------------------- MODULE BudgetProofs ----------------------------
(***************************************************************************)
(* Proofs about Budget, for every set of clock readings, every window      *)
(* length and every set of limits.                                         *)
(***************************************************************************)
EXTENDS Budget, TLAPS

\* A Take under way was let in below the limit, and the file it renamed is the
\* memory's count and one more.
TakeOK ==
    /\ take # "none" => state.used < limit
    /\ take = "renamed" => disk = Charged(state)

\* The inductive invariant.
IInv == TypeOK /\ WindowsApart /\ ChargesSurvive /\ TakeOK

LEMMA InitIInv == Init => IInv
<1> SUFFICES ASSUME Init PROVE IInv
  OBVIOUS
<1> USE BudgetAssumption DEF Init
<1>1. TypeOK
  <2>1. Unused \in State
    BY DEF State, Unused
  <2>2. granted \in [Time -> Nat] /\ up \in BOOLEAN
    OBVIOUS
  <2> QED BY <2>1, <2>2 DEF TypeOK
<1>2. WindowsApart /\ ChargesSurvive /\ TakeOK
  BY DEF WindowsApart, ChargesSurvive, Accounts, TakeOK, Unused
<1> QED BY <1>1, <1>2 DEF IInv

\* The window a Take is charged to accounts for all that was admitted.
LEMMA CurrentAccounts ==
    ASSUME NEW s \in State, NEW now \in Time, granted \in [Time -> Nat], Accounts(s)
    PROVE  /\ Current(s, now) \in State
           /\ Current(s, now).start # None
           /\ Accounts(Current(s, now))
<1> USE BudgetAssumption
<1>1. CASE s.start = None
  <2>1. Current(s, now) = [start |-> now, used |-> 0]
    BY <1>1 DEF Current
  <2>2. \A t \in Time : ~ (granted[t] > 0)
    BY <1>1 DEF Accounts
  <2> QED BY <2>1, <2>2 DEF State, Accounts
<1>2. CASE s.start # None /\ now >= s.start /\ now - s.start >= Window
  <2>1. Current(s, now) = [start |-> now, used |-> 0]
    BY <1>2 DEF Current
  <2>2. s.start \in Nat /\ now \in Nat
    BY <1>2 DEF State
  <2>3. ASSUME NEW t \in Time, granted[t] > 0 PROVE t + Window <= now /\ t # now
    <3>1. t \in Nat
      OBVIOUS
    <3>2. CASE t = s.start
      BY <1>2, <2>2, <3>1, <3>2
    <3>3. CASE t # s.start
      BY <1>2, <2>2, <2>3, <3>1, <3>3 DEF Accounts
    <3> QED BY <3>2, <3>3
  <2> QED BY <2>1, <2>3 DEF State, Accounts
<1>3. CASE s.start # None /\ ~ (now >= s.start /\ now - s.start >= Window)
  BY <1>3 DEF Current
<1> QED BY <1>1, <1>2, <1>3

\* A further charge leaves nothing unaccounted for.
LEMMA ChargedAccounts ==
    ASSUME NEW s \in State, granted \in [Time -> Nat], Accounts(s)
    PROVE  /\ Charged(s) \in State
           /\ Charged(s).start = s.start /\ Charged(s).used = s.used + 1
           /\ Accounts(Charged(s))
<1>1. /\ Charged(s) \in State
      /\ Charged(s).start = s.start /\ Charged(s).used = s.used + 1
      /\ s.used \in Nat
  BY DEF Charged, State
<1> QED BY <1>1 DEF Accounts

LEMMA ChargeKeepsIInv ==
    ASSUME IInv, NEW now \in Time, Charge(now) PROVE IInv'
<1> USE DEF IInv, Charge
<1>1. /\ state' \in State /\ state'.start # None /\ Accounts(state')
      /\ granted' = granted /\ survivors' = survivors /\ disk' = disk
  BY CurrentAccounts DEF TypeOK, ChargesSurvive
<1>2. TypeOK'
  BY <1>1 DEF TypeOK
<1>3. WindowsApart'
  BY <1>1 DEF WindowsApart
<1>4. ChargesSurvive'
  BY <1>1 DEF ChargesSurvive, Accounts
<1>5. TakeOK'
  <2>1. state'.used \in Nat /\ limit \in Nat /\ limit' = limit
    BY <1>1, BudgetAssumption DEF TypeOK, State
  <2> QED BY <2>1 DEF TakeOK
<1> QED BY <1>2, <1>3, <1>4, <1>5

LEMMA RenameKeepsIInv == ASSUME IInv, Rename PROVE IInv'
<1> USE DEF IInv, Rename
<1>1. Charged(state) \in State /\ Accounts(Charged(state))
  BY ChargedAccounts DEF TypeOK, ChargesSurvive
<1>2. TypeOK'
  BY <1>1 DEF TypeOK
<1>3. WindowsApart' /\ TakeOK'
  BY DEF WindowsApart, TakeOK
<1>4. ChargesSurvive'
  BY <1>1 DEF ChargesSurvive, Accounts
<1> QED BY <1>2, <1>3, <1>4

\* What Admit does to the admissions, and that the window keeps to the limit.
LEMMA AdmitCounts ==
    ASSUME IInv, Admit
    PROVE  /\ disk.start \in Time /\ disk \in State
           /\ granted' = [granted EXCEPT ![disk.start] = @ + 1]
           /\ granted[disk.start] + 1 <= disk.used
           /\ disk.used <= limit /\ limit' = limit
           /\ \A t \in Time : granted[t] > 0 /\ t # disk.start => t + Window <= disk.start
<1> USE DEF IInv, Admit
<1>1. /\ state \in State /\ state.start # None /\ Accounts(state)
      /\ granted \in [Time -> Nat] /\ limit \in Nat
  BY BudgetAssumption DEF TypeOK, ChargesSurvive
<1>2. disk = Charged(state) /\ state.used < limit
  BY DEF TakeOK
<1>3. /\ disk \in State /\ disk.start = state.start /\ disk.used = state.used + 1
  BY <1>1, <1>2, ChargedAccounts
<1>4. state.start \in Time /\ state.used \in Nat
  BY <1>1 DEF State
<1>5. granted[state.start] \in Nat /\ granted[state.start] <= state.used
  BY <1>1, <1>4 DEF Accounts
<1>6. \A t \in Time : granted[t] > 0 /\ t # disk.start => t + Window <= disk.start
  BY <1>1, <1>3 DEF Accounts
<1> QED BY <1>1, <1>2, <1>3, <1>4, <1>5, <1>6

LEMMA AdmitKeepsIInv == ASSUME IInv, Admit PROVE IInv'
<1> USE BudgetAssumption DEF IInv
<1>a. /\ disk.start \in Time /\ disk \in State
      /\ granted' = [granted EXCEPT ![disk.start] = @ + 1]
      /\ granted[disk.start] + 1 <= disk.used
      /\ \A t \in Time : granted[t] > 0 /\ t # disk.start => t + Window <= disk.start
  BY AdmitCounts
<1> USE <1>a DEF Admit
<1>0. /\ granted \in [Time -> Nat] /\ granted' \in [Time -> Nat]
      /\ disk' = disk /\ survivors' = {disk} /\ state' = disk
      /\ granted'[disk.start] = granted[disk.start] + 1
      /\ \A t \in Time \ {disk.start} : granted'[t] = granted[t]
  <2>0. granted \in [Time -> Nat]
    BY DEF TypeOK
  <2>1. granted \in [Time -> Nat] /\ granted[disk.start] + 1 \in Nat
    <3>1. granted[disk.start] \in Nat
      BY <2>0, <1>a
    <3> QED BY <2>0, <3>1
  <2>2. granted' \in [Time -> Nat]
    BY <2>1
  <2>3. disk' = disk /\ survivors' = {disk} /\ state' = disk
    OBVIOUS
  <2> QED BY <2>1, <2>2, <2>3
<1>1. TypeOK'
  BY <1>0 DEF TypeOK
<1>2. WindowsApart'
  <2> SUFFICES ASSUME NEW s \in Time, NEW t \in Time,
                      granted'[s] > 0, granted'[t] > 0, s < t
               PROVE  t - s >= Window
    BY DEF WindowsApart
  <2>0. s \in Nat /\ t \in Nat /\ disk.start \in Nat /\ Window \in Nat \ {0}
    OBVIOUS
  <2>1. CASE s = disk.start
    <3>1. t + Window <= disk.start
      BY <1>0, <2>0, <2>1
    <3> QED BY <2>0, <2>1, <3>1
  <2>2. CASE t = disk.start
    <3>1. s + Window <= disk.start
      BY <1>0, <2>0, <2>2
    <3> QED BY <2>0, <2>2, <3>1
  <2>3. CASE s # disk.start /\ t # disk.start
    BY <1>0, <2>3 DEF WindowsApart
  <2> QED BY <2>1, <2>2, <2>3
<1>3. ChargesSurvive'
  <2>1. /\ disk.start # None
        /\ \A t \in Time : granted'[t] > 0 =>
               IF t = disk.start THEN granted'[t] <= disk.used
                                 ELSE t + Window <= disk.start
    BY <1>0
  <2> QED BY <1>0, <2>1 DEF ChargesSurvive, Accounts
<1>4. TakeOK'
  BY DEF TakeOK
<1> QED BY <1>1, <1>2, <1>3, <1>4

LEMMA NextKeepsIInv == IInv /\ [Next]_vars => IInv'
<1> SUFFICES ASSUME IInv, [Next]_vars PROVE IInv'
  OBVIOUS
<1>1. ASSUME NEW l \in Limits, Open(l) PROVE IInv'
  BY <1>1 DEF IInv, Open, TypeOK, WindowsApart, ChargesSurvive, Accounts, TakeOK
<1>2. ASSUME NEW now \in Time, Charge(now) PROVE IInv'
  BY <1>2, ChargeKeepsIInv
<1>3. CASE Rename
  BY <1>3, RenameKeepsIInv
<1>4. CASE Admit
  BY <1>4, AdmitKeepsIInv
<1>5. CASE ReplaceFails
  BY <1>5 DEF IInv, ReplaceFails, TypeOK, WindowsApart, ChargesSurvive, Accounts, TakeOK
<1>6. Unused \in State
  BY DEF Unused, State
<1>7. CASE Exit
  BY <1>6, <1>7 DEF IInv, Exit, TypeOK, WindowsApart, ChargesSurvive, Accounts, TakeOK
<1>8. CASE PowerLoss
  BY <1>6, <1>8 DEF IInv, PowerLoss, TypeOK, WindowsApart, ChargesSurvive, Accounts, TakeOK
<1>9. CASE UNCHANGED vars
  BY <1>9 DEF vars, IInv, TypeOK, WindowsApart, ChargesSurvive, Accounts, TakeOK
<1> QED BY <1>1, <1>2, <1>3, <1>4, <1>5, <1>7, <1>8, <1>9 DEF Next

THEOREM Invariance == Spec => []IInv
<1> QED BY InitIInv, NextKeepsIInv, PTL DEF Spec

\* Two windows in which something was admitted are a full window apart, for
\* every clock, through restarts, failed writes and power losses.
THEOREM Replenishment == Spec => []WindowsApart
<1>1. IInv => WindowsApart
  BY DEF IInv
<1> QED BY Invariance, <1>1, PTL

\* No power loss takes back a charge whose operation was admitted.
THEOREM ChargeDurability == Spec => []ChargesSurvive
<1>1. IInv => ChargesSurvive
  BY DEF IInv
<1> QED BY Invariance, <1>1, PTL

LEMMA OnlyAdmitGrants == [Next]_vars => granted' = granted \/ Admit
<1> SUFFICES ASSUME [Next]_vars PROVE granted' = granted \/ Admit
  OBVIOUS
<1> QED BY DEF Next, Open, Charge, Rename, ReplaceFails, Exit, PowerLoss, vars

\* No admission takes its window beyond the limit of the process that grants it.
THEOREM LimitKept == Spec => NeverBeyondLimit
<1>1. IInv /\ [Next]_vars =>
        [\A t \in Time : granted'[t] > granted[t] => granted'[t] <= limit]_vars
  <2> SUFFICES ASSUME IInv, [Next]_vars, NEW t \in Time, granted'[t] > granted[t]
               PROVE  granted'[t] <= limit
    OBVIOUS
  <2>0. granted \in [Time -> Nat] /\ limit \in Nat
    BY BudgetAssumption DEF IInv, TypeOK
  <2>1. CASE granted' = granted
    BY <2>0, <2>1
  <2>2. CASE Admit
    <3>1. t = disk.start /\ granted'[t] = granted[t] + 1
      BY <2>0, <2>2, AdmitCounts
    <3>2. disk.used \in Nat /\ granted[t] \in Nat
      BY <2>0, <2>2, AdmitCounts DEF State
    <3> QED BY <2>0, <2>2, <3>1, <3>2, AdmitCounts
  <2> QED BY <2>1, <2>2, OnlyAdmitGrants
<1> QED BY Invariance, <1>1, PTL DEF Spec, NeverBeyondLimit
=============================================================================
