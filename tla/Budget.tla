------------------------------- MODULE Budget -------------------------------
(***************************************************************************)
(* internal/budget: the durable fixed-window counters that limit requests, *)
(* guard calls and MCP frames, over securestore.Replace.                   *)
(*                                                                         *)
(* A Take is three steps here, because a failure, a process death or a     *)
(* power loss may come between them: the charge is computed, the new file  *)
(* is renamed into place, the directory is synced and the caller admitted. *)
(* The counter's mutex keeps Takes apart.  The clock is not a variable:    *)
(* each Take is given any time at all, which covers clocks set back or     *)
(* forward and a time read before another Take got the mutex.              *)
(***************************************************************************)
EXTENDS Integers

CONSTANTS
    Time,         \* the clock readings
    Window,       \* length of a window
    Limits,       \* limits a process may be configured with
    None          \* no file, no window yet

ASSUME BudgetAssumption ==
    /\ Time \subseteq Nat
    /\ Window \in Nat \ {0}
    /\ Limits \subseteq Nat \ {0}
    /\ None \notin Time

VARIABLES
    disk,         \* the counter file as reads see it
    survivors,    \* what the file may be after a power loss
    up,           \* a process has the counter open
    limit,        \* its limit
    state,        \* c.state, in memory
    take,         \* the Take under way: "none", "charged" or "renamed"
    granted       \* history: operations admitted, by the window's start

vars == <<disk, survivors, up, limit, state, take, granted>>

Unused == [start |-> None, used |-> 0]
State == [start : Time \cup {None}, used : Nat]

TypeOK ==
    /\ disk \in State
    /\ survivors \subseteq State
    /\ disk \in survivors
    /\ up \in BOOLEAN
    /\ limit \in Limits
    /\ state \in State
    /\ take \in {"none", "charged", "renamed"}
    /\ take # "none" => up /\ state.start # None
    /\ granted \in [Time -> Nat]

\* No file is the unused state: Open leaves c.state zero, and a first Take
\* starts the window.
Init ==
    /\ disk = Unused
    /\ survivors = {Unused}
    /\ up = FALSE
    /\ limit \in Limits
    /\ state = Unused
    /\ take = "none"
    /\ granted = [t \in Time |-> 0]

\* Mutant of Open: every process starts with a full allowance.
OpenFresh(l) ==
    /\ ~ up
    /\ up' = TRUE
    /\ limit' = l
    /\ state' = Unused
    /\ survivors' = {disk}
    /\ UNCHANGED <<disk, take, granted>>

\* Open loads the file from the store, which syncs its directory as it opens.
Open(l) ==
    /\ ~ up
    /\ up' = TRUE
    /\ limit' = l
    /\ state' = disk
    /\ survivors' = {disk}
    /\ UNCHANGED <<disk, take, granted>>

\* Mutant of Current: a clock set back starts a new window.
CurrentOnRollback(s, now) ==
    IF s.start = None \/ now < s.start \/ now - s.start >= Window
    THEN [start |-> now, used |-> 0]
    ELSE s

\* The window a Take at time now is charged to: a new one once the old one is
\* over, never because the clock was set back.
Current(s, now) ==
    IF s.start = None \/ (now >= s.start /\ now - s.start >= Window)
    THEN [start |-> now, used |-> 0]
    ELSE s

Charged(s) == [s EXCEPT !.used = @ + 1]

\* Take decides, and keeps the current window in memory whatever comes next.
\* A spent window is refused there.
Charge(now) ==
    /\ up /\ take = "none"
    /\ state' = Current(state, now)
    /\ take' = IF state'.used >= limit THEN "none" ELSE "charged"
    /\ UNCHANGED <<disk, survivors, up, limit, granted>>

\* Replace renames the synced temporary file over the counter.
Rename ==
    /\ take = "charged"
    /\ disk' = Charged(state)
    /\ survivors' = survivors \cup {disk'}
    /\ take' = "renamed"
    /\ UNCHANGED <<up, limit, state, granted>>

\* Mutant of Admit: the operation is admitted without the directory sync.
AdmitUnsynced ==
    /\ take = "renamed"
    /\ state' = disk
    /\ granted' = [granted EXCEPT ![disk.start] = @ + 1]
    /\ take' = "none"
    /\ UNCHANGED <<disk, survivors, up, limit>>

\* The directory sync makes the rename durable, and Take returns true.
Admit ==
    /\ take = "renamed"
    /\ survivors' = {disk}
    /\ state' = disk
    /\ granted' = [granted EXCEPT ![disk.start] = @ + 1]
    /\ take' = "none"
    /\ UNCHANGED <<disk, up, limit>>

\* Replace fails before or after its rename: nobody is admitted, memory keeps
\* the old count, and the file may be ahead of it.
ReplaceFails ==
    /\ take # "none"
    /\ take' = "none"
    /\ UNCHANGED <<disk, survivors, up, limit, state, granted>>

\* Close, or the death of the process.
Exit ==
    /\ up
    /\ up' = FALSE
    /\ take' = "none"
    /\ state' = Unused
    /\ UNCHANGED <<disk, survivors, limit, granted>>

\* A power loss undoes renames that no directory sync followed, or keeps them.
PowerLoss ==
    /\ up' = FALSE
    /\ take' = "none"
    /\ state' = Unused
    /\ \E s \in survivors : disk' = s /\ survivors' = {s}
    /\ UNCHANGED <<limit, granted>>

Next ==
    \/ \E l \in Limits : Open(l)
    \/ \E now \in Time : Charge(now)
    \/ Rename
    \/ Admit
    \/ ReplaceFails
    \/ Exit
    \/ PowerLoss

Spec == Init /\ [][Next]_vars

-----------------------------------------------------------------------------
(* Properties.                                                             *)

\* Take: an admission never takes a window beyond the limit the process runs
\* with, counting what earlier processes admitted in that window.
NeverBeyondLimit ==
    [][\A t \in Time : granted'[t] > granted[t] => granted'[t] <= limit]_vars

\* Take: two windows that admitted something are a full window apart, so no
\* restart, failed write, power loss or clock change replenishes an allowance.
WindowsApart ==
    \A s, t \in Time :
        granted[s] > 0 /\ granted[t] > 0 /\ s < t => t - s >= Window

\* A counter accounts for what was admitted: it covers the admissions of its
\* window, and every other window that admitted anything is over.
Accounts(s) ==
    \A t \in Time : granted[t] > 0 =>
        /\ s.start # None
        /\ IF t = s.start THEN granted[t] <= s.used ELSE t + Window <= s.start

\* Replace: every admission returned to a caller is in the file whatever a
\* power loss makes of the renames in flight, and in memory.
ChargesSurvive ==
    /\ \A s \in survivors : Accounts(s)
    /\ up => Accounts(state)
=============================================================================
