----------------------------- MODULE DurableLog -----------------------------
(***************************************************************************)
(* What the audit log promises to the rest of the program, with files,     *)
(* locks, handles and processes forgotten: an append-only sequence of      *)
(* events on stable storage.  An event reaches it either with an answer to *)
(* the caller (`acked') or without one: the caller then got an error, or   *)
(* died, and learns from the replay at the next start whether the event is *)
(* there.  Nothing is ever removed, reordered or changed.                  *)
(***************************************************************************)
EXTENDS Naturals, Sequences

CONSTANT Event    \* what can be logged

VARIABLES
    stable,       \* the events on stable storage, in order
    acked         \* positions whose append was answered with success

vars == <<stable, acked>>

Init ==
    /\ stable = << >>
    /\ acked = {}

\* The append is answered in the step that makes its event stable: never
\* before, and never later on behalf of an append that failed.
AppendAnswered(e) ==
    /\ stable' = Append(stable, e)
    /\ acked' = acked \cup {Len(stable) + 1}

\* An append that failed, or whose caller died, leaves its event behind.
AppendUnanswered(e) ==
    /\ stable' = Append(stable, e)
    /\ UNCHANGED acked

Next == \E e \in Event : AppendAnswered(e) \/ AppendUnanswered(e)

Spec == Init /\ [][Next]_vars
=============================================================================
