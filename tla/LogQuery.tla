------------------------------ MODULE LogQuery -------------------------------
(***************************************************************************)
(* internal/cli/logs.go: `turnwire log list', `show' and `export', each of *)
(* which walks the verified log once, entry by entry, in bounded memory.   *)
(*                                                                         *)
(* list keeps a window of the newest matching entries and gives up what    *)
(* does not fit its memory before it knows which entries the window will   *)
(* end with; show keeps every entry of one ID; export writes a redacted    *)
(* line for every entry and a signed checkpoint after the last.  The walk  *)
(* holds the log's exclusive lock (see AuditLog), so the log stands still. *)
(*                                                                         *)
(* Abstracted: an entry is whether the filter or the ID selects it, and    *)
(* the bytes of its text and details; a redacted line is its number.       *)
(***************************************************************************)
EXTENDS Integers, Sequences, SequencesExt

CONSTANTS
    MaxEntries,   \* bound: entries in the log
    Sizes,        \* what logEntrySize can be
    Limits,       \* values of --limit
    Budgets       \* values of maxBytes

LogQueryAssumption ==
    /\ MaxEntries \in Nat
    /\ Sizes \subseteq Nat
    /\ Limits \subseteq Nat \ {0}
    /\ Budgets \subseteq Nat

VARIABLES
    log,          \* the entries
    query,        \* the command, its limit and budget, what is at its path
    at,           \* entries visited
    kept,         \* list and show: positions of the entries retained
    matching,     \* list: selected entries seen
    lastBudgetDrop, \* list: ordinal of the last one given up for its size
    export,       \* the file at the export path
    result        \* "none", or how the command ended

vars == <<log, query, at, kept, matching, lastBudgetDrop, export, result>>

Entry == [selected : BOOLEAN, size : Sizes]

\* No file, one that was there before, and the one this command makes.
NoFile == [by |-> "nobody", lines |-> << >>, durable |-> FALSE]
FormerFile == [by |-> "former", lines |-> << >>, durable |-> TRUE]
Made(lines, durable) == [by |-> "export", lines |-> lines, durable |-> durable]

Init ==
    /\ log \in UNION {[1..n -> Entry] : n \in 0..MaxEntries}
    /\ query \in [command : {"list"}, limit : Limits, budget : Budgets]
              \cup [command : {"show"}, budget : Budgets]
              \cup [command : {"export"}, path : {NoFile, FormerFile}]
    /\ at = 0
    /\ kept = << >>
    /\ matching = 0
    /\ lastBudgetDrop = 0
    /\ export = IF query.command = "export" THEN query.path ELSE NoFile
    /\ result = "none"

Running(command) == query.command = command /\ result = "none"

\* What a sequence of positions retains.
Bytes(positions) ==
    LET sum[n \in 0..Len(positions)] ==
            IF n = 0 THEN 0 ELSE sum[n - 1] + log[positions[n]].size
    IN  sum[Len(positions)]

\* The longest end of s that satisfies P.
LongestEnd(s, P(_)) ==
    LET n == CHOOSE n \in 0..Len(s) :
                 /\ P(SubSeq(s, n + 1, Len(s)))
                 /\ \A m \in 0..(n - 1) : ~ P(SubSeq(s, m + 1, Len(s)))
    IN  SubSeq(s, n + 1, Len(s))

-----------------------------------------------------------------------------
(* log list.                                                               *)

\* Mutant of Visit: an entry over the budget is left out, the older ones stay.
VisitSkipping ==
    /\ Running("list")
    /\ at < Len(log)
    /\ at' = at + 1
    /\ IF ~ log[at + 1].selected THEN UNCHANGED <<kept, matching, lastBudgetDrop>>
       ELSE LET window == LongestEnd(Append(kept, at + 1), LAMBDA s : Len(s) <= query.limit)
                fits == Bytes(window) <= query.budget
            IN  /\ matching' = matching + 1
                /\ kept' = IF fits THEN window ELSE Front(window)
                /\ lastBudgetDrop' = IF fits THEN lastBudgetDrop ELSE matching'
    /\ UNCHANGED <<log, query, export, result>>

\* scanLogEntries' visitor: the new entry pushes out the oldest, first those
\* beyond the limit, then as many as the budget asks for, itself perhaps.
Visit ==
    /\ Running("list")
    /\ at < Len(log)
    /\ at' = at + 1
    /\ IF ~ log[at + 1].selected THEN UNCHANGED <<kept, matching, lastBudgetDrop>>
       ELSE LET window == LongestEnd(Append(kept, at + 1), LAMBDA s : Len(s) <= query.limit)
                fitting == LongestEnd(window, LAMBDA s : Bytes(s) <= query.budget)
            IN  /\ matching' = matching + 1
                /\ kept' = fitting
                /\ lastBudgetDrop' = IF fitting = window THEN lastBudgetDrop
                                     ELSE matching' - Len(fitting)
    /\ UNCHANGED <<log, query, export, result>>

\* An error, if what was given up for its size belongs to the final window.
List ==
    LET start == matching - query.limit + 1 IN
    /\ Running("list")
    /\ at = Len(log)
    /\ result' = IF lastBudgetDrop >= (IF start < 1 THEN 1 ELSE start)
                 THEN "exceeds" ELSE "listed"
    /\ UNCHANGED <<log, query, at, kept, matching, lastBudgetDrop, export>>

-----------------------------------------------------------------------------
(* log show.                                                               *)

\* scanLogMatches' visitor stops the walk at the first entry too many.
Match ==
    /\ Running("show")
    /\ at < Len(log)
    /\ at' = at + 1
    /\ IF ~ log[at + 1].selected THEN UNCHANGED <<kept, result>>
       ELSE IF Bytes(kept) + log[at + 1].size > query.budget
       THEN result' = "exceeds" /\ UNCHANGED kept
       ELSE kept' = Append(kept, at + 1) /\ UNCHANGED result
    /\ UNCHANGED <<log, query, matching, lastBudgetDrop, export>>

Show ==
    /\ Running("show")
    /\ at = Len(log)
    /\ result' = IF kept = << >> THEN "not found" ELSE "shown"
    /\ UNCHANGED <<log, query, at, kept, matching, lastBudgetDrop, export>>

-----------------------------------------------------------------------------
(* log export.                                                             *)

Checkpoint(n) == [kind |-> "checkpoint", seq |-> n]
Exported(i) == [kind |-> "entry", seq |-> i]

\* The file must be new: O_EXCL refuses an existing one, and the command fails.
Create ==
    /\ Running("export")
    /\ export = NoFile
    /\ export' = Made(<< >>, FALSE)
    /\ UNCHANGED <<log, query, at, kept, matching, lastBudgetDrop, result>>

\* The log's visitor encodes one line; Head and the checkpoint come after the
\* last.
Encode ==
    /\ Running("export")
    /\ export.by = "export" /\ Len(export.lines) <= Len(log)
    /\ IF at < Len(log)
       THEN at' = at + 1 /\ export' = Made(Append(export.lines, Exported(at + 1)), FALSE)
       ELSE export' = Made(Append(export.lines, Checkpoint(Len(log))), FALSE) /\ UNCHANGED at
    /\ UNCHANGED <<log, query, kept, matching, lastBudgetDrop, result>>

\* file.Sync and parent.Sync; the command reports success.
Complete ==
    /\ Running("export")
    /\ export.by = "export" /\ Len(export.lines) = Len(log) + 1
    /\ export' = Made(export.lines, TRUE)
    /\ result' = "exported"
    /\ UNCHANGED <<log, query, at, kept, matching, lastBudgetDrop>>

\* Any step fails: the file is unlinked, if this command made it.
ExportFails ==
    /\ Running("export")
    /\ result' = "failed"
    /\ export' = IF export.by = "export" THEN NoFile ELSE export
    /\ UNCHANGED <<log, query, at, kept, matching, lastBudgetDrop>>

\* The process is killed: nothing is reported and the file stays.
ExportDies ==
    /\ Running("export")
    /\ result' = "killed"
    /\ UNCHANGED <<log, query, at, kept, matching, lastBudgetDrop, export>>

-----------------------------------------------------------------------------

Next ==
    \/ Visit \/ List
    \/ Match \/ Show
    \/ Create \/ Encode \/ Complete \/ ExportFails \/ ExportDies

Spec == Init /\ [][Next]_vars

-----------------------------------------------------------------------------
(* Reference and properties.                                               *)

\* The positions selected among the first n entries, and among all.
Selection[n \in 0..Len(log)] ==
    IF n = 0 THEN << >>
    ELSE IF log[n].selected THEN Append(Selection[n - 1], n) ELSE Selection[n - 1]

Selected == Selection[Len(log)]

\* scanLogEntries and scanLogMatches: list answers with exactly the newest
\* matching entries, as many as were asked for, and show with all of them; they
\* refuse exactly when these would not fit, whatever older entries had to be
\* given up on the way.
ExactAnswers ==
    LET newest == LongestEnd(Selected, LAMBDA s : Len(s) <= query.limit)
        wanted == IF query.command = "list" THEN newest ELSE Selected
        fits == Bytes(wanted) <= query.budget IN
    /\ result \in {"listed", "shown", "not found"} => fits /\ kept = wanted
    /\ result = "not found" => wanted = << >>
    /\ result = "exceeds" => ~ fits

\* runLogExport: success means a durable file with every entry and the
\* checkpoint of the last; a reported failure leaves the path as it was; and a
\* file of a command that was killed shows a checkpoint only behind every entry
\* it covers.
ExportWhole ==
    LET whole == [i \in 1..Len(log) |-> Exported(i)] \o << Checkpoint(Len(log)) >>
    IN  query.command = "export" =>
            /\ result = "exported" => export = Made(whole, TRUE)
            /\ result = "failed" => export = query.path
            /\ export.by = "export" => IsPrefix(export.lines, whole)

\* The two together: a query answers exactly or refuses, and an export is whole
\* or was not made.
QueriesExact == ExactAnswers /\ ExportWhole
=============================================================================
