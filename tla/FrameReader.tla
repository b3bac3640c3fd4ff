---------------------------- MODULE FrameReader -----------------------------
(***************************************************************************)
(* internal/mcpserver/frame_reader.go: newline-delimited frames of bounded *)
(* size, cut out of a byte stream that arrives through a bufio buffer.     *)
(*                                                                         *)
(* readFrame decides fragment by fragment, before it has seen the end of a *)
(* line, whether the line can still fit; the exact limit is on the payload *)
(* without its LF or CR LF.  The machine is run on every short stream and  *)
(* compared with a definition that sees the whole stream at once.          *)
(*                                                                         *)
(* Abstracted: a byte is a carriage return, a line feed or something else; *)
(* text is valid JSON if it holds something else.  Lengths do not overflow *)
(* and the stream ends; a read error is an end with another name.          *)
(***************************************************************************)
EXTENDS Integers, Sequences, SequencesExt

CONSTANTS
    MaxStream,    \* bound: length of the streams
    Limits,       \* frame limits
    Buffers       \* sizes of the bufio buffer

FrameReaderAssumption ==
    /\ MaxStream \in Nat
    /\ Limits \subseteq Nat \ {0}
    /\ Buffers \subseteq Nat \ {0}

VARIABLES
    stream,       \* what the peer sends before it closes its end
    limit,        \* r.limit
    buffer,       \* size of the bufio buffer
    at,           \* bytes read so far
    frame,        \* what the present readFrame has collected
    afterErr,     \* r.afterErr
    given         \* history: frames ReadFrame returned

vars == <<stream, limit, buffer, at, frame, afterErr, given>>

CR == "CR"
LF == "LF"
Byte == {CR, LF, "x"}

Init ==
    /\ stream \in UNION {[1..n -> Byte] : n \in 0..MaxStream}
    /\ limit \in Limits
    /\ buffer \in Buffers
    /\ at = 0
    /\ frame = << >>
    /\ afterErr = "none"
    /\ given = << >>

Ends(s, b) == Len(s) > 0 /\ Last(s) = b

\* validateStrictJSONText.
ValidText(s) == "x" \in ToSet(s)

\* A line without its terminator.
Payload(s) ==
    IF ~ Ends(s, LF) THEN s
    ELSE IF Ends(Front(s), CR) THEN Front(Front(s)) ELSE Front(s)

\* ReadSlice: up to a line feed, a full buffer, or whatever is left.
Fragment ==
    LET rest == SubSeq(stream, at + 1, Len(stream))
        nl == SelectInSeq(rest, LAMBDA b : b = LF)
        full == IF Len(rest) < buffer THEN Len(rest) ELSE buffer
    IN  SubSeq(rest, 1, IF nl \in 1..full THEN nl ELSE full)

\* Mutant of FragmentFits: no byte is allowed for the carriage return.
FragmentFitsBareLF(current, f) ==
    current + Len(f) <= limit + (IF Ends(f, LF) THEN 1 ELSE 0)

\* frameFragmentFits: one byte more than the limit fits while it may be the
\* carriage return of the terminator.
FragmentFits(current, f) ==
    LET total == current + Len(f) IN
    IF Ends(f, LF)
    THEN \/ total - 1 <= limit
         \/ /\ total - 1 = limit + 1
            /\ IF Len(f) >= 2 THEN f[Len(f) - 1] = CR ELSE current > 0
    ELSE \/ total <= limit
         \/ total = limit + 1 /\ Ends(f, CR)

\* What readFrame makes of a complete line, or of what the stream ended in.
ErrorIn(line) ==
    IF Len(Payload(line)) > limit THEN "too large"
    ELSE IF ~ ValidText(Payload(line)) THEN "invalid"
    ELSE "none"

\* readFrame returns the line with the error the next call is to return, or
\* an error of its own, which every later call returns.
Return(line, next) ==
    IF ErrorIn(line) = "none"
    THEN given' = Append(given, line) /\ afterErr' = next
    ELSE UNCHANGED given /\ afterErr' = ErrorIn(line)

\* One turn of readFrame's loop.
Turn ==
    LET f == Fragment
        line == frame \o f
        fits == FragmentFits(Len(frame), f) IN
    /\ afterErr = "none"
    /\ at' = at + Len(f)
    /\ \/ /\ ~ fits
          /\ frame' = << >> /\ afterErr' = "too large"
          /\ UNCHANGED given
       \/ /\ fits /\ Ends(f, LF)
          /\ frame' = << >>
          /\ Return(line, "none")
       \/ /\ fits /\ ~ Ends(f, LF) /\ Len(f) = buffer
          /\ frame' = line
          /\ UNCHANGED <<afterErr, given>>
       \/ /\ fits /\ ~ Ends(f, LF) /\ at' = Len(stream)
          /\ frame' = << >>
          /\ IF line = << >> THEN afterErr' = "EOF" /\ UNCHANGED given
                             ELSE Return(line, "EOF")
    /\ UNCHANGED <<stream, limit, buffer>>

Next == Turn

Spec == Init /\ [][Next]_vars

-----------------------------------------------------------------------------
(* Reference and properties.                                               *)

\* The lines of a stream, the last of them perhaps without its line feed: where
\* they end, where the k-th one does (0 before the first), and the lines.
LineEnds(s) == {i \in 1..Len(s) : s[i] = LF \/ i = Len(s)}

LineEnd(s, k) ==
    CHOOSE e \in LineEnds(s) \cup {0} : Cardinality({i \in LineEnds(s) : i <= e}) = k

LinesOf(s) ==
    [k \in 1..Cardinality(LineEnds(s)) |-> SubSeq(s, LineEnd(s, k - 1) + 1, LineEnd(s, k))]

\* readFrame: whatever the buffer splits, ReadFrame returns exactly the lines
\* before the first one whose payload is over the limit or invalid, unchanged
\* and in order, and then the error of that line or the end of the stream; and a
\* peer that never ends its line makes the endpoint hold no more of it than the
\* limit and the one byte that may be its carriage return.
ExactFrames ==
    LET lines == LinesOf(stream)
        n == Len(given) IN
    /\ IsPrefix(given, lines)
    /\ \A k \in 1..n : ErrorIn(lines[k]) = "none"
    /\ afterErr # "none" =>
           IF n = Len(lines) THEN afterErr = "EOF"
                             ELSE afterErr = ErrorIn(lines[n + 1])
    /\ Len(frame) <= limit + 1
=============================================================================
