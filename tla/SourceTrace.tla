----------------------------- MODULE SourceTrace -----------------------------
(***************************************************************************)
(* The pure part of packages/core/src/extract.ts: which messages of a      *)
(* session an extraction pass shows to the agent, which of them it appends *)
(* to the session's source trace, and which lines of the trace the         *)
(* memories written by the pass will cite.                                 *)
(*                                                                         *)
(* Messages are cleaned messages: cleanMessages works message by message,  *)
(* so the cleaned form of a longer session extends the cleaned form of a   *)
(* shorter one.  Two equal values are two messages with the same trace     *)
(* line.  The cursor is the 0-based index of the last processed message;   *)
(* NoCursor stands for null, which the code treats like a negative index.  *)
(***************************************************************************)
EXTENDS Integers, Sequences, SequencesExt

CONSTANTS
  MaxMessages,  \* EXTRACTION_MAX_MESSAGES
  ContextSize   \* EXTRACTION_CONTEXT_WINDOW_SIZE

ASSUME WindowAssumption ==
  /\ MaxMessages \in Nat \ {0}
  /\ ContextSize \in Nat

NoCursor == -1

LastN(s, n) == SubSeq(s, IF n < Len(s) THEN Len(s) - n + 1 ELSE 1, Len(s))

\* The cursor does not index into the messages: treated as a first run.
FirstRun(msgs, cursor) == cursor < 0 \/ cursor >= Len(msgs)

Unprocessed(msgs, cursor) ==
  IF FirstRun(msgs, cursor) THEN msgs ELSE SubSeq(msgs, cursor + 2, Len(msgs))

\* selectMessagesForSourceTrace: the newest unprocessed messages.
SelectForTrace(msgs, cursor) == LastN(Unprocessed(msgs, cursor), MaxMessages)

\* selectMessagesForExtraction: the same, preceded by some processed messages as
\* context when there is room.
SelectForExtraction(msgs, cursor) ==
  LET new     == Unprocessed(msgs, cursor)
      room    == MaxMessages - Len(new)
      context == Min({ContextSize, cursor + 1, room})
  IN  IF new = <<>> THEN <<>>
      ELSE IF FirstRun(msgs, cursor) \/ room <= 0 THEN LastN(new, MaxMessages)
      ELSE SubSeq(msgs, cursor + 2 - context, Len(msgs))

\* Fault: the search for the overlap goes up and stops at the first match.
OverlapShortest(lines, next) ==
  LET overlaps == {n \in 1 .. Min({Len(lines), Len(next)}) :
                     SubSeq(next, 1, n) = LastN(lines, n)}
  IN  IF overlaps = {} THEN 0 ELSE Min(overlaps)

\* countSourceTraceOverlap: the length of the longest suffix of the trace that
\* the next lines begin with.
Overlap(lines, next) ==
  LET overlaps == {n \in 1 .. Min({Len(lines), Len(next)}) :
                     SubSeq(next, 1, n) = LastN(lines, n)}
  IN  IF overlaps = {} THEN 0 ELSE Max(overlaps)

\* The lines appendSourceTrace adds to the file.
NewLines(lines, next) == SubSeq(next, Overlap(lines, next) + 1, Len(next))

AppendTrace(lines, next) == lines \o NewLines(lines, next)

\* Fault: the start is computed after the lines were added.
SourceRefAfterAppend(lines, next) ==
  LET new == NewLines(lines, next)
  IN  [start |-> Len(lines) + Len(new), end |-> Len(lines) + Len(new)]

\* The reference appendSourceTrace returns: 1-based line numbers.
SourceRef(lines, next) ==
  LET new == NewLines(lines, next)
  IN  [start |-> IF new # <<>> THEN Len(lines) + 1
                 ELSE Len(lines) - Overlap(lines, next) + 1,
       end   |-> Len(lines) + Len(new)]

Cited(lines, ref) == SubSeq(lines, ref.start, ref.end)
==============================================================================
