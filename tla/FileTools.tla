------------------------------ MODULE FileTools ------------------------------
(***************************************************************************)
(* What the read tools of the memory agents answer                         *)
(* (packages/core/src/file-tools.ts): the lines of a file and the entries  *)
(* of a directory by offset and limit, glob and grep cut at GLOB_LIMIT and *)
(* GREP_LIMIT.  An answer is what it shows and what its footer says: the   *)
(* offset to go on with, or that matches are hidden.  The write tools are  *)
(* the subject of MemoryStore.                                             *)
(*                                                                         *)
(* Lines, entries and matches are values; a match has the time of its file *)
(* and, for grep, its place in it.                                         *)
(***************************************************************************)
EXTENDS Integers, Sequences, FiniteSets, SequencesExt, FiniteSetsExt

CONSTANT SearchLimit  \* GLOB_LIMIT, GREP_LIMIT

ASSUME SearchAssumption == SearchLimit \in Nat \ {0}

Error == [shows |-> <<>>, next |-> -1]
End   == 0  \* no footer: nothing follows

\* lines.slice(start, start + limit)
Slice(s, start, limit) == SubSeq(s, start + 1, Min({start + limit, Len(s)}))

\* Fault: the footer repeats the offset of the last line shown.
RepeatsLast(lines, offset, limit) ==
  LET shown == Slice(lines, offset - 1, limit)
      upto  == offset - 1 + Len(shown)
  IN  IF offset > Len(lines) THEN Error
      ELSE [shows |-> shown, next |-> IF upto < Len(lines) THEN upto ELSE End]

\* formatFileLines.  Splitting an empty file gives one empty line.
ReadFile(lines, offset, limit) ==
  LET shown == Slice(lines, offset - 1, limit)
      upto  == offset - 1 + Len(shown)
  IN  IF offset > Len(lines) THEN Error
      ELSE [shows |-> shown, next |-> IF upto < Len(lines) THEN upto + 1 ELSE End]

\* listDirectory: past the end there is nothing, and no error.
ReadDirectory(entries, offset, limit) ==
  LET shown == Slice(entries, offset - 1, limit)
  IN  [shows |-> shown,
       next  |-> IF offset - 1 + Len(shown) < Len(entries) THEN offset + Len(shown) ELSE End]

\* The handler of read: what the path is decides; offset and limit start at 1.
Read(node, offset, limit) ==
  IF offset < 1 \/ limit < 1 \/ node.kind = "missing" THEN Error
  ELSE IF node.kind = "directory" THEN ReadDirectory(node.content, offset, limit)
  ELSE ReadFile(node.content, offset, limit)

\* The order of a search's matches: newest file first; grep's by file and line then.
Before(m, n) ==
  \/ m.time > n.time
  \/ m.time = n.time /\ m.file < n.file
  \/ m.time = n.time /\ m.file = n.file /\ m.line < n.line

\* The handlers of glob and grep: the first SearchLimit matches in this order, and
\* whether there are more of them.
Search(matches) ==
  [shows |-> {m \in matches : Cardinality({n \in matches : Before(n, m)}) < SearchLimit},
   hides |-> Cardinality(matches) > SearchLimit]

(***************************************************************************)
(* Properties.                                                             *)
(***************************************************************************)

\* The offsets that an agent reads at which follows the footers from an offset on, until
\* there is no footer or an error.
Follows(node, limit, from, offsets) ==
  /\ offsets # <<>> /\ offsets[1] = from
  /\ \A k \in DOMAIN offsets :
       LET next == Read(node, offsets[k], limit).next
       IN  IF k < Len(offsets) THEN next = offsets[k + 1] ELSE next \in {End, Error.next}

\* Whatever the limit, an agent that follows the footers comes to an end, without an
\* error, and each of its answers goes on where the one before stopped: it has been shown
\* every line or entry once, in order.
FootersTile(node, limit) ==
  LET length   == Len(node.content)
      readings == {r \in BoundedSeq(1 .. length + 1, length + 1) : Follows(node, limit, 1, r)}
  IN  node.kind # "missing" =>
        /\ readings # {}
        /\ \A offsets \in readings : \A k \in DOMAIN offsets :
             LET answer == Read(node, offsets[k], limit)
                 last   == k = Len(offsets)
             IN  /\ answer.shows = SubSeq(node.content, offsets[k],
                                          IF last THEN length ELSE offsets[k + 1] - 1)
                 /\ last => answer.next = End
                 /\ Len(answer.shows) <= limit

\* A search shows all matches or says that it hides some, and then none that is newer
\* than what it shows.
CutsAreTold(matches) ==
  LET answer == Search(matches)
  IN  /\ answer.hides <=> answer.shows # matches
      /\ answer.hides => Cardinality(answer.shows) = SearchLimit
      /\ \A m \in answer.shows, n \in matches \ answer.shows : m.time >= n.time
==============================================================================
