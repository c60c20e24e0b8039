------------------------------- MODULE Operators -------------------------------
(***************************************************************************)
(* The operators of the modules that have no state of their own against    *)
(* reference definitions, over every bounded input.  A state is one input: *)
(* `of` says of which module.                                              *)
(***************************************************************************)
EXTENDS SourceTrace, HostMessages, FileTools, Wiring, SkillPackages

CONSTANTS
  Texts, MaxLen,    \* sessions and traces: lines over Texts of bounded length
  MaxTranscript,    \* length of a host's transcript
  MaxLines          \* length of a file or a directory

VARIABLE input

(***************************************************************************)
(* Inputs.                                                                 *)
(***************************************************************************)

Part(kind, id, output) == [kind |-> kind, id |-> id, output |-> output]

\* The parts of an assistant's message: calls of every kind, with an id and without, one or
\* two of one kind or of two, and a call with its result.
CallLists ==
  LET call(kind, id) == Part(kind, id, Undefined)
      done(output)   == Part("toolCalls", 2, output)
  IN  {<<>>}
      \cup {<<call(kind, id)>> : kind \in {"toolCall", "tool_use"}, id \in 0 .. 1}
      \cup {<<call("toolCall", 1), call("toolCall", 2)>>, <<call("tool_calls", 2)>>,
            <<call("tool_calls", 0), call("tool_use", 2)>>,
            <<call("tool_use", 2), call("toolCall", 1)>>,
            <<call("tool_use", 1), Part("tool_result", 1, "words")>>,
            <<done("words")>>, <<done(Undefined), call("tool_use", 1)>>}

\* The ids of a result that is a message: <<toolCallId, tool_call_id>>.
ToolIds       == {<<0, 0>>, <<0, 1>>, <<0, 2>>, <<1, 2>>}
ToolResultIds == {<<0, 0>>, <<1, 0>>, <<2, 0>>, <<0, 1>>}

Message(role, text, ids, parts) ==
  [role |-> role, text |-> text, toolCallId |-> ids[1], tool_call_id |-> ids[2],
   parts |-> parts]

Messages ==
  {Message("system", "words", <<0, 0>>, <<>>)}
  \cup {Message("user", text, <<0, 0>>, parts) :
          text \in {"none", "words"},
          parts \in {<<>>, <<Part("tool_result", 1, "words")>>, <<Part("tool_result", 2, "blank")>>}}
  \cup {Message("assistant", text, <<0, 0>>, parts) : text \in {"blank", "words"}, parts \in CallLists}
  \cup {Message("tool", "words", <<0, 2>>, <<Part("tool_result", 2, "blank")>>)}
  \cup {Message("tool", text, ids, <<>>) : text \in {"blank", "words"}, ids \in ToolIds}
  \cup {Message("toolResult", text, ids, <<>>) : text \in {"blank", "words"}, ids \in ToolResultIds}

\* The matches of a search: some lines of files of some age.
Matches(times, where) == {[file |-> w[1], line |-> w[2], time |-> times[w[1]]] : w \in where}

Markers ==
  {NoMarker, Malformed}
  \cup [version : {WiringVersion - 1, WiringVersion}, adapter : DOMAIN Lifecycle,
        bindings : BoundedSeq(UNION {ToSet(Lifecycle[a]) : a \in DOMAIN Lifecycle}, 2)]

ConfigFiles ==
  {Absent} \cup {[kind |-> k] : k \in {"directory", "unreadable", "invalid"}}
  \cup {Object(m, others) : m \in Markers, others \in SUBSET {"theme", "model"}}

NewFiles(p) == {Gone} \cup {File(f, s, n, 2) : f \in {"text", "bytes"},
                                               s \in {"zero", "some", "over"}, n \in BOOLEAN}

OldFiles(p) ==
  {Gone, File("bytes", "some", FALSE, 2)}
  \cup (IF p = Skill THEN {File("text", "some", n, 1) : n \in BOOLEAN}
        ELSE {File("bytes", s, FALSE, 1) : s \in {"zero", "some"}})

Directories(files(_)) == {d \in [Paths -> UNION {files(p) : p \in Paths}] : \A p \in Paths : d[p] \in files(p)}

\* A directory, and what another process may make of it.
With(dir, p, f) == [dir EXCEPT ![p] = f]

Changed(dir) ==
  {dir} \cup UNION {{With(dir, p, f) : f \in {Gone, File("bytes", "some", FALSE, 3)}} : p \in Paths}

Others == {File("bytes", "some", FALSE, v) : v \in 1 .. 2}

TraceInput ==
  \E msgs, lines \in BoundedSeq(Texts, MaxLen), cursor \in -1 .. MaxLen :
    input = [of |-> "trace", msgs |-> msgs, cursor |-> cursor, lines |-> lines]

MessagesInput ==
  \E raw \in BoundedSeq(Messages, MaxTranscript) : input = [of |-> "messages", raw |-> raw]

ReadInput ==
  \E kind \in {"file", "directory"}, n \in 0 .. MaxLines, limit \in 1 .. MaxLines + 1 :
    /\ kind = "file" => n > 0
    /\ input = [of |-> "read", limit |-> limit,
                node |-> [kind |-> kind, content |-> [i \in 1 .. n |-> i]]]

SearchInput ==
  \E times \in [1 .. 3 -> 1 .. 2], where \in SUBSET ((1 .. 3) \X (1 .. 2)) :
    input = [of |-> "search", matches |-> Matches(times, where)]

InstallInput ==
  \E file \in ConfigFiles, a \in DOMAIN Lifecycle :
    input = [of |-> "install", file |-> file, adapter |-> a]

\* A package, staged over a directory, and what happens to the root: before the check it is
\* `now`, and then there is `meanwhile`.
PackageOver(package, own, now, meanwhile) ==
  input = [of |-> "package", package |-> package,
           root |-> [own |-> own, other |-> File("bytes", "some", FALSE, 1)],
           now |-> now, meanwhile |-> meanwhile]

\* Any change before the check, which ends the call; or none, and any change during the copy,
\* which ends or fails before its first or its last file.
PackageInput ==
  \E package \in Directories(NewFiles), own \in Directories(OldFiles), other \in Others :
    /\ \A p \in Unsafe : package[p] \in {Gone, File("text", "some", FALSE, 2)}
    /\ \/ \E dir \in Changed(own) :
            PackageOver(package, own, [own |-> dir, other |-> other],
                        [own |-> dir, other |-> other, after |-> {}, copied |-> FilesOf(package)])
       \/ /\ PackageAccepted(package)
          /\ \E dir \in Changed(own), after \in {{}, Paths},
                copied \in {{}, {Skill}, FilesOf(package)} :
               PackageOver(package, own, [own |-> own, other |-> File("bytes", "some", FALSE, 1)],
                           [own |-> dir, other |-> other, after |-> after, copied |-> copied])

InputInit ==
  TraceInput \/ MessagesInput \/ ReadInput \/ SearchInput \/ InstallInput \/ PackageInput

InputNext == UNCHANGED input

InputSpec == InputInit /\ [][InputNext]_input

(***************************************************************************)
(* Properties.                                                             *)
(***************************************************************************)

\* The window of a pass is the shortest suffix of the session that holds the
\* unprocessed messages and up to ContextSize processed ones, cut to the newest
\* MaxMessages; what is traced is the window without its context, and empty only if
\* nothing is unprocessed; the trace keeps every line, ends with the messages of the
\* pass and grows by no line it could do without (extract.ts).
TraceOfAPass ==
  input.of = "trace" =>
    LET msgs   == input.msgs
        cursor == input.cursor
        lines  == input.lines
        new    == IF cursor \in 0 .. Len(msgs) - 1 THEN Len(msgs) - (cursor + 1) ELSE Len(msgs)
        wanted == IF new = 0 THEN 0 ELSE Min({MaxMessages, new + ContextSize, Len(msgs)})
        window == SelectForExtraction(msgs, cursor)
        traced == SelectForTrace(msgs, cursor)
        result == AppendTrace(lines, msgs)
    IN  /\ window = LastN(msgs, wanted)
        /\ IsSuffix(traced, window)
        /\ Len(window) - Len(traced) <= ContextSize
        /\ window = <<>> <=> traced = <<>>
        /\ IsPrefix(lines, result)
        /\ IsSuffix(msgs, result)
        /\ \A n \in Len(lines) .. Len(result) - 1 : ~IsSuffix(msgs, SubSeq(result, 1, n))

\* Each reader of transcripts keeps all words and every call of the kinds it knows, pairs a
\* call with no result of another, and agrees with the others on the shapes that they all
\* know (HostsAgree of HostMessages; pi-port.ts, openclaw-port.ts, make-adapter.ts).
AnyHostIsRead == input.of = "messages" => HostsAgree(input.raw)

\* Following the footers of read shows every line once, and a search that is cut says
\* so and hides nothing newer (FootersTile and CutsAreTold of FileTools; file-tools.ts).
AnswersAreComplete ==
  /\ input.of = "read"   => FootersTile(input.node, input.limit)
  /\ input.of = "search" => CutsAreTold(input.matches)

\* One install makes any config file that can be replaced right, a second changes
\* nothing, and no key is lost (InstallConverges of Wiring; adapter.ts).
InstallIsIdempotent == input.of = "install" => InstallConverges(input.file, input.adapter)

\* A publication of a learned skill is refused over a change that came before its check; a
\* success leaves the whole package, loses no file and reports every difference, whatever
\* another process did during the copy; and it can be taken back (PackageIsPublished of
\* SkillPackages; learned-skill.ts).
PublishedOrRefused ==
  input.of = "package" =>
    PackageIsPublished(input.root, input.package, input.now, input.meanwhile)
==============================================================================
