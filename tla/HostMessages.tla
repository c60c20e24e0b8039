----------------------------- MODULE HostMessages -----------------------------
(***************************************************************************)
(* How the hosts' transcripts become the messages a pass learns from:      *)
(* hostMessagesFromPi and memScribeMessagesFromPi (pi-port.ts),            *)
(* hostMessagesFromOpenClawMessages (openclaw-port.ts), normalizeMessages  *)
(* (make-adapter.ts), hostMessagesToMemFlywheelMessages and                *)
(* toExtractionMessages (host-memflywheel.ts).                             *)
(*                                                                         *)
(* A transcript, and every reading of it, is a function on places, which   *)
(* are numbers, and so are the parts of a message: what a reading drops    *)
(* leaves a hole, and the list that the code returns is what is left, in   *)
(* order.  The place of a call stands for its name and its input.          *)
(*                                                                         *)
(* A text is "none" (the host sent no text), "blank" or "words"; it is     *)
(* that of the content or, in a message that is no result and of a host    *)
(* other than Pi, that of the field text, but never in both.  Calls have a *)
(* name and an input that can be read; ids are not blank.                  *)
(*                                                                         *)
(* The parts of a raw message are its elements of toolCalls (which bring   *)
(* their output, a text), of tool_calls and of its content that are calls  *)
(* (tool_use, toolCall) or results (tool_result), in this order.  A result *)
(* may also be a message, of role tool or toolResult, that names its call  *)
(* in toolCallId or in tool_call_id.  Id 0 is a missing id.                *)
(***************************************************************************)
EXTENDS Integers, Sequences, SequencesExt, FiniteSetsExt

Undefined == "undefined"

Trim(text) == IF text = "words" THEN "words" ELSE ""

Speaks(m) == m.role \in {"user", "assistant"}

\* The calls of an assistant message among its parts of some kinds.
CallsAt(m, kinds) ==
  {k \in DOMAIN m.parts : m.role = "assistant" /\ m.parts[k].kind \in kinds}

\* The content of the last tool message with an id: the outputs map.
Results(msgs, id) == {i \in DOMAIN msgs : msgs[i].role = "tool" /\ msgs[i].id = id}

Output(msgs, id) ==
  IF id = 0 \/ Results(msgs, id) = {} THEN Undefined ELSE msgs[Max(Results(msgs, id))].text

(***************************************************************************)
(* The ports: host messages.                                               *)
(***************************************************************************)

HostMessage(m, text, id, calls) ==
  [role |-> IF Speaks(m) THEN m.role ELSE "tool", text |-> text, id |-> id,
   calls |-> [k \in calls |-> m.parts[k].id]]

\* hostMessagesFromPi: toolResult messages and toolCall parts; nothing is dropped but
\* messages of another role and calls without an id.
PiCalls(m) == {k \in CallsAt(m, {"toolCall"}) : m.parts[k].id # 0}

FromPi(raw) ==
  [i \in {j \in DOMAIN raw : raw[j].role = "toolResult" \/ Speaks(raw[j])} |->
     HostMessage(raw[i], raw[i].text, raw[i].toolCallId, PiCalls(raw[i]))]

\* hostToolCalls: calls of every kind, but none without an id.
CallKinds == {"toolCalls", "tool_calls", "tool_use", "toolCall"}

OpenClawCalls(m) == {k \in CallsAt(m, CallKinds) : m.parts[k].id # 0}

OpenClawId(m) == IF m.toolCallId # 0 THEN m.toolCallId ELSE m.tool_call_id

OpenClawKeeps(m) ==
  \/ m.role \in {"tool", "toolResult"} /\ OpenClawId(m) # 0
  \/ Speaks(m) /\ (Trim(m.text) # "" \/ OpenClawCalls(m) # {})

\* hostMessagesFromOpenClawMessages: no results without an id, no empty messages, and no
\* result that is a part.
FromOpenClaw(raw) ==
  [i \in {j \in DOMAIN raw : OpenClawKeeps(raw[j])} |->
     HostMessage(raw[i], Trim(raw[i].text), OpenClawId(raw[i]), OpenClawCalls(raw[i]))]

(***************************************************************************)
(* Messages with their calls and the outputs of these.                     *)
(***************************************************************************)

Folded(m, calls) == [role |-> m.role, text |-> Trim(m.text), calls |-> calls]

NotEmpty(m) == m.text # "" \/ DOMAIN m.calls # {}

\* Fault: a call takes the first result of the transcript.
NextOutput(msgs, id) ==
  LET at == {i \in DOMAIN msgs : msgs[i].role = "tool"}
  IN  IF at = {} THEN Undefined ELSE msgs[Min(at)].text

\* outputs.get(call.id).
OutputOf(msgs, id) == Output(msgs, id)

\* hostMessagesToMemFlywheelMessages.
ToMemFlywheel(msgs) ==
  LET calls(m) == IF m.role = "assistant" THEN DOMAIN m.calls ELSE {}
      fold(m)  == Folded(m, [k \in calls(m) |-> OutputOf(msgs, m.calls[k])])
  IN  [i \in {j \in DOMAIN msgs : Speaks(msgs[j]) /\ NotEmpty(fold(msgs[j]))} |-> fold(msgs[i])]

\* memScribeMessagesFromPi, which the adapter of pi.ts uses.
FromPiScribe(raw) ==
  LET host     == FromPi(raw)
      calls(m) == IF m.role = "assistant" THEN DOMAIN m.calls ELSE {}
      fold(m)  == Folded(m, [k \in calls(m) |-> Output(host, m.calls[k])])
  IN  [i \in {j \in DOMAIN host : Speaks(host[j]) /\ NotEmpty(fold(host[j]))} |-> fold(host[i])]

\* normalizeMessages takes outputs from tool messages that have a tool_call_id and from the
\* tool_result parts of any message; of a message these come last, and the last one stays.
ResultParts(m, id) == {k \in DOMAIN m.parts : m.parts[k].kind = "tool_result" /\ m.parts[k].id = id}

AdapterResults(raw, id) ==
  {i \in DOMAIN raw : \/ raw[i].role = "tool" /\ raw[i].tool_call_id = id
                      \/ ResultParts(raw[i], id) # {}}

AdapterOutput(raw, id) ==
  IF id = 0 \/ AdapterResults(raw, id) = {} THEN Undefined
  ELSE LET m == raw[Max(AdapterResults(raw, id))]
       IN  IF ResultParts(m, id) = {} THEN m.text ELSE m.parts[Max(ResultParts(m, id))].output

\* Calls of three kinds, with an id or without; those of toolCalls bring their output.
AdapterCalls(m) == CallsAt(m, {"toolCalls", "tool_calls", "tool_use"})

Normal(raw, m) ==
  Folded(m, [k \in AdapterCalls(m) |->
               IF m.parts[k].kind = "toolCalls" THEN m.parts[k].output
               ELSE AdapterOutput(raw, m.parts[k].id)])

\* normalizeMessages, with the folding of tool calls on.
Normalize(raw) ==
  [i \in {j \in DOMAIN raw : Speaks(raw[j]) /\ NotEmpty(Normal(raw, raw[j]))} |->
     Normal(raw, raw[i])]

\* toExtractionMessages.
ToExtraction(msgs) ==
  LET trimmed(m) == [m EXCEPT !.text = Trim(m.text)]
  IN  [i \in {j \in DOMAIN msgs : Speaks(msgs[j]) /\ NotEmpty(trimmed(msgs[j]))} |->
         trimmed(msgs[i])]

\* Normalized messages, read as a transcript again.
AsTranscript(msgs) ==
  [i \in DOMAIN msgs |->
     [role |-> msgs[i].role, text |-> msgs[i].text, toolCallId |-> 0, tool_call_id |-> 0,
      parts |-> [k \in DOMAIN msgs[i].calls |->
                   [kind |-> "toolCalls", id |-> 0, output |-> msgs[i].calls[k]]]]]

(***************************************************************************)
(* Property.                                                               *)
(***************************************************************************)

\* A reading has every message with words or with calls at the given places, these calls and
\* no others.
KeepsAll(raw, reading, calls) ==
  /\ DOMAIN reading =
       {i \in DOMAIN raw : Speaks(raw[i]) /\ (raw[i].text = "words" \/ calls[i] # {})}
  /\ \A i \in DOMAIN reading : /\ reading[i].role = raw[i].role
                               /\ reading[i].text = Trim(raw[i].text)
                               /\ DOMAIN reading[i].calls = calls[i]

\* The output of a call is one of the texts of its results, and missing without any.
IsOneOf(output, texts) ==
  IF texts = {} THEN output = Undefined
  ELSE output # Undefined /\ \E t \in texts : Trim(output) = Trim(t)

\* The texts of the messages and of the parts that are results of a call.
MessageTexts(raw, id, at) == IF id = 0 THEN {} ELSE {raw[i].text : i \in at}

PartTexts(raw, id) ==
  IF id = 0 THEN {}
  ELSE UNION {{raw[i].parts[k].output : k \in ResultParts(raw[i], id)} : i \in DOMAIN raw}

PiTexts(raw, id) ==
  MessageTexts(raw, id, {i \in DOMAIN raw : raw[i].role = "toolResult" /\ raw[i].toolCallId = id})

OpenClawTexts(raw, id) ==
  MessageTexts(raw, id, {i \in DOMAIN raw : /\ raw[i].role \in {"tool", "toolResult"}
                                            /\ OpenClawId(raw[i]) = id})

AdapterTexts(raw, id) ==
  MessageTexts(raw, id, {i \in DOMAIN raw : raw[i].role = "tool" /\ raw[i].tool_call_id = id})
  \cup PartTexts(raw, id)

\* A result without words counts as no words, however a port renders it.
SameWords(msgs) ==
  [i \in DOMAIN msgs |->
     [msgs[i] EXCEPT !.calls =
        [k \in DOMAIN msgs[i].calls |->
           IF msgs[i].calls[k] = Undefined THEN Undefined ELSE Trim(msgs[i].calls[k])]]]

\* The transcripts that Pi writes, and those with the calls of OpenAI and Anthropic and the
\* results of OpenAI.
OfPi(raw) ==
  \A i \in DOMAIN raw :
    /\ raw[i].role # "tool" /\ raw[i].tool_call_id = 0
    /\ \A k \in DOMAIN raw[i].parts : raw[i].parts[k].kind \in {"toolCall", "tool_result"}

OfOpenAI(raw) ==
  \A i \in DOMAIN raw :
    /\ raw[i].role # "toolResult" /\ raw[i].toolCallId = 0
    /\ \A k \in DOMAIN raw[i].parts : /\ raw[i].parts[k].kind \in {"tool_calls", "tool_use"}
                                      /\ raw[i].parts[k].id # 0

\* The parts of a transcript that are calls of some kinds; those without an id count only
\* where `bare` says so.
CallPlaces(raw, kinds, bare) ==
  [i \in DOMAIN raw |->
     {k \in DOMAIN raw[i].parts : /\ raw[i].role = "assistant" /\ raw[i].parts[k].kind \in kinds
                                  /\ bare \/ raw[i].parts[k].id # 0}]

\* Each reading keeps all words and every call of the kinds that it knows, and gives a call the
\* output of a result that names it, or none: whatever the transcript, and whatever kinds of
\* parts it mixes.  The two readings of Pi are one.  Where the shapes that they know meet,
\* they agree: OpenClaw's reads a Pi transcript as Pi's does, and it reads a transcript of
\* OpenAI's shape as the shared adapter does.  What is normalized is normalized for good.
HostsAgree(raw) ==
  LET pi       == ToExtraction(ToMemFlywheel(FromPi(raw)))
      openclaw == ToExtraction(ToMemFlywheel(FromOpenClaw(raw)))
      adapter  == ToExtraction(Normalize(raw))
      part(i, k) == raw[i].parts[k]
  IN  /\ pi = ToExtraction(FromPiScribe(raw))
      /\ OfPi(raw) => SameWords(pi) = SameWords(openclaw)
      /\ OfOpenAI(raw) => SameWords(openclaw) = SameWords(adapter)
      /\ KeepsAll(raw, pi, CallPlaces(raw, {"toolCall"}, FALSE))
      /\ KeepsAll(raw, openclaw, CallPlaces(raw, CallKinds, FALSE))
      /\ KeepsAll(raw, adapter, CallPlaces(raw, CallKinds \ {"toolCall"}, TRUE))
      /\ \A i \in DOMAIN pi : \A k \in DOMAIN pi[i].calls :
           IsOneOf(pi[i].calls[k], PiTexts(raw, part(i, k).id))
      /\ \A i \in DOMAIN openclaw : \A k \in DOMAIN openclaw[i].calls :
           IsOneOf(openclaw[i].calls[k], OpenClawTexts(raw, part(i, k).id))
      /\ \A i \in DOMAIN adapter : \A k \in DOMAIN adapter[i].calls :
           IF part(i, k).kind = "toolCalls" THEN adapter[i].calls[k] = part(i, k).output
           ELSE IsOneOf(adapter[i].calls[k], AdapterTexts(raw, part(i, k).id))
      /\ Normalize(AsTranscript(Normalize(raw))) = Normalize(raw)
==============================================================================
