---------------------------- MODULE AnswerStream ----------------------------
(***************************************************************************)
(* The answer of a turn as it is read from what runs the turn:             *)
(* createStreamJsonParser() and runAgentJob()                              *)
(* (packages/agensis-cli/src/agensis.mjs), and for a harness without ACP   *)
(* createDirectExecutor() (acp/direct.mjs).                                *)
(*                                                                         *)
(* The text is a sequence of numbered pieces, said in blocks; a block may  *)
(* call a tool.  A sub-agent says blocks too, whole.  One source serves a  *)
(* turn, so the flags that tell the two kinds of block and tool lines      *)
(* apart (sawAgensisSegment, sawAgensisStep) are left out.                 *)
(***************************************************************************)
EXTENDS Naturals, Sequences

CONSTANTS
  Pieces,   \* bound: pieces in a turn
  Tools     \* ids of tool calls

NoTool == 0

(* What an answer is made of when it is not made of pieces: the output as  *)
(* it was written, or what was written to stderr.                          *)
Raw == <<0>>
Noise == <<Pieces + 1>>

VARIABLES
  source,          \* what runs the turn: it does not change
  parser,          \* the command is a stream-json one: its parser is built
  said,            \* pieces so far
  closed,          \* those in blocks that are complete
  asides,          \* those of sub-agents
  last,            \* the last block
  lines,           \* being written: not yet read to their newline
  half,            \* the first of them: "none", "head" or "all" of it was read
  end,             \* "speaking", "exiting", "exited", "failed", then "answered", "refused"
  wrote,           \* something was read, were it half a line
  heard,           \* pieces so far in the lines read
  shown,           \* the segments sent, as one text
  steps,           \* the tool calls reported
  streamed, sawDelta, assistantText, closedText, finalResult,   \* of the parser
  response         \* of the agent_job_result

worldVars == <<said, closed, asides, last>>
parserVars == <<heard, shown, steps, streamed, sawDelta, assistantText, closedText, finalResult>>
streamVars == <<source, parser, worldVars, lines, half, end, wrote, parserVars, response>>

(* "pooled": the Claude SDK, in lines of connectionExecutors.mjs.          *)
(* "partial" and "whole": claude -p with and without partial messages.     *)
(* "headless", "recap", "plain": a harness's own mode, in lines with       *)
(* deltas or without, or in plain text; streamed and finalResult are its   *)
(* text and finalText then.  "acp": a harness over ACP.                    *)
Parsed == {"pooled", "partial", "whole"}
Direct == {"headless", "recap", "plain"}
Unframed == {"plain", "acp"}
Deltas == {"pooled", "partial", "headless"} \cup Unframed
Framed == {"partial", "whole", "headless", "recap"}
Processes == {"partial", "whole"} \cup Direct

StreamInit ==
  /\ source \in Parsed \cup Direct \cup {"acp"}
  /\ parser \in BOOLEAN /\ (source \in Parsed => parser)
  /\ said = 0 /\ closed = 0 /\ asides = {} /\ last = << >>
  /\ lines = << >> /\ half = "none" /\ end = "speaking"
  /\ wrote = FALSE
  /\ heard = 0 /\ shown = << >> /\ steps = << >>
  /\ streamed = << >> /\ sawDelta = FALSE /\ assistantText = << >>
  /\ closedText = << >> /\ finalResult = << >>
  /\ response = << >>

UpTo(n) == [i \in 1..n |-> i]
From(m, n) == SubSeq(UpTo(n), m + 1, n)

Line(kind, text, tool) == [kind |-> kind, text |-> text, tool |-> tool]

Segment(text) == IF text = << >> THEN << >> ELSE <<Line("segment", text, NoTool)>>
Step(tool) == IF tool = NoTool THEN << >> ELSE <<Line("step", << >>, tool)>>

(* A block that is complete, with the call it makes.                       *)
BlockLines(text, tool) ==
  CASE source = "pooled" -> Segment(text) \o Step(tool)
    [] source \in Unframed -> << >>
    [] OTHER -> <<Line("assistant", text, tool)>>

-----------------------------------------------------------------------------
Speaks == end = "speaking" /\ lines = << >>

Says ==
  /\ Speaks /\ said < Pieces
  /\ said' = said + 1
  /\ lines' = IF source \in Deltas THEN <<Line("delta", <<said + 1>>, NoTool)>> ELSE << >>
  /\ UNCHANGED <<closed, asides, last, half, end, wrote, parserVars, response>>

(* A control frame: session, configuration, usage.                         *)
Announces ==
  /\ Speaks /\ source \in Framed
  /\ lines' = <<Line("control", << >>, NoTool)>>
  /\ UNCHANGED <<worldVars, half, end, wrote, parserVars, response>>

(* A message may be repeated with the call it made.                        *)
EndsBlock ==
  /\ Speaks
  /\ \E tool \in Tools \cup {NoTool} :
       /\ closed < said \/ tool # NoTool
       /\ source = "pooled" => \A i \in 1..Len(steps) : steps[i] # tool
       /\ lines' = BlockLines(From(closed, said), tool)
  /\ closed' = said
  /\ last' = IF closed < said THEN From(closed, said) ELSE last
  /\ UNCHANGED <<said, asides, half, end, wrote, parserVars, response>>

SubAgentSays ==
  /\ Speaks /\ source \in {"pooled", "partial"} /\ closed = said /\ said < Pieces
  /\ said' = said + 1 /\ closed' = said + 1
  /\ asides' = asides \cup {said + 1}
  /\ lines' = BlockLines(<<said + 1>>, NoTool)
  /\ UNCHANGED <<last, half, end, wrote, parserVars, response>>

(* The turn is complete: the result repeats its last block.                *)
Concludes ==
  /\ Speaks /\ closed = said /\ last # << >>
  /\ lines' = IF source \in Unframed THEN << >> ELSE <<Line("result", last, NoTool)>>
  /\ end' = "exiting"
  /\ UNCHANGED <<worldVars, half, wrote, parserVars, response>>

-----------------------------------------------------------------------------
Live == IF sawDelta THEN streamed ELSE assistantText

(* Mutant: the live view goes on after a segment.                          *)
RaiseSegmentKeeping(text, unclosed) ==
  /\ closedText' = closedText \o (IF sawDelta THEN streamed ELSE unclosed)
  /\ assistantText' = << >>
  /\ shown' = shown \o text
  /\ UNCHANGED streamed

RaiseSegment(text, unclosed) ==
  /\ closedText' = closedText \o (IF sawDelta THEN streamed ELSE unclosed)
  /\ streamed' = << >> /\ assistantText' = << >>
  /\ shown' = shown \o text

Reports(tool) == steps' = IF tool = NoTool THEN steps ELSE Append(steps, tool)

Heard(text) ==
  heard' = IF text # << >> /\ text[Len(text)] > heard THEN text[Len(text)] ELSE heard

(* handleEvent() of an assistant message: the segment goes first, a tool   *)
(* whose id was seen is not reported again.                                *)
ParseAssistant(line) ==
  /\ IF line.text = << >> THEN UNCHANGED <<closedText, streamed, assistantText, shown>>
     ELSE RaiseSegment(line.text, assistantText \o line.text)
  /\ Reports(IF \E i \in 1..Len(steps) : steps[i] = line.tool THEN NoTool ELSE line.tool)
  /\ UNCHANGED <<sawDelta, finalResult>>

(* ... of a line of the parsed sources.                                    *)
ParseLine(line) ==
  CASE line.kind = "delta" ->
         /\ sawDelta' = TRUE /\ streamed' = streamed \o line.text
         /\ UNCHANGED <<assistantText, closedText, finalResult, shown, steps>>
    [] line.kind = "segment" ->
         /\ RaiseSegment(line.text, assistantText)
         /\ UNCHANGED <<sawDelta, finalResult, steps>>
    [] line.kind = "step" ->
         /\ Reports(line.tool)
         /\ UNCHANGED <<streamed, sawDelta, assistantText, closedText, finalResult, shown>>
    [] line.kind = "result" ->
         /\ finalResult' = line.text
         /\ UNCHANGED <<streamed, sawDelta, assistantText, closedText, shown, steps>>
    [] line.kind = "assistant" -> ParseAssistant(line)
    [] line.kind = "control" ->
         UNCHANGED <<streamed, sawDelta, assistantText, closedText, finalResult, shown, steps>>

(* parseStreamLine(): a result and a whole message are candidates for the  *)
(* final text, and not more of it; a control frame is nothing.             *)
ParseStreamLine(line) ==
  /\ IF line.kind = "delta"
     THEN streamed' = streamed \o line.text /\ UNCHANGED finalResult
     ELSE /\ finalResult' = IF line.text = << >> THEN finalResult ELSE line.text
          /\ UNCHANGED streamed
  /\ UNCHANGED <<sawDelta, assistantText, closedText, shown, steps>>

Reads(line) ==
  /\ Heard(line.text)
  /\ IF source \in Parsed THEN ParseLine(line) ELSE ParseStreamLine(line)

(* feed(): a chunk ends anywhere in a line; what the daemon encodes itself *)
(* and what is not in lines comes whole.                                   *)
Whole == source = "pooled" \/ source \in Unframed

ReadsPart ==
  /\ lines # << >> /\ ~ Whole /\ half # "all"
  /\ half' \in {"head", "all"} \ {half}
  /\ wrote' = TRUE
  /\ UNCHANGED <<worldVars, lines, end, parserVars, response>>

ReadsLine ==
  /\ lines # << >> /\ (half = "all" \/ Whole)
  /\ Reads(lines[1])
  /\ lines' = Tail(lines) /\ half' = "none"
  /\ wrote' = TRUE
  /\ UNCHANGED <<worldVars, end, response>>

(* The process ends, by itself or killed; a line without its newline is    *)
(* read as it is, half of one is no JSON.                                  *)
Exits ==
  /\ \/ end = "exiting" /\ Len(lines) = (IF half = "all" THEN 1 ELSE 0) /\ end' = "exited"
     \/ end \in {"speaking", "exiting"} /\ end' = "failed"
  /\ IF half = "all" THEN Reads(lines[1]) ELSE UNCHANGED parserVars
  /\ lines' = << >> /\ half' = "none"
  /\ UNCHANGED <<worldVars, wrote, response>>

-----------------------------------------------------------------------------
OrElse(text, other) == IF text # << >> THEN text ELSE other

(* The result of the parser: of what the direct executor passes on it      *)
(* reads nothing.                                                          *)
ParserResult == IF source \in Parsed THEN OrElse(finalResult, closedText \o Live) ELSE << >>

(* stdout of a direct turn whose lines said nothing is what was read; of   *)
(* an ACP turn that failed it is empty.                                    *)
Stdout ==
  CASE source = "acp" -> IF end = "exited" THEN streamed ELSE << >>
    [] source = "plain" -> streamed
    [] OTHER -> OrElse(finalResult, OrElse(streamed, IF wrote THEN Raw ELSE << >>))

(* Mutant: output that was not understood is no answer.                    *)
AnswerParsed ==
  /\ end \in {"exited", "failed"}
  /\ response' = IF parser /\ source # "acp" THEN ParserResult ELSE OrElse(finalResult, streamed)
  /\ end' = IF end = "exited" THEN "answered" ELSE "refused"
  /\ UNCHANGED <<worldVars, lines, half, wrote, parserVars>>

(* A turn that did not fail answers with its stderr before it answers with *)
(* nothing; without a parser the last line streamed is the last resort.    *)
Answer ==
  /\ end \in {"exited", "failed"}
  /\ \E noise \in {<< >>, Noise}, latest \in {<< >>} \cup {From(n, heard) : n \in 0..heard} :
       /\ noise # << >> => (source \in Processes /\ end = "exited")
       /\ latest = << >> <=> (parser \/ streamed = << >>)
       /\ response' = IF parser /\ source # "acp" THEN OrElse(ParserResult, noise)
                      ELSE OrElse(Stdout, OrElse(noise, latest))
  /\ end' = IF end = "exited" THEN "answered" ELSE "refused"
  /\ UNCHANGED <<worldVars, lines, half, wrote, parserVars>>

StreamNext ==
  /\ UNCHANGED <<source, parser>>
  /\ Says \/ Announces \/ EndsBlock \/ SubAgentSays \/ Concludes \/ ReadsPart \/ ReadsLine \/ Exits \/ Answer

-----------------------------------------------------------------------------
(* A sub-agent's piece is in the text of the result unless a delta came    *)
(* before it: sawDelta is one flag for the whole stream, and a pooled      *)
(* stream has no assistant lines.                                          *)
Kept(i) == i \notin asides \/ (source = "partial" /\ \A j \in 1..i : j \in asides)

(* The text is the pieces heard that are kept, in their order.             *)
Keeps(text) ==
  /\ {text[i] : i \in 1..Len(text)} = {i \in 1..heard : Kept(i)}
  /\ \A i, j \in 1..Len(text) : i < j => text[i] < text[j]

Quiet == end \in {"answered", "refused"}

(* Whatever is cut off, in every piece of a line: the bubbles and the open *)
(* one are what was said, once and in its order, and so is the text that   *)
(* stands in for a result that never comes; a tool is reported once        *)
(* (agensis.mjs:1871-1880, 1950-1972; acp/direct.mjs:158-160).  What a     *)
(* direct turn wrote is never swallowed: its answer is what was understood *)
(* of it, or if that was nothing all of it (acp/direct.mjs:203-207).       *)
SaidOnce ==
  /\ source \in Parsed =>
       /\ shown \o Live = UpTo(heard)
       /\ Keeps(closedText \o Live)
       /\ (end = "refused" /\ finalResult = << >>) => Keeps(response)
  /\ source \in Deltas \ Parsed => streamed = UpTo(heard)
  /\ (source \in Direct /\ ~ parser /\ Quiet) =>
       /\ heard > 0 => \A i \in 1..Len(response) : response[i] \in 1..heard
       /\ response = << >> => ~ wrote
  /\ \A i, j \in 1..Len(steps) : steps[i] = steps[j] => i = j

(* The output is always read in the format it is actually in               *)
(* (agensis.mjs:1418-1421): a turn that ends well has its answer.          *)
AnswerIsRead == end = "answered" => response # << >>
=============================================================================
