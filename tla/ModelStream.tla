----------------------------- MODULE ModelStream -----------------------------
(***************************************************************************)
(* OpenAICompatBackend.chat (backends/openai-compat.ts) with stream set: a *)
(* model's answer comes as server-sent events, cut into reads anywhere,    *)
(* and is put together again while the caller is told of every event.  The *)
(* same answer to a call without stream is one JSON document (Buffered).   *)
(*                                                                         *)
(* Of an event's text three pieces matter: the head of its line, too short *)
(* to be a data line or to have a payload; then enough for one, but no JSON*)
(* yet; then all of it.  Text is a sequence of lengths, the arguments of a *)
(* tool call are the pieces of their JSON, from "{" to "}".                *)
(***************************************************************************)
EXTENDS Integers, SequencesExt

CONSTANTS Streams,          \* what a server sends: [message, events, crlf]
          MessagesEstimate  \* estimateMessagesTokens(messages)

(* A chunk has a choice, or none when it carries the usage.                *)
Delta == [index : Nat, name : STRING, args : Seq(STRING)]
Chunk == [kind : {"chunk"}, choice : BOOLEAN, text : Nat, calls : Seq(Delta),
          finish : STRING, used : Nat]
Event == Chunk \cup [kind : {"comment", "done"}]

CR == <<0, 1>>
LF == <<0, 2>>

(* The body of the response: every event is a line and an empty line.      *)
Line(i, crlf) ==
  IF crlf THEN <<<<i, 1>>, <<i, 2>>, <<i, 3>>, CR, LF, CR, LF>>
  ELSE <<<<i, 1>>, <<i, 2>>, <<i, 3>>, LF, LF>>

Wire(s) ==
  LET width == IF s.crlf THEN 7 ELSE 5
  IN  [p \in 1 .. width * Len(s.events) |->
         Line(((p - 1) \div width) + 1, s.crlf)[((p - 1) % width) + 1]]

(* The members of a set of numbers, in order.                              *)
Ascending(S) ==
  [n \in 1 .. Cardinality(S) |-> CHOOSE i \in S : Cardinality({j \in S : j <= i}) = n]
-----------------------------------------------------------------------------
EstimateTextTokens(chars) == (chars + 3) \div 4

Empty == [content |-> <<>>, estimate |-> 0, finish |-> "stop", used |-> 0]

(* A chunk of the answer; the one with the usage has no choice.            *)
Advanced(c, event) ==
  LET says == event.choice
  IN  [content  |-> IF says /\ event.text # 0 THEN Append(c.content, event.text) ELSE c.content,
       estimate |-> IF says THEN c.estimate + EstimateTextTokens(event.text) ELSE c.estimate,
       finish   |-> IF says /\ event.finish # "" THEN event.finish ELSE c.finish,
       used     |-> IF event.used # 0 THEN event.used ELSE c.used]

Accumulate(calls, delta) ==
  LET curr == IF delta.index \in DOMAIN calls THEN calls[delta.index]
              ELSE [name |-> "", args |-> <<>>]
      next == [name |-> IF delta.name = "" THEN curr.name ELSE delta.name,
               args |-> curr.args \o delta.args]
  IN  [i \in DOMAIN calls \cup {delta.index} |-> IF i = delta.index THEN next ELSE calls[i]]

AccumulateToolDeltas(calls, deltas) ==
  LET after[n \in 0 .. Len(deltas)] ==
        IF n = 0 THEN calls ELSE Accumulate(after[n - 1], deltas[n])
  IN  after[Len(deltas)]

(* parseToolArguments: no text at all is an empty object.                  *)
Accepts(args) == args = <<>> \/ (Head(args) = "{" /\ Last(args) = "}")

ParseToolArguments(args) == IF args = <<>> THEN <<"{", "}">> ELSE args

ParseToolCalls(calls) ==
  [i \in DOMAIN calls |-> [name |-> calls[i].name, args |-> ParseToolArguments(calls[i].args)]]

Complete(calls) == \A i \in DOMAIN calls : calls[i].name # "" /\ Accepts(calls[i].args)

FinalizeStreamToolCalls(calls) ==
  LET indices == Ascending(DOMAIN calls)
  IN  ParseToolCalls([n \in DOMAIN indices |-> calls[indices[n]]])

(* What the first k events say, however they are cut.                      *)
Heard(said, event) ==
  IF event.kind # "chunk" THEN said
  ELSE [context |-> Advanced(said.context, event),
        tools   |-> IF event.choice THEN AccumulateToolDeltas(said.tools, event.calls)
                    ELSE said.tools]

Said(s) ==
  LET said[k \in 0 .. Len(s.events)] ==
        IF k = 0 THEN [context |-> Empty, tools |-> <<>>]
        ELSE Heard(said[k - 1], s.events[k])
  IN  said

DeltasOf(s) ==
  UNION {ToSet(s.events[i].calls) : i \in {j \in DOMAIN s.events : s.events[j].kind = "chunk"}}

(* A server streams the message it would send in one piece: [DONE] comes   *)
(* last, a call has one name, and no part of its arguments is JSON.        *)
Spells(s) ==
  LET said == Said(s)[Len(s.events)]
      calls == ParseToolCalls(s.message.calls)
  IN  /\ \A i \in DOMAIN s.events : s.events[i].kind = "done" => i = Len(s.events)
      /\ s.message.content = said.context.content
      /\ s.message.finish = said.context.finish
      /\ s.message.used = said.context.used
      /\ Complete(said.tools) /\ FinalizeStreamToolCalls(said.tools) = calls
      /\ \A d, e \in DeltasOf(s) :
           d.index = e.index => d.name = e.name \/ "" \in {d.name, e.name}
      /\ \A c \in ToSet(calls) :
           \A n \in 1 .. Len(c.args) - 1 : ~Accepts(SubSeq(c.args, 1, n))

ASSUME StreamAssumption ==
  /\ MessagesEstimate \in Nat
  /\ \A s \in Streams : s.events \in Seq(Event) /\ s.crlf \in BOOLEAN /\ Spells(s)
-----------------------------------------------------------------------------
VARIABLES stage,    \* fetching, reading, draining, finishing, returned, rejected or broken
          served,   \* what the server sends
          sent,     \* how much of it was read
          ended,    \* streamDone: the body has ended
          buffer,   \* what is not yet consumed
          context,  \* [content, estimate, finish, used]
          tools,    \* toolCallsByIndex
          report,   \* the last chunk onChunk was given
          answer    \* what the call returned

chatVars == <<stage, served, sent, ended, buffer, context, tools, report, answer>>

ChatInit ==
  /\ stage = "fetching"
  /\ served \in Streams
  /\ sent = 0 /\ ended = FALSE /\ buffer = <<>>
  /\ context = Empty /\ tools = <<>> /\ report = Empty /\ answer = <<>>
-----------------------------------------------------------------------------
(* buffer.replace(/\r\n/g, "\n")                                           *)
Normalised(text) ==
  LET kept == Ascending({i \in DOMAIN text :
                ~(text[i] = CR /\ i < Len(text) /\ text[i + 1] = LF)})
  IN  [i \in DOMAIN kept |-> text[kept[i]]]

(* Mutant: the line ends of every read are normalised by themselves.       *)
ArriveApart(got) == buffer' = buffer \o Normalised(got)

Arrive(got) == buffer' = Normalised(buffer \o got)

(* fetch resolves with a body.                                             *)
Respond ==
  /\ stage = "fetching"
  /\ stage' = "reading"
  /\ UNCHANGED <<served, sent, ended, buffer, context, tools, report, answer>>

(* read resolves with some of what is left, or with the end of the body,   *)
(* which may come early.                                                   *)
ReadSome ==
  /\ stage = "reading" /\ ~ended
  /\ \E n \in 1 .. Len(Wire(served)) - sent :
       sent' = sent + n /\ Arrive(SubSeq(Wire(served), sent + 1, sent + n))
  /\ stage' = "draining"
  /\ UNCHANGED <<served, ended, context, tools, report, answer>>

ReadEnd ==
  /\ stage = "reading"
  /\ ended' = TRUE
  /\ stage' = "draining"
  /\ UNCHANGED <<served, sent, buffer, context, tools, report, answer>>

(* fetch or read rejects, for an abort or a lost connection, or the answer *)
(* is an error, or has no body.                                            *)
Rejects ==
  /\ stage \in {"fetching", "reading"}
  /\ stage' = "broken"
  /\ UNCHANGED <<served, sent, ended, buffer, context, tools, report, answer>>

Boundaries == {i \in 1 .. Len(buffer) - 1 : buffer[i] = LF /\ buffer[i + 1] = LF}

(* extractSseData: the events with a data line in the text.  Several lines *)
(* are joined, which is no JSON any more.                                  *)
DataLines(raw) ==
  {i \in DOMAIN served.events : /\ served.events[i].kind # "comment"
                                /\ {<<i, 1>>, <<i, 2>>} \subseteq ToSet(raw)}

(* Mutant: the caller is told of the context before the chunk.             *)
TakeChunkReportingFirst(event) ==
  /\ context' = Advanced(context, event)
  /\ IF event.choice
     THEN tools' = AccumulateToolDeltas(tools, event.calls) /\ report' = context
     ELSE UNCHANGED <<tools, report>>

TakeChunk(event) ==
  /\ context' = Advanced(context, event)
  /\ IF event.choice
     THEN tools' = AccumulateToolDeltas(tools, event.calls) /\ report' = context'
     ELSE UNCHANGED <<tools, report>>

(* All of the event is there.  A CR without its LF stays in the payload:   *)
(* JSON may end in white space, but "[DONE]" with a CR is not [DONE].      *)
Readable(raw, i) ==
  /\ <<i, 3>> \in ToSet(raw)
  /\ served.events[i].kind = "done" =>
       ~ \E p \in 1 .. Len(raw) - 1 : raw[p] = <<i, 3>> /\ raw[p + 1] = CR

(* consumeSseEvent, and what drainSseBuffer does with its outcome.         *)
ConsumeSseEvent(raw, rest) ==
  LET lines == DataLines(raw)
      parses == \E i \in lines : lines = {i} /\ Readable(raw, i)
      event == served.events[CHOOSE i \in lines : TRUE]
  IN  \/ /\ lines = {}
         /\ buffer' = rest
         /\ UNCHANGED <<stage, context, tools, report>>
      \/ /\ lines # {} /\ ~parses
         /\ stage' = "rejected"
         /\ UNCHANGED <<buffer, context, tools, report>>
      \/ /\ parses /\ event.kind = "done"
         /\ buffer' = <<>> /\ stage' = "finishing"
         /\ UNCHANGED <<context, tools, report>>
      \/ /\ parses /\ event.kind = "chunk"
         /\ TakeChunk(event)
         /\ buffer' = rest /\ UNCHANGED stage

DrainEvent ==
  /\ stage = "draining" /\ Boundaries # {}
  /\ LET b == Min(Boundaries)
     IN  ConsumeSseEvent(SubSeq(buffer, 1, b - 1), SubSeq(buffer, b + 2, Len(buffer)))
  /\ UNCHANGED <<served, sent, ended, answer>>

Trailing == ended /\ ~(ToSet(buffer) \subseteq {CR, LF})

FlushTrailing ==
  /\ stage = "draining" /\ Boundaries = {} /\ Trailing
  /\ ConsumeSseEvent(buffer, <<>>)
  /\ UNCHANGED <<served, sent, ended, answer>>

(* Mutant: only [DONE] ends the loop.                                      *)
DrainedUntilDone ==
  /\ stage = "draining" /\ Boundaries = {} /\ ~Trailing
  /\ stage' = "reading"
  /\ UNCHANGED <<served, sent, ended, buffer, context, tools, report, answer>>

Drained ==
  /\ stage = "draining" /\ Boundaries = {} /\ ~Trailing
  /\ stage' = IF ended THEN "finishing" ELSE "reading"
  /\ UNCHANGED <<served, sent, ended, buffer, context, tools, report, answer>>

Finish ==
  /\ stage = "finishing"
  /\ IF Complete(tools)
     THEN /\ stage' = "returned"
          /\ answer' = [content |-> context.content,
                        tokens  |-> IF context.used > 0 THEN context.used
                                    ELSE MessagesEstimate + context.estimate,
                        finish  |-> context.finish,
                        calls   |-> FinalizeStreamToolCalls(tools)]
     ELSE stage' = "rejected" /\ UNCHANGED answer
  /\ UNCHANGED <<served, sent, ended, buffer, context, tools, report>>

Settled == stage \in {"returned", "rejected", "broken"}

Over == Settled /\ UNCHANGED chatVars

ChatNext ==
  \/ Respond \/ ReadSome \/ ReadEnd \/ Rejects
  \/ DrainEvent \/ FlushTrailing \/ Drained \/ Finish \/ Over

ChatSpec == ChatInit /\ [][ChatNext]_chatVars

(* What was read is worked off; a server may pause for ever.               *)
ChatFairSpec ==
  /\ ChatSpec
  /\ WF_chatVars(DrainEvent) /\ WF_chatVars(FlushTrailing)
  /\ WF_chatVars(Drained) /\ WF_chatVars(Finish)
-----------------------------------------------------------------------------
(* chatBuffered, of the same message.                                      *)
Buffered(message) ==
  [content |-> message.content, tokens |-> message.used, finish |-> message.finish,
   calls |-> ParseToolCalls(message.calls)]

(* All events were read, whether or not the body ended cleanly.            *)
Whole == <<Len(served.events), 3>> \in ToSet(SubSeq(Wire(served), 1, sent))

(* The body ended between the CR and the LF behind [DONE].                 *)
EndedBehindDone ==
  /\ ended /\ sent > 1 /\ Last(served.events).kind = "done"
  /\ Wire(served)[sent - 1] = <<Len(served.events), 3>> /\ Wire(served)[sent] = CR

(* However the body was cut into reads, a stream that arrived is the       *)
(* answer a call without streaming gets, up to the estimate that stands in *)
(* for the tokens a server does not report; and of a stream that ended     *)
(* early nothing is made up: the text is a prefix, and the tool calls are  *)
(* calls of the message whose arguments are whole, or missing altogether   *)
(* (openai-compat.ts:181-228, 374-432).  An answer that arrived is refused *)
(* only if the body ends on the CR behind [DONE], which is then taken for  *)
(* JSON (openai-compat.ts:346-355, 444-448).                               *)
AnswerIsTheMessage ==
  LET whole == Buffered(served.message)
  IN  /\ Whole => stage # "rejected" \/ EndedBehindDone
      /\ stage = "returned" =>
           /\ IsPrefix(answer.content, whole.content)
           /\ \A c \in ToSet(answer.calls) :
                \E w \in ToSet(whole.calls) :
                  c.name = w.name /\ c.args \in {w.args, <<"{", "}">>}
           /\ Whole => /\ [answer EXCEPT !.tokens = 0] = [whole EXCEPT !.tokens = 0]
                       /\ whole.tokens > 0 => answer.tokens = whole.tokens

(* What is returned was shown to onChunk, where the circuit breaker looks  *)
(* for an exhausted allowance or a blocked text: no text and no estimate   *)
(* that it has not seen (llm-circuit-breaker.ts:127-162).                  *)
ReportedIsAnswered ==
  stage = "returned" =>
    /\ answer.content = report.content /\ answer.finish = report.finish
    /\ answer.tokens \in {context.used, MessagesEstimate + report.estimate}

(* Once the body has ended, or [DONE] was read, the call settles.          *)
StreamEndsTheCall == (ended \/ stage = "finishing") ~> Settled
=============================================================================
