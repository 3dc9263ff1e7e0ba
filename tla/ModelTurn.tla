------------------------------ MODULE ModelTurn ------------------------------
(***************************************************************************)
(* One invocation of the coding worker as its observers see it: the        *)
(* provider's stream and its retries (src/harness/ai/codex_responses.py,   *)
(* openrouter_responses.py), the gate in front of a streamed reply         *)
(* (src/app/agent/streaming.py), the tools of a turn, the public events    *)
(* made of all this (module PublicStream) and the spans and usage rows     *)
(* recorded of it (module TurnTrace, src/harness/telemetry/adk_plugin.py). *)
(*                                                                         *)
(* The ADK runs the loop (external): before_model, the provider, an event  *)
(* per partial response, one for the aggregate, the tools of the aggregate *)
(* side by side, one event with their results in call order, and again.    *)
(* What a provider answers is chosen anew at each attempt: calls, a reply  *)
(* as control header and Markdown, a reply as one JSON text, or a header   *)
(* and words followed by a call.                                           *)
(***************************************************************************)
EXTENDS PublicStream, TurnTrace

CONSTANTS
    RawIds,     \* tool call ids of the provider, used again in later turns
    Args,       \* arguments of tool calls
    Results,    \* results of tool calls
    CallLists,  \* the sequences of calls a response may make
    Words,      \* number of text deltas in a reply
    Tries,      \* requests per model call (retry_attempts)
    Budget,     \* model calls the task's input budget allows
    MaxTurns,   \* bound: model calls
    MaxBatches, \* bound: work batches
    MaxMissed   \* bound: failed observations

ASSUME ModelTurnAssumption ==
    /\ "model" \notin RawIds  \* spans have a category
    /\ CallLists \subseteq Seq([raw : RawIds, args : Args]) \ {<<>>}
    /\ Words \in Nat \ {0} /\ Tries \in Nat \ {0}
    /\ Budget \in Nat /\ MaxTurns \in Nat /\ MaxBatches \in Nat /\ MaxMissed \in Nat

VARIABLES
    at,       \* where the invocation is
    batch,    \* work batches begun
    turn,     \* model calls begun
    attempt,  \* the request of this model call
    coming,   \* what the provider has still to stream in this attempt
    begun,    \* something of this attempt has arrived
    cut,      \* an attempt was cut off after some of it had arrived
    acc,      \* _ResponseAccumulator: text tokens and calls by raw id
    reply,    \* PublicReplyStream
    tools,    \* the tools of this turn, in call order
    stream,   \* the public events
    replies,  \* texts the workflow has published as its messages
    trace,    \* the trace store
    used,     \* usage rows of model calls
    starts    \* model calls whose usage row is awaited

observed == <<trace, used, starts>>
turnVars == <<at, batch, turn, attempt, coming, begun, cut, acc, reply, tools, stream,
          replies, observed>>

Header == 0
Other == <<99>>  \* blockers or questions in place of a message

\* The words of a batch's reply, unlike those of any other batch.
Message(b) == [k \in 1..Words |-> 10 * b + k]

\* The stream of deltas and calls of a response.
Deltas(text) == [k \in DOMAIN text |-> [text |-> <<text[k]>>, calls |-> <<>>]]
CallItems(calls) == [k \in DOMAIN calls |-> [text |-> <<>>, calls |-> <<calls[k]>>]]
Json(b) == Message(b)  \* a legacy reply: its text carries no header

Plans(b) ==
    {CallItems(c) : c \in CallLists}
    \cup {Deltas(<<Header>> \o Message(b)) \o CallItems(c) :
            c \in {d \in CallLists : Len(d) = 1}}
    \cup {Deltas(<<Header>> \o Message(b)),
          <<[text |-> Json(b), calls |-> <<>>]>>}

NoAnswer == [text |-> <<>>, calls |-> <<>>]
NoReply == [started |-> FALSE, raw |-> <<>>, public |-> <<>>,
            allowed |-> "unasked", disabled |-> FALSE]

TurnInit ==
    /\ at = "idle" /\ batch = 0 /\ turn = 0 /\ attempt = 0
    /\ coming = <<>> /\ begun = FALSE /\ cut = FALSE
    /\ acc = NoAnswer /\ reply = NoReply /\ tools = <<>>
    /\ stream = SilentStream(RawIds) /\ replies = <<>>
    /\ trace = EmptyTrace(RawIds \cup {"model"})
    /\ used = 0 /\ starts = 0

-----------------------------------------------------------------------------
\* An observation of the trace, which may fail without consequence.
Observe(span) ==
    \E seen \in BOOLEAN :
        /\ seen \/ trace.missed < MaxMissed
        /\ trace' = Observed(trace, span, seen)

ModelSpan(phase) ==
    [key |-> "model", phase |-> phase, content |-> <<turn'>>,
     owner |-> <<turn', "model">>]

ToolSpan(tool, phase, result) ==
    [key |-> tool.raw, phase |-> phase, content |-> <<tool.args, result>>,
     owner |-> <<turn, tool.raw>>]

-----------------------------------------------------------------------------
(* The streamed reply.                                                     *)

\* parse_reply: the message behind a complete header, or nothing.
Parsed(text) == text # <<>> /\ Head(text) = Header
Body(text) == IF Parsed(text) THEN Tail(text) ELSE text

\* guard_tool: no tool and no model call follows published words.
GuardTool(r) == ~r.started

\* after_model for a text: what becomes public of it.  The workflow is asked
\* once whether this reply may be streamed; a partial text is held back to a
\* safe prefix, the aggregate is published to its end.
Publishable(r, raw, partial, ok, held) ==
    LET allowed == IF r.allowed = "unasked" THEN (IF ok THEN "yes" ELSE "no") ELSE r.allowed
        body == Body(raw)
        public == IF partial THEN SubSeq(body, 1, held) ELSE body
    IN  IF ~Parsed(raw) \/ body = <<>> THEN [r EXCEPT !.raw = raw]
        ELSE IF allowed = "no" THEN [r EXCEPT !.raw = raw, !.allowed = "no"]
        ELSE [r EXCEPT !.raw = raw, !.allowed = "yes", !.public = public,
                       !.started = @ \/ public # r.public]

\* coding.public_delta of a response.
Delta(old, new) == SubSeq(new.public, Len(old.public) + 1, Len(new.public))

-----------------------------------------------------------------------------
(* The model call.                                                         *)

\* prepare: the workflow hands the worker a packet and a gate.
Prepare ==
    /\ at = "idle" /\ batch < MaxBatches
    /\ at' = "before" /\ batch' = batch + 1
    /\ reply' = NoReply
    /\ UNCHANGED <<turn, attempt, coming, begun, cut, acc, tools, stream, replies, observed>>

\* A request is sent; the provider may answer anything.
Ask ==
    /\ coming' \in Plans(batch)
    /\ begun' = FALSE

\* before_model of the metrics, which stop a task that has used up its
\* budget, of the trace, and of the reply stream, which begins a new response.
BeforeModel ==
    /\ at = "before" /\ turn < MaxTurns
    /\ turn' = turn + 1 /\ attempt' = 1
    /\ IF used < Budget
       THEN starts' = starts + 1 /\ Observe(ModelSpan("start"))
       ELSE UNCHANGED <<starts, trace>>
    /\ IF used < Budget /\ GuardTool(reply)
       THEN /\ at' = "streaming" /\ Ask
            /\ acc' = NoAnswer /\ tools' = <<>>
            /\ reply' = [NoReply EXCEPT !.started = reply.started]
       ELSE /\ at' = "failed"
            /\ UNCHANGED <<coming, begun, acc, reply, tools>>
    /\ UNCHANGED <<batch, cut, stream, replies, used>>

\* A text delta: accumulated, offered to the gate, and pushed as an event.
TextDelta ==
    /\ at = "streaming" /\ coming # <<>>
    /\ LET text == Head(coming).text IN
       /\ text # <<>>
       /\ coming' = Tail(coming) /\ begun' = TRUE
       /\ acc' = [acc EXCEPT !.text = @ \o text]
       /\ IF reply.disabled
          THEN UNCHANGED <<reply, stream>>
          ELSE LET raw == reply.raw \o text IN
               \E ok \in BOOLEAN, held \in Len(reply.public)..Len(Body(raw)) :
                  LET next == Publishable(reply, raw, TRUE, ok, held) IN
                  /\ reply' = next
                  /\ stream' = PushText(stream, Delta(reply, next), TRUE)
    /\ UNCHANGED <<at, batch, turn, attempt, cut, tools, replies, observed>>

\* A finished call item: its partial event makes the call public before the
\* aggregate does; the gate closes, or the turn fails when words are out.
CallDelta ==
    /\ at = "streaming" /\ coming # <<>>
    /\ Head(coming).calls # <<>>
    /\ LET call == Head(Head(coming).calls)
           public == [raw |-> call.raw, args |-> call.args, turn |-> turn] IN
       IF GuardTool(reply) /\ MayPushCall(stream, public)
       THEN /\ coming' = Tail(coming) /\ begun' = TRUE
            /\ acc' = [acc EXCEPT !.calls =
                         IF \E i \in DOMAIN @ : @[i].raw = call.raw
                         THEN [i \in DOMAIN @ |-> IF @[i].raw = call.raw THEN call ELSE @[i]]
                         ELSE Append(@, call)]
            /\ reply' = [reply EXCEPT !.disabled = TRUE]
            /\ stream' = PushCall(stream, public)
            /\ UNCHANGED at
       ELSE /\ at' = "failed"
            /\ UNCHANGED <<coming, begun, acc, reply, stream>>
    /\ UNCHANGED <<batch, turn, attempt, cut, tools, replies, observed>>

\* A retryable status or a transport error: the loop asks again.  When the
\* stream had begun, what arrived stays in the accumulator and in the reply.
Retry ==
    /\ at = "streaming" /\ attempt < Tries
    /\ attempt' = attempt + 1
    /\ cut' = (cut \/ begun)
    /\ Ask
    /\ UNCHANGED <<at, batch, turn, acc, reply, tools, stream, replies, observed>>

\* The attempts are used up, the provider reports a failure, or its stream
\* ends before response.completed: on_model_error, and the run fails.
ModelFails ==
    /\ at = "streaming"
    /\ at' = "failed"
    /\ starts' = starts - 1
    /\ UNCHANGED <<batch, turn, attempt, coming, begun, cut, acc, reply, tools, stream,
                   replies, used>>
    /\ Observe(ModelSpan("end"))

\* The usage row of a completed response cannot be stored: unlike the trace,
\* this fails the run.
UsageLost ==
    /\ at = "streaming" /\ coming = <<>>
    /\ at' = "failed"
    /\ starts' = starts - 1
    /\ UNCHANGED <<batch, turn, attempt, coming, begun, cut, acc, reply, tools, stream,
                   replies, trace, used>>

\* response.completed: after_model of the metrics, of the trace and of the
\* gate, then the aggregate event.  Its calls have been made public by their
\* partial events; its words complete the streamed ones.
Completed ==
    /\ at = "streaming" /\ coming = <<>>
    /\ UNCHANGED <<batch, turn, coming, cut, acc, replies>>
    /\ attempt' = 0 /\ begun' = FALSE
    /\ Observe(ModelSpan("end"))
    /\ used' = used + 1 /\ starts' = starts - 1
    /\ IF acc.calls # <<>>
       THEN /\ at' = IF GuardTool(reply) THEN "tools" ELSE "failed"
            /\ tools' = [i \in DOMAIN acc.calls |->
                           [raw |-> acc.calls[i].raw, args |-> acc.calls[i].args,
                            state |-> "waiting", result |-> "none"]]
            /\ stream' = CloseMessage(stream)
            /\ reply' = [reply EXCEPT !.disabled = TRUE]
       ELSE /\ at' = "worker"
            /\ \E ok \in BOOLEAN :
                  LET next == IF reply.disabled THEN reply
                              ELSE Publishable(reply, acc.text, FALSE, ok, 0) IN
                  /\ reply' = next
                  /\ stream' = PushText(stream, Delta(reply, next), TRUE)
            /\ UNCHANGED tools

-----------------------------------------------------------------------------
(* The tools of a turn, side by side.                                      *)

\* before_tool: the guard once more, then the trace.
StartTool(i) ==
    /\ at = "tools" /\ i \in DOMAIN tools /\ tools[i].state = "waiting"
    /\ GuardTool(reply)
    /\ tools' = [tools EXCEPT ![i].state = "running"]
    /\ Observe(ToolSpan(tools[i], "start", "none"))
    /\ UNCHANGED <<at, batch, turn, attempt, coming, begun, cut, acc, reply, stream,
                   replies, used, starts>>

\* after_tool
EndTool(i) ==
    /\ at = "tools" /\ i \in DOMAIN tools /\ tools[i].state = "running"
    /\ \E result \in Results :
          /\ tools' = [tools EXCEPT ![i].state = "done", ![i].result = result]
          /\ Observe(ToolSpan(tools[i], "end", result))
    /\ UNCHANGED <<at, batch, turn, attempt, coming, begun, cut, acc, reply, stream,
                   replies, used, starts>>

\* A tool raises: on_tool_error, and the run fails.
ToolFails(i) ==
    /\ at = "tools" /\ i \in DOMAIN tools /\ tools[i].state = "running"
    /\ at' = "failed"
    /\ Observe(ToolSpan(tools[i], "end", "error"))
    /\ UNCHANGED <<batch, turn, attempt, coming, begun, cut, acc, reply, tools, stream,
                   replies, used, starts>>

\* The result a finished tool puts on the stream.
ResultOf(tool) ==
    [raw |-> tool.raw, content |-> tool.result, args |-> tool.args, turn |-> turn]

\* One event carries the results of all calls, in call order.
YieldResults ==
    /\ at = "tools"
    /\ \A i \in DOMAIN tools : tools[i].state = "done"
    /\ stream' = FoldLeft(LAMBDA s, tool : PushResult(s, ResultOf(tool)), stream, tools)
    /\ at' = "before"
    /\ UNCHANGED <<batch, turn, attempt, coming, begun, cut, acc, reply, tools, replies,
                   observed>>

-----------------------------------------------------------------------------
(* What the workflow makes of the worker's text.                           *)

\* message_event: the whole message as one public event.
Publish(text) ==
    /\ stream' = PushText(stream, text, FALSE)
    /\ replies' = Append(replies, text)

\* The reply, or the message of a completed task, ends the invocation.
Answer ==
    /\ at = "worker"
    /\ at' = "over"
    /\ Publish(Body(acc.text))
    /\ UNCHANGED <<batch, turn, attempt, coming, begun, cut, acc, reply, tools, observed>>

\* A message the workflow goes on after: a reply put off by steering is
\* published when it has been streamed, a step's message unless a review
\* takes it back.
GoOn ==
    /\ at = "worker"
    /\ at' = "idle"
    /\ \/ Publish(Body(acc.text))
       \/ ~reply.started /\ UNCHANGED <<stream, replies>>
    /\ UNCHANGED <<batch, turn, attempt, coming, begun, cut, acc, reply, tools, observed>>

\* The task is blocked: its blockers are published instead.
Block ==
    /\ at = "worker" /\ ~reply.started
    /\ at' = "over"
    /\ Publish(Other)
    /\ UNCHANGED <<batch, turn, attempt, coming, begun, cut, acc, reply, tools, observed>>

\* What allowed the reply has changed while it was streamed.
Refuse ==
    /\ at = "worker" /\ reply.started
    /\ at' = "failed"
    /\ UNCHANGED <<batch, turn, attempt, coming, begun, cut, acc, reply, tools, stream,
                   replies, observed>>

\* finish: a run that ends normally leaves no message open.
Finish ==
    /\ at = "over"
    /\ at' = "ended"
    /\ stream' = CloseMessage(stream)
    /\ UNCHANGED <<batch, turn, attempt, coming, begun, cut, acc, reply, tools, replies,
                   observed>>

TurnNext ==
    \/ Prepare \/ BeforeModel
    \/ TextDelta \/ CallDelta \/ Retry \/ ModelFails \/ UsageLost \/ Completed
    \/ \E i \in DOMAIN tools : StartTool(i) \/ EndTool(i) \/ ToolFails(i)
    \/ YieldResults
    \/ Answer \/ GoOn \/ Block \/ Refuse \/ Finish

TurnSpec == TurnInit /\ [][TurnNext]_turnVars

-----------------------------------------------------------------------------
\* The shape of the state: the counters within their bounds, and one tool, span
\* and public call for each call of the model.
TurnTypeOK ==
    /\ at \in {"idle", "before", "streaming", "tools", "worker", "over", "ended", "failed"}
    /\ batch \in 0 .. MaxBatches /\ turn \in 0 .. MaxTurns /\ attempt \in 0 .. Tries
    /\ begun \in BOOLEAN /\ cut \in BOOLEAN
    /\ \A i \in DOMAIN acc.calls : acc.calls[i].raw \in RawIds
    /\ \A i \in DOMAIN tools : tools[i].raw \in RawIds /\ tools[i].args \in Args
    /\ reply.started \in BOOLEAN /\ reply.allowed \in {"unasked", "yes", "no"}
    /\ \A i \in DOMAIN stream.calls : stream.calls[i].turn \in 1 .. turn
    /\ Len(replies) <= batch
    /\ \A i \in DOMAIN trace.spans : trace.spans[i].parent \in {NoParent} \cup 1 .. (i - 1)
    /\ trace.missed \in 0 .. MaxMissed
    /\ used \in 0 .. turn /\ starts \in 0 .. turn

\* However a reply was chunked, held back and aggregated, the terminal shows
\* the workflow's messages, each exactly once and nothing else -- and while
\* one is streamed, a prefix of it.  (An attempt cut off in mid-stream voids
\* this: its words are not taken back.)
ShownOnce ==
    ~cut => \/ stream.shown = replies
            \/ /\ stream.open /\ Front(stream.shown) = replies
               /\ IsPrefix(Last(stream.shown), Message(batch))

\* Every public result belongs to the very call it answers -- same turn, same
\* arguments -- even under a raw id the provider uses again, and when the
\* next model call begins no public call is left without its result.
ResultsAnswerTheirCalls ==
    /\ \A i \in DOMAIN stream.calls :
          LET call == stream.calls[i] IN
          call.answer # Unanswered => /\ Head(call.answer).turn = call.turn
                                      /\ Head(call.answer).args = call.args
    /\ at = "before" => \A i \in DOMAIN stream.calls :
                            stream.calls[i].answer # Unanswered

\* Unless an observation failed, no completion span hangs under the start of
\* another call, however the calls overlap and repeat each other.
CompletionsHangUnderTheirStarts ==
    trace.missed > 0 \/ \A i \in DOMAIN trace.spans :
        LET span == trace.spans[i] IN
        span.parent # NoParent => trace.spans[span.parent].owner = span.owner

\* Both observers keep the calls of an invocation apart although the provider
\* uses raw ids, and the model arguments, again.
CallsKeptApart == ResultsAnswerTheirCalls /\ CompletionsHangUnderTheirStarts
=============================================================================
