---------------------------- MODULE PublicStream ----------------------------
(***************************************************************************)
(* AdkAgUiNormalizer of src/harness/server/adk_mapper.py as operators: what*)
(* the server makes public of an ordered stream of ADK events.             *)
(*                                                                         *)
(* A text is a sequence of tokens, a tool call has the raw id its provider *)
(* gave it, and its public id is its place in `calls`.  Redaction and the  *)
(* length bounds, which treat a text the same way wherever it occurs, are  *)
(* left out.                                                               *)
(***************************************************************************)
EXTENDS Naturals, Sequences, SequencesExt

NoCall == 0
Unanswered == <<>>  \* and <<result>> once a call is answered

\* No public events yet; `pending` and `last` are keyed by raw id.
SilentStream(rawIds) ==
    [open |-> FALSE,                        \* a message is being streamed
     shown |-> <<>>,                        \* texts of the public messages
     calls |-> <<>>,                        \* public tool calls, results in place
     pending |-> [r \in rawIds |-> NoCall], \* started and not answered yet
     last |-> [r \in rawIds |-> NoCall]]    \* answered last under this raw id

\* _close_message
CloseMessage(s) == [s EXCEPT !.open = FALSE]

\* The text of the message being streamed (_active_text).
ActiveText(s) == IF s.open THEN Last(s.shown) ELSE <<>>

\* Mutant: the aggregate is shown in full behind the deltas it repeats.
AllOf(s, text, partial) == text

\* What an aggregate adds to the deltas already shown.
NewPart(s, text, partial) ==
    IF ~partial /\ IsPrefix(ActiveText(s), text)
    THEN SubSeq(text, Len(ActiveText(s)) + 1, Len(text))
    ELSE text

\* _push_text: opens a message, appends what is new, and closes it again when
\* the event is not partial.
PushText(s, text, partial) ==
    IF text = <<>> THEN s
    ELSE [s EXCEPT !.open = partial,
                   !.shown = Append(IF s.open THEN Front(@) ELSE @,
                                    ActiveText(s) \o NewPart(s, text, partial))]

\* A call that names a raw id still pending must repeat that call.
MayPushCall(s, call) ==
    s.pending[call.raw] # NoCall => s.calls[s.pending[call.raw]].args = call.args

\* _push_tool_call: a repetition of a pending call is swallowed, anything else
\* is a new public call, even under a raw id the provider has used before.
PushCall(s, call) ==
    IF s.pending[call.raw] # NoCall THEN CloseMessage(s)
    ELSE [CloseMessage(s) EXCEPT
             !.calls = Append(@, [raw |-> call.raw, args |-> call.args,
                                  turn |-> call.turn, answer |-> Unanswered]),
             !.pending[call.raw] = Len(s.calls) + 1,
             !.last[call.raw] = NoCall]

\* Mutant: an answered call stays pending under its raw id.
PushResultKeeping(s, result) ==
    IF s.pending[result.raw] # NoCall
    THEN [CloseMessage(s) EXCEPT
             !.calls[s.pending[result.raw]].answer = <<result>>,
             !.last[result.raw] = s.pending[result.raw]]
    ELSE CloseMessage(s)

\* _push_tool_result: the pending call of that raw id is answered; a result
\* without one repeats the last result of its raw id and is swallowed.
PushResult(s, result) ==
    IF s.pending[result.raw] # NoCall
    THEN [CloseMessage(s) EXCEPT
             !.calls[s.pending[result.raw]].answer = <<result>>,
             !.last[result.raw] = s.pending[result.raw],
             !.pending[result.raw] = NoCall]
    ELSE CloseMessage(s)
=============================================================================
