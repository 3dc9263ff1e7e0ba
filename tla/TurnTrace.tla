------------------------------ MODULE TurnTrace ------------------------------
(***************************************************************************)
(* HarnessTracePlugin of src/harness/tracing/plugin.py as operators: how   *)
(* the spans of model and tool calls are stored and paired.                *)
(*                                                                         *)
(* An operation is keyed by the raw id of its tool call, or "model": the   *)
(* rest of the key is the same throughout a work batch.  A span is stored  *)
(* once per key, phase and content; `owner`, the call it was recorded for, *)
(* is not part of the code's span.                                         *)
(***************************************************************************)
EXTENDS Naturals, Sequences

NoParent == 0  \* the span hangs under its agent or run

EmptyTrace(keys) ==
    [spans |-> <<>>,                       \* what the store holds, in order
     active |-> [k \in keys |-> <<>>],     \* started spans without a completion
     closed |-> {},                        \* keys whose last span was a completion
     missed |-> 0]                         \* observations that failed

\* _parent_for: a completion hangs under the oldest open start of its key.
ParentFor(t, span) ==
    IF span.phase = "end" /\ t.active[span.key] # <<>>
    THEN Head(t.active[span.key]) ELSE NoParent

\* The store answers a repeated span with the one it has.
StoredAt(t, span) ==
    {i \in DOMAIN t.spans : /\ t.spans[i].key = span.key
                            /\ t.spans[i].phase = span.phase
                            /\ t.spans[i].content = span.content}

\* _mark_recorded for a start: a new span opens its key again; a repeated one
\* counts as open unless its key has been closed or it is open already.
MarkStart(t, span, id, new) ==
    IF new
    THEN [t EXCEPT !.closed = @ \ {span.key},
                   !.active[span.key] = Append(@, id)]
    ELSE IF span.key \in t.closed \/ \E i \in DOMAIN t.active[span.key] :
                                          t.active[span.key][i] = id
         THEN t
         ELSE [t EXCEPT !.active[span.key] = Append(@, id)]

\* _mark_recorded for a completion: its start is done and its key closed.
MarkEnd(t, span, parent) ==
    [t EXCEPT !.active[span.key] = IF parent # NoParent THEN Tail(@) ELSE @,
              !.closed = @ \cup {span.key}]

\* _record_unchecked: look for the parent, append, and only then pair.
Recorded(t, span) ==
    LET parent == ParentFor(t, span)
        new == StoredAt(t, span) = {}
        id == IF new THEN Len(t.spans) + 1
              ELSE CHOOSE i \in StoredAt(t, span) : TRUE
        stored == IF new THEN [t EXCEPT !.spans = Append(@,
                                [key |-> span.key, phase |-> span.phase,
                                 content |-> span.content, owner |-> span.owner,
                                 parent |-> parent])]
                  ELSE t
    IN  IF span.phase = "start" THEN MarkStart(stored, span, id, new)
        ELSE MarkEnd(stored, span, parent)

\* _record: a failed observation is logged and changes nothing.
Observed(t, span, seen) ==
    IF seen THEN Recorded(t, span) ELSE [t EXCEPT !.missed = @ + 1]
=============================================================================
