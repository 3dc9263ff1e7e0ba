--------------------------- MODULE TaskWorkflow ---------------------------
(***************************************************************************)
(* The durable workflow around the coding worker                           *)
(* (app/agent/workflow.py) with the steering plugin                        *)
(* (harness/adk/steering.py), the event store and the checkpoints, for one *)
(* task of one session.  Each action makes at most the durable writes of   *)
(* one synchronous section; the process may stop between any two actions,  *)
(* an exception ends the invocation, and a later invocation of the same    *)
(* request initialises from what is durable.                               *)
(***************************************************************************)
EXTENDS TaskLedger, SteeringQueue, Integers

CONSTANTS Messages,        \* steering messages the user may send
          Trees,           \* workspace fingerprints
          Configured,      \* the sets of steering safe points looked at
          BatchLimit,      \* steering_batch_limit
          MaxIterations,   \* max_iterations
          MaxInvocations,  \* bound: invocations of the task
          MaxCrashes,      \* bound: stops of the process
          MaxEdits         \* bound: edits of the workspace by others

(* validate_safe_points: before_tool needs before_model; the empty set
   stands for steering switched off. *)
SafePoints == {p \in SUBSET {"before_model", "before_tool", "work_batch_boundary"} :
                   "before_tool" \in p => "before_model" \in p}

ASSUME WorkflowAssumption ==
    /\ Configured \subseteq SafePoints
    /\ BatchLimit \in Nat \ {0}
    /\ MaxIterations \in Nat \ {0}
    /\ MaxInvocations \in Nat /\ MaxCrashes \in Nat /\ MaxEdits \in Nat

VARIABLES
    asked,      \* mode of the request
    points,     \* steering safe points
    \* durable
    stream,     \* content of each idempotency key in the task's event stream
    recorded,   \* the ledger as the fold of the stream, or NoLedger
    checkpoint, \* latest checkpoint, or NoCheckpoint
    queue,      \* steering messages
    required,   \* session state: verification_required_task is this task
    tree,       \* fingerprint of the workspace
    \* volatile
    run,        \* the invocation under way, or Idle
    outcome,    \* how the last invocation ended
    \* bounds and history
    spent,      \* what was used of each bound
    delivered   \* messages put before the model in a batch whose step is recorded

log == <<stream, recorded>>
vars == <<asked, points, stream, recorded, checkpoint, queue, required, tree,
          run, outcome, spent, delivered>>

NoLedger == [none |-> "ledger"]
NoCheckpoint == [none |-> "checkpoint"]
Idle == [at |-> "idle"]

(* Where an invocation stands; a route is also a place. *)
Place == Route \cup {"model", "replied", "tool", "judge", "answered", "reduced", "fence"}

(* The local state of an invocation: base is initial_fingerprint, packet the
   messages leased for the work packet; shown and touched are history: the
   messages put before the model in this batch, and whether the invocation
   ran a tool that requires verification. *)
Invocation == [at : Place, ledger : Ledger, mode : Mode, base : Trees, step : Step,
               packet : SUBSET Messages, streamed : BOOLEAN,
               shown : SUBSET Messages, touched : BOOLEAN]

AtBoundary == "work_batch_boundary" \in points

(* has_pending where it is asked with steering enabled, and where it is also
   asked for the boundary safe point. *)
SteeringWaits == points # {} /\ Pending(queue)
BoundaryWaits == AtBoundary /\ Pending(queue)

Init ==
    /\ asked \in Mode
    /\ points \in Configured
    /\ stream = <<>> /\ recorded = NoLedger /\ checkpoint = NoCheckpoint
    /\ queue = [m \in Messages |-> "unsent"]
    /\ required = FALSE
    /\ tree \in Trees
    /\ run = Idle /\ outcome = "none"
    /\ spent = [invocations |-> 0, crashes |-> 0, edits |-> 0]
    /\ delivered = {}

-----------------------------------------------------------------------------
(* Idempotent appends: a key that is there with the same content is not
   written again; with other content the append raises. *)
Conflicts(key, content) == key \in DOMAIN stream /\ stream[key] # content

Extended(events, key, content) ==
    [k \in DOMAIN events \cup {key} |-> IF k \in DOMAIN events THEN events[k] ELSE content]

(* A content that is compared only with what its key already holds: as
   first written, or otherwise. *)
Details(key) == IF key \in DOMAIN stream THEN {"as before", "otherwise"} ELSE {"as before"}

(* An event that changes the ledger by patch; detail is whatever else it
   holds. *)
Append(key, patch, detail) ==
    /\ ~Conflicts(key, <<patch, detail>>)
    /\ stream' = Extended(stream, key, <<patch, detail>>)
    /\ recorded' = IF key \in DOMAIN stream THEN recorded ELSE Patched(recorded, patch)

(* A ledger.patched event for the new in-memory ledger `after`; the
   invocation goes on at `place`. *)
Advance(name, iteration, after, place) ==
    /\ Append(<<name, iteration>>, Patch(run.ledger, after), "")
    /\ run' = [run EXCEPT !.ledger = after, !.at = place]

(* _save_checkpoint. *)
Save(ledger) == checkpoint' = [tree |-> tree, ledger |-> ledger]

(* The invocation goes on, returns a result, or raises. *)
Go(place) == run' = [run EXCEPT !.at = place]
Return(result) == run' = Idle /\ outcome' = result
Raise == Return("raised")

-----------------------------------------------------------------------------
(* _initialize_run: restore the ledger from the stream, or create it, and
   ask for reconciliation when the workspace is not that of the latest
   checkpoint. *)
(* A mutant: the ledger of the latest checkpoint is taken up. *)
RestoredFromCheckpoint ==
    IF checkpoint = NoCheckpoint THEN Created(asked) ELSE checkpoint.ledger

Restored == IF recorded = NoLedger THEN Created(asked) ELSE recorded

Begin ==
    /\ run = Idle
    /\ spent.invocations < MaxInvocations
    /\ spent' = [spent EXCEPT !.invocations = @ + 1]
    /\ UNCHANGED <<asked, points, queue, required, tree, delivered>>

Enter(ledger) ==
    /\ run' = [at |-> "continue", ledger |-> ledger,
               mode |-> IF ledger.mode = "coding" THEN "coding" ELSE asked,
               base |-> tree, step |-> "continue", packet |-> {}, streamed |-> FALSE,
               shown |-> {}, touched |-> FALSE]
    /\ outcome' = "none"

Moved == checkpoint # NoCheckpoint /\ checkpoint.tree # tree

Invoke ==
    /\ Begin
    /\ ~Moved
    /\ stream' = IF recorded = NoLedger
                 THEN Extended(stream, <<"task-created", 0>>, <<Restored, "">>)
                 ELSE stream
    /\ recorded' = Restored
    /\ IF checkpoint = NoCheckpoint THEN Save(Restored) ELSE UNCHANGED checkpoint
    /\ Enter(Restored)

InvokeMoved ==
    LET seen == <<"workspace-reconcile", tree>>
        key == <<"workspace-reconcile-ledger", tree>>
        after == [recorded EXCEPT !.reconciling = TRUE]
        patch == Patch(recorded, after)
    IN  /\ Begin
        /\ Moved
        /\ \/ /\ Conflicts(seen, checkpoint)
              /\ Raise
              /\ UNCHANGED log
           \/ /\ ~Conflicts(seen, checkpoint)
              /\ Conflicts(key, <<patch, "">>)
              /\ Raise
              /\ stream' = Extended(stream, seen, checkpoint)
              /\ UNCHANGED recorded
           \/ /\ ~Conflicts(seen, checkpoint)
              /\ ~Conflicts(key, <<patch, "">>)
              /\ stream' = Extended(Extended(stream, seen, checkpoint), key, <<patch, "">>)
              /\ recorded' = IF key \in DOMAIN stream THEN recorded ELSE after
              /\ Enter(after)
        /\ UNCHANGED checkpoint

-----------------------------------------------------------------------------
(* The top of the loop: lease the steering of this packet at the boundary
   safe point, reserve the input budget, hand the packet to the worker. *)
PacketLease(taken) ==
    IF AtBoundary
    THEN taken \in Leasable(queue, BatchLimit) /\ queue' = Lease(queue, taken)
    ELSE taken = {} /\ UNCHANGED queue

MayIterate == run.at = "continue" /\ run.ledger.iteration < MaxIterations

Prepare ==
    /\ MayIterate
    /\ \E taken \in SUBSET Messages :
          /\ PacketLease(taken)
          /\ run' = [run EXCEPT !.at = "model", !.packet = taken, !.shown = taken,
                                !.streamed = FALSE]
    /\ UNCHANGED <<asked, points, log, checkpoint, required, tree, outcome, spent, delivered>>

(* The budget is spent: the reason of the block names the tokens projected
   for this packet, so that of a later packet may differ. *)
OverBudget ==
    /\ MayIterate
    /\ \E taken \in SUBSET Messages : PacketLease(taken)
    /\ LET key == <<"input-budget", run.ledger.iteration>>
       IN  \E reason \in Details(key) :
              \/ /\ Append(key, Blocking, reason)
                 /\ Return("blocked")
              \/ /\ Conflicts(key, <<Blocking, reason>>)
                 /\ Raise
                 /\ UNCHANGED log
    /\ UNCHANGED <<asked, points, checkpoint, required, tree, spent, delivered>>

IterationLimit ==
    /\ run.at = "continue"
    /\ run.ledger.iteration >= MaxIterations
    /\ Append(<<"iteration-limit", 0>>, Blocking, "")
    /\ Return("blocked")
    /\ UNCHANGED <<asked, points, checkpoint, queue, required, tree, spent, delivered>>

-----------------------------------------------------------------------------
(* The worker: model calls and tool calls alternate. *)
Held(q) == LeasedBy(q) \ run.packet

Room == BatchLimit - Cardinality(Held(queue))

(* A mutant: only the messages leased just now are put before the model. *)
ModelCallNewOnly ==
    /\ run.at = "model"
    /\ IF "before_model" \in points /\ Room > 0
       THEN \E taken \in Leasable(queue, Room) :
               /\ queue' = Lease(queue, taken)
               /\ run' = [run EXCEPT !.at = "replied", !.shown = @ \cup taken]
       ELSE Go("replied") /\ UNCHANGED queue
    /\ UNCHANGED <<asked, points, log, checkpoint, required, tree, outcome, spent, delivered>>

(* before_model_callback: lease up to the batch limit, put every live lease
   that is not of the packet before the model. *)
ModelCall ==
    /\ run.at = "model"
    /\ IF "before_model" \in points
       THEN /\ IF Room > 0
               THEN \E taken \in Leasable(queue, Room) : queue' = Lease(queue, taken)
               ELSE UNCHANGED queue
            /\ run' = [run EXCEPT !.at = "replied", !.shown = @ \cup Held(queue')]
       ELSE Go("replied") /\ UNCHANGED queue
    /\ UNCHANGED <<asked, points, log, checkpoint, required, tree, outcome, spent, delivered>>

(* before_tool_callback: no tool starts while steering waits and the batch
   has room; the model is called again. *)
Fenced == "before_tool" \in points /\ Room > 0 /\ Pending(queue)

(* No tool follows a reply that was published. *)
MayCallTool == run.at = "replied" /\ ~run.streamed

ToolFenced ==
    /\ MayCallTool
    /\ Fenced
    /\ Go("model")
    /\ UNCHANGED <<asked, points, log, checkpoint, queue, required, tree, outcome, spent, delivered>>

(* bash, edit and write: the flag is set in the tool's state delta, the
   effect happens, and the delta becomes durable with the tool's response. *)
Tool ==
    /\ MayCallTool
    /\ ~Fenced
    /\ tree' \in Trees
    /\ run' = [run EXCEPT !.at = "tool", !.touched = TRUE]
    /\ UNCHANGED <<asked, points, log, checkpoint, queue, required, outcome, spent, delivered>>

ToolResponse ==
    /\ run.at = "tool"
    /\ required' = TRUE
    /\ Go("model")
    /\ UNCHANGED <<asked, points, log, checkpoint, queue, tree, outcome, spent, delivered>>

(* A mutant: an unchanged workspace is evidence enough. *)
MayAnswerByTree == run.mode = "auto" /\ tree = run.base

(* can_answer_directly, on the evidence of this invocation. *)
MayAnswer == run.mode = "auto" /\ ~required /\ tree = run.base

(* allow_reply: the reply is published while it is being written. *)
StreamReply ==
    /\ MayCallTool
    /\ MayAnswer
    /\ ~SteeringWaits
    /\ run' = [run EXCEPT !.streamed = TRUE]
    /\ UNCHANGED <<asked, points, log, checkpoint, queue, required, tree, outcome, spent, delivered>>

(* The worker's final reply; an ordinary continue is a block. *)
WorkerReturns ==
    /\ run.at = "replied"
    /\ \E raw \in IF run.streamed THEN {"answer"} ELSE Step :
          run' = [run EXCEPT !.at = "judge",
                             !.step = IF raw = "continue" THEN "blocked" ELSE raw]
    /\ UNCHANGED <<asked, points, log, checkpoint, queue, required, tree, outcome, spent, delivered>>

(* A final reply that is no step; the event holds the text of the error. *)
WorkerMalformed ==
    LET key == <<"malformed-step", run.ledger.iteration + 1>>
    IN  /\ MayCallTool
        /\ \E text \in Details(key) :
              \/ /\ Conflicts(key, text)
                 /\ Raise
                 /\ UNCHANGED stream
              \/ /\ ~Conflicts(key, text)
                 /\ stream' = Extended(stream, key, text)
                 /\ run' = [run EXCEPT !.at = "judge", !.step = "blocked"]
                 /\ UNCHANGED outcome
        /\ UNCHANGED <<asked, points, recorded, checkpoint, queue, required, tree, spent, delivered>>

(* The worker raises or is cancelled: its leases are released. *)
WorkerFails ==
    /\ run.at \in {"model", "replied", "tool"}
    /\ queue' = Release(queue)
    /\ Raise
    /\ UNCHANGED <<asked, points, log, checkpoint, required, tree, spent, delivered>>

-----------------------------------------------------------------------------
(* A direct answer: refused when there are obligations, put off when
   steering waits, recorded otherwise. *)
Answering == run.at = "judge" /\ run.step = "answer"

AnswerRefused ==
    /\ Answering
    /\ ~MayAnswer
    /\ IF run.streamed THEN Raise
       ELSE run' = [run EXCEPT !.step = "verify"] /\ UNCHANGED outcome
    /\ UNCHANGED <<asked, points, log, checkpoint, queue, required, tree, spent, delivered>>

AnswerPutOff ==
    /\ Answering
    /\ MayAnswer
    /\ SteeringWaits
    /\ run' = [run EXCEPT !.step = "continue"]
    /\ UNCHANGED <<asked, points, log, checkpoint, queue, required, tree, outcome, spent, delivered>>

Answer ==
    /\ Answering
    /\ MayAnswer
    /\ ~SteeringWaits
    /\ LET after == [run.ledger EXCEPT !.status = "answered", !.reconciling = FALSE,
                                       !.iteration = @ + 1]
       IN  Advance("answer", after.iteration, after, "answered")
    /\ delivered' = delivered \cup run.shown
    /\ UNCHANGED <<asked, points, checkpoint, queue, required, tree, outcome, spent>>

AnswerAcked ==
    /\ run.at = "answered"
    /\ queue' = Ack(queue)
    /\ Save(run.ledger)
    /\ Return("answered")
    /\ UNCHANGED <<asked, points, log, required, tree, spent, delivered>>

(* The first request for verification makes an auto task a coding task. *)
Promote ==
    /\ run.at = "judge" /\ run.step = "verify" /\ run.mode = "auto"
    /\ LET after == [run.ledger EXCEPT !.mode = "coding"]
       IN  /\ Append(<<"coding-contract-established", 0>>, Patch(run.ledger, after), "")
           /\ run' = [run EXCEPT !.ledger = after, !.mode = "coding"]
    /\ UNCHANGED <<asked, points, checkpoint, queue, required, tree, outcome, spent, delivered>>

(* The step becomes part of the ledger, and durable. *)
Reduce ==
    /\ run.at = "judge"
    /\ run.step # "answer"
    /\ run.step = "verify" => run.mode = "coding"
    /\ \E repeated, silent \in BOOLEAN :
          LET after == Reduced(run.ledger, run.step, repeated, silent)
          IN  Advance("agent-step", after.iteration, after, "reduced")
    /\ delivered' = delivered \cup run.shown
    /\ UNCHANGED <<asked, points, checkpoint, queue, required, tree, outcome, spent>>

(* Only then is the steering that the worker held acknowledged. *)
AckDelivered ==
    /\ run.at = "reduced"
    /\ queue' = Ack(queue)
    /\ Go("fence")
    /\ UNCHANGED <<asked, points, log, checkpoint, required, tree, outcome, spent, delivered>>

(* A mutant: only a changed workspace is reviewed. *)
NeedsReviewByTree ==
    /\ run.step = "verify"
    /\ tree # run.base
    /\ ~run.ledger.reviewed

(* The safe point behind a step: waiting steering resumes the work; the
   first verification of a changed workspace is preceded by a review; the
   route is decided and the checkpoint saved. *)
NeedsReview ==
    /\ run.step = "verify"
    /\ required \/ tree # run.base
    /\ ~run.ledger.reviewed

FenceSteered ==
    /\ run.at = "fence"
    /\ BoundaryWaits
    /\ Advance("steering-safe-point", run.ledger.iteration, Resumed(run.ledger), "continue")
    /\ Save(Resumed(run.ledger))
    /\ UNCHANGED <<asked, points, queue, required, tree, outcome, spent, delivered>>

Reviewing(ledger) ==
    [ledger EXCEPT !.phase = "review", !.status = "active", !.reviewed = TRUE,
                   !.reconciling = FALSE]

FenceReview ==
    /\ run.at = "fence"
    /\ ~BoundaryWaits
    /\ NeedsReview
    /\ Advance("counterexample-review", 0, Reviewing(run.ledger), "continue")
    /\ Save(Reviewing(run.ledger))
    /\ UNCHANGED <<asked, points, queue, required, tree, outcome, spent, delivered>>

FenceRouted ==
    /\ run.at = "fence"
    /\ ~BoundaryWaits
    /\ ~NeedsReview
    /\ Go(Decided(run.ledger, run.step))
    /\ Save(run.ledger)
    /\ UNCHANGED <<asked, points, log, queue, required, tree, outcome, spent, delivered>>

-----------------------------------------------------------------------------
(* The routes; "continue" is the top of the loop. *)
Blocked ==
    /\ run.at = "blocked"
    /\ Append(<<"blocked", run.ledger.iteration>>, Blocking, "")
    /\ Return("blocked")
    /\ UNCHANGED <<asked, points, checkpoint, queue, required, tree, spent, delivered>>

Replan ==
    /\ run.at = "replan"
    /\ Advance("replan", run.ledger.iteration, Replanned(run.ledger), "continue")
    /\ Save(Replanned(run.ledger))
    /\ UNCHANGED <<asked, points, queue, required, tree, outcome, spent, delivered>>

(* verify_task runs the checks; what follows its report is one section. *)
VerifyResumes(name) ==
    /\ run.at = "verify"
    /\ Advance(name, run.ledger.iteration, Resumed(run.ledger), "continue")
    /\ Save(Resumed(run.ledger))
    /\ UNCHANGED <<asked, points, queue, required, tree, outcome, spent, delivered>>

VerifyFails == VerifyResumes("verification-failed")

VerifyFenced == BoundaryWaits /\ VerifyResumes("steering-completion-fence")

(* Two passing reports may be equal or not. *)
Finish ==
    /\ run.at = "verify"
    /\ ~BoundaryWaits
    /\ LET key == <<"task-finished", 0>>
       IN  \E report \in Details(key) :
              \/ /\ Append(key, Finishing, report)
                 /\ Save(Patched(run.ledger, Finishing))
                 /\ Return("complete")
              \/ /\ Conflicts(key, <<Finishing, report>>)
                 /\ Raise
                 /\ UNCHANGED <<log, checkpoint>>
    /\ UNCHANGED <<asked, points, queue, required, tree, spent, delivered>>

-----------------------------------------------------------------------------
(* The user, the clock, other editors of the workspace, and the process. *)
Send(m) ==
    /\ queue[m] = "unsent"
    /\ queue' = [queue EXCEPT ![m] = "queued"]
    /\ UNCHANGED <<asked, points, log, checkpoint, required, tree, run, outcome, spent, delivered>>

Expire(m) ==
    /\ queue[m] = "leased"
    /\ queue' = [queue EXCEPT ![m] = "expired"]
    /\ UNCHANGED <<asked, points, log, checkpoint, required, tree, run, outcome, spent, delivered>>

OutsideEdit ==
    /\ spent.edits < MaxEdits
    /\ tree' \in Trees \ {tree}
    /\ spent' = [spent EXCEPT !.edits = @ + 1]
    /\ UNCHANGED <<asked, points, log, checkpoint, queue, required, run, outcome, delivered>>

Crash ==
    /\ run # Idle
    /\ spent.crashes < MaxCrashes
    /\ Return("crashed")
    /\ spent' = [spent EXCEPT !.crashes = @ + 1]
    /\ UNCHANGED <<asked, points, log, checkpoint, queue, required, tree, delivered>>

Environment ==
    \/ Invoke \/ InvokeMoved \/ OutsideEdit \/ Crash
    \/ \E m \in Messages : Send(m) \/ Expire(m)

WorkerEnds == WorkerReturns \/ WorkerMalformed \/ WorkerFails

Worker == ModelCall \/ ToolFenced \/ Tool \/ ToolResponse \/ StreamReply \/ WorkerEnds

Orchestrate ==
    \/ Prepare \/ OverBudget \/ IterationLimit
    \/ AnswerRefused \/ AnswerPutOff \/ Answer \/ AnswerAcked
    \/ Promote \/ Reduce \/ AckDelivered
    \/ FenceSteered \/ FenceReview \/ FenceRouted
    \/ Blocked \/ Replan \/ VerifyFails \/ VerifyFenced \/ Finish

Next == Environment \/ Worker \/ Orchestrate

Spec == Init /\ [][Next]_vars

(* The event loop runs what is runnable, models and tools respond, and the
   worker's loop of model and tool calls is bounded by ADK. *)
Fairness ==
    /\ WF_vars(Orchestrate)
    /\ WF_vars(ModelCall \/ ToolResponse)
    /\ SF_vars(WorkerEnds)

FairSpec == Spec /\ Fairness

-----------------------------------------------------------------------------
(* Types: while an invocation runs, its task has a recorded ledger
   (workflow.py:500-527). *)
TypeOK ==
    /\ asked \in Mode /\ points \in Configured
    /\ recorded \in Ledger \cup {NoLedger}
    /\ checkpoint = NoCheckpoint \/ (checkpoint.tree \in Trees /\ checkpoint.ledger \in Ledger)
    /\ queue \in [Messages -> MessageState]
    /\ required \in BOOLEAN /\ tree \in Trees
    /\ run \in Invocation \cup {Idle}
    /\ run # Idle => recorded \in Ledger
    /\ outcome \in {"none", "blocked", "answered", "complete", "raised", "crashed"}
    /\ spent \in [invocations : 0..MaxInvocations, crashes : 0..MaxCrashes, edits : 0..MaxEdits]
    /\ delivered \subseteq Messages

(* "a killed invocation can redeliver them safely" (adk/steering.py:40):
   with the before_model safe point, a message is acknowledged only after it
   was put before the model in a work batch whose step is in the stream,
   whatever crashes, expired leases, failures and batch limits came between. *)
AckedOnlyDelivered ==
    "before_model" \in points => Having(queue, {"acked"}) \subseteq delivered

(* A task does not complete past its user: at the completion fence
   (workflow.py:763-785) every message sent by then was acknowledged - not
   waiting, not leased, and not lost with an expired lease. *)
CompletionServesSteering ==
    [][outcome' = "complete" /\ outcome # "complete" /\ AtBoundary
         => \A m \in Messages : queue[m] \in {"unsent", "acked"}]_vars

(* A step is never refused by the idempotent append, nor taken for an
   earlier one: the key of the next step is unused when the worker returns
   (workflow.py:1085), whichever invocation used the keys before it. *)
StepKeysFresh ==
    run.at = "judge" =>
        \A name \in {"agent-step", "answer"} :
            <<name, run.ledger.iteration + 1>> \notin DOMAIN stream

(* An invocation in which a tool ran completes its task only after the
   counterexample review (workflow.py:1109-1135), even where steering, failed
   checks or a tool that undid the change came between. *)
ReviewedBeforeComplete ==
    [][outcome' = "complete" /\ outcome # "complete" /\ run.touched => recorded.reviewed]_vars

(* "Tool effects ... cannot be waived by a model choosing a conversational
   status" (workflow.py:1012): an invocation in which a tool with effects ran
   does not end as a direct answer. *)
AnsweredUntouched == run.at = "answered" => ~run.touched

(* Every invocation ends, whatever the user, the model and the checks do:
   each turn of the loop adds an iteration (workflow.py:870). *)
InvocationEnds == run # Idle ~> run = Idle

(* "State-changing callers emit an explicit ledger.patched event so replay
   never depends on implicit behavior" (state/events.py:134): a task reported
   complete is complete in the replayed ledger. *)
CompleteIsDurable == outcome = "complete" => recorded.status = "complete"
=============================================================================
