------------------------- MODULE TaskWorkflowProofs -------------------------
(***************************************************************************)
(* Theorems about TaskWorkflow, for any messages, workspaces, safe points, *)
(* thresholds and bounds.                                                  *)
(***************************************************************************)
EXTENDS TaskWorkflow, TLAPS

(* The ledgers that the operations of TaskLedger make are ledgers. *)
LEMMA CreatedType == \A m \in Mode : Created(m) \in Ledger
BY DEF Created, Ledger, Mode, TaskStatus, TaskPhase

LEMMA PatchedType ==
  ASSUME NEW l \in Ledger, NEW before \in Ledger, NEW after \in Ledger
  PROVE  Patched(l, Patch(before, after)) \in Ledger
BY DEF Patched, Patch, Ledger

LEMMA EventType ==
  ASSUME NEW l \in Ledger
  PROVE  Patched(l, Blocking) \in Ledger /\ Patched(l, Finishing) \in Ledger
BY DEF Patched, Blocking, Finishing, Ledger, TaskStatus, TaskPhase

LEMMA ReducedType ==
  ASSUME NEW l \in Ledger, NEW step, NEW repeated \in BOOLEAN, NEW silent \in BOOLEAN
  PROVE  Reduced(l, step, repeated, silent) \in Ledger
<1> DEFINE settled == CASE step = "blocked" -> Blocking
                        [] step = "verify" -> [status |-> "verifying", phase |-> "verify"]
                        [] OTHER -> [status |-> "active", phase |-> "implement"]
<1>1. Patched(l, settled) \in Ledger
  BY DEF Patched, Blocking, Ledger, TaskStatus, TaskPhase
<1> HIDE DEF settled
<1>2. PICK p \in Ledger : p = Patched(l, settled)
  BY <1>1
<1>3. Reduced(l, step, repeated, silent)
        = [p EXCEPT !.iteration = @ + 1, !.reconciling = @ /\ silent,
                    !.stuck = IF repeated THEN @ + 1 ELSE 0]
  BY <1>2 DEF Reduced, settled
<1>4. PICK b \in BOOLEAN : b = (p.reconciling /\ silent)
  OBVIOUS
<1>5. PICK k \in Nat : k = IF repeated THEN p.stuck + 1 ELSE 0
  BY <1>2 DEF Ledger
<1>6. PICK n \in Nat : n = p.iteration + 1
  BY <1>2 DEF Ledger
<1>7. Reduced(l, step, repeated, silent)
        = [p EXCEPT !.iteration = n, !.reconciling = b, !.stuck = k]
  BY <1>3, <1>4, <1>5, <1>6
<1> QED BY <1>2, <1>7 DEF Ledger

LEMMA ResumedType ==
  ASSUME NEW l \in Ledger
  PROVE  /\ Resumed(l) \in Ledger
         /\ Replanned(l) \in Ledger
         /\ Reviewing(l) \in Ledger
         /\ [l EXCEPT !.mode = "coding"] \in Ledger
         /\ [l EXCEPT !.reconciling = TRUE] \in Ledger
         /\ [l EXCEPT !.status = "answered", !.reconciling = FALSE,
                      !.iteration = @ + 1] \in Ledger
<1>1. Resumed(l) \in Ledger
  BY DEF Resumed, Ledger, TaskStatus, TaskPhase
<1>2. Replanned(l) \in Ledger
  BY DEF Replanned, Ledger, TaskStatus, TaskPhase
<1>3. Reviewing(l) \in Ledger
  BY DEF Reviewing, Ledger, TaskStatus, TaskPhase
<1>4. [l EXCEPT !.mode = "coding"] \in Ledger
  BY DEF Ledger, Mode
<1>5. [l EXCEPT !.reconciling = TRUE] \in Ledger
  BY DEF Ledger
<1>6. [l EXCEPT !.status = "answered", !.reconciling = FALSE, !.iteration = @ + 1] \in Ledger
  <2>1. PICK n \in Nat : n = l.iteration + 1
    BY DEF Ledger
  <2>2. [l EXCEPT !.status = "answered", !.reconciling = FALSE, !.iteration = n] \in Ledger
    BY DEF Ledger, TaskStatus
  <2> QED BY <2>1, <2>2
<1> QED BY <1>1, <1>2, <1>3, <1>4, <1>5, <1>6

(* What each operation of the queue makes of a queue. *)
LEMMA QueueType ==
  ASSUME NEW q \in [Messages -> MessageState], NEW taken \in SUBSET Messages
  PROVE  /\ Lease(q, taken) \in [Messages -> MessageState]
         /\ Ack(q) \in [Messages -> MessageState]
         /\ Release(q) \in [Messages -> MessageState]
BY DEF Lease, Ack, Release, MessageState

LEMMA LeasableType ==
  ASSUME NEW q \in [Messages -> MessageState], NEW limit, NEW taken \in Leasable(q, limit)
  PROVE  taken \in SUBSET Messages
BY DEF Leasable, Having, kSubset

(* An invocation has a place and a ledger; the absence of one has neither. *)
LEMMA RunType ==
  ASSUME TypeOK, run.at # "idle"
  PROVE  run \in Invocation /\ run # Idle /\ recorded \in Ledger
BY DEF TypeOK, Idle

LEMMA GoType ==
  ASSUME run \in Invocation, NEW place \in Place, Go(place)
  PROVE  run' \in Invocation
BY DEF Go, Invocation

LEMMA AppendType ==
  ASSUME recorded \in Ledger, NEW key, NEW patch, NEW detail,
         Patched(recorded, patch) \in Ledger, Append(key, patch, detail)
  PROVE  recorded' \in Ledger
BY DEF Append

LEMMA AdvanceType ==
  ASSUME run \in Invocation, recorded \in Ledger,
         NEW after \in Ledger, NEW place \in Place, NEW name, NEW iteration,
         Advance(name, iteration, after, place)
  PROVE  recorded' \in Ledger /\ run' \in Invocation
<1>1. run.ledger \in Ledger
  BY DEF Invocation
<1>2. Patched(recorded, Patch(run.ledger, after)) \in Ledger
  BY <1>1, PatchedType
<1>3. recorded' \in Ledger
  BY <1>2, AppendType DEF Advance
<1>4. run' \in Invocation
  BY DEF Advance, Invocation
<1> QED BY <1>3, <1>4

LEMMA SaveType ==
  ASSUME tree \in Trees, NEW ledger \in Ledger, Save(ledger)
  PROVE  checkpoint'.tree \in Trees /\ checkpoint'.ledger \in Ledger
BY DEF Save

LEMMA RestoredType ==
  ASSUME TypeOK
  PROVE  Restored \in Ledger
BY CreatedType DEF TypeOK, Restored

LEMMA EnterType ==
  ASSUME NEW ledger \in Ledger, asked \in Mode, tree \in Trees, Enter(ledger)
  PROVE  run' \in Invocation /\ outcome' = "none"
<1>1. PICK m \in Mode : m = IF ledger.mode = "coding" THEN "coding" ELSE asked
  BY DEF Mode
<1>2. run' = [at |-> "continue", ledger |-> ledger, mode |-> m, base |-> tree,
              step |-> "continue", packet |-> {}, streamed |-> FALSE,
              shown |-> {}, touched |-> FALSE]
  BY <1>1 DEF Enter
<1>3. "continue" \in Place /\ "continue" \in Step
  BY DEF Place, Route, Step
<1> QED BY <1>2, <1>3 DEF Enter, Invocation

(* A task with a checkpoint has a recorded ledger: without that, the types
   are not inductive. *)
Typed == TypeOK /\ (checkpoint # NoCheckpoint => recorded \in Ledger)

(* The steps of the environment keep the types. *)
LEMMA EnvironmentType == Typed /\ Environment => Typed'
<1> SUFFICES ASSUME Typed, Environment
             PROVE  Typed'
  OBVIOUS
<1> USE DEF Typed
<1> DEFINE Spent == [invocations : 0..MaxInvocations, crashes : 0..MaxCrashes,
                     edits : 0..MaxEdits]
<1>0. Restored \in Ledger
  BY RestoredType
<1>1. CASE Invoke
  <2>1. Begin /\ Enter(Restored) /\ recorded' = Restored
    BY <1>1 DEF Invoke
  <2>2. IF checkpoint = NoCheckpoint THEN Save(Restored) ELSE UNCHANGED checkpoint
    BY <1>1 DEF Invoke
  <2>3. spent' \in Spent
    BY <2>1, WorkflowAssumption DEF Begin, TypeOK
  <2>4. run' \in Invocation /\ outcome' = "none"
    BY <1>0, <2>1, EnterType DEF TypeOK
  <2>5. checkpoint' = NoCheckpoint
          \/ (checkpoint'.tree \in Trees /\ checkpoint'.ledger \in Ledger)
    <3>1. CASE checkpoint = NoCheckpoint
      BY <1>0, <2>2, <3>1, SaveType DEF TypeOK
    <3>2. CASE checkpoint # NoCheckpoint
      BY <2>2, <3>2 DEF TypeOK
    <3> QED BY <3>1, <3>2
  <2> QED BY <1>0, <2>1, <2>3, <2>4, <2>5 DEF Begin, TypeOK
<1>2. CASE InvokeMoved
  <2>1. Begin /\ Moved /\ UNCHANGED checkpoint
    BY <1>2 DEF InvokeMoved
  <2>2. recorded \in Ledger
    BY <2>1 DEF Moved
  <2>3. PICK after \in Ledger : after = [recorded EXCEPT !.reconciling = TRUE]
    BY <2>2, ResumedType
  <2>4. recorded' \in {recorded, after}
    BY <1>2, <2>3 DEF InvokeMoved, log
  <2>5. Raise \/ Enter(after)
    BY <1>2, <2>3 DEF InvokeMoved
  <2>6. run' \in Invocation \cup {Idle} /\ outcome' \in {"none", "raised"}
    BY <2>5, EnterType DEF Raise, Return, TypeOK
  <2>7. spent' \in Spent
    BY <2>1, WorkflowAssumption DEF Begin, TypeOK
  <2>8. recorded' \in Ledger
    BY <2>2, <2>4
  <2> QED BY <2>1, <2>6, <2>7, <2>8 DEF Begin, TypeOK
<1>3. CASE OutsideEdit
  <2>1. spent' \in Spent
    BY <1>3, WorkflowAssumption DEF OutsideEdit, TypeOK
  <2> QED BY <1>3, <2>1 DEF OutsideEdit, TypeOK, log
<1>4. CASE Crash
  <2>1. spent' \in Spent
    BY <1>4, WorkflowAssumption DEF Crash, TypeOK
  <2> QED BY <1>4, <2>1 DEF Crash, Return, TypeOK, log
<1>5. ASSUME NEW m \in Messages, Send(m) \/ Expire(m)
      PROVE  Typed'
  BY <1>5 DEF Send, Expire, TypeOK, MessageState, log
<1> QED BY <1>1, <1>2, <1>3, <1>4, <1>5 DEF Environment

(* The steps of the worker keep the types. *)
LEMMA WorkerType == Typed /\ Worker => Typed'
<1> SUFFICES ASSUME Typed, Worker
             PROVE  Typed'
  OBVIOUS
<1> USE DEF Typed
<1>1. run \in Invocation /\ recorded \in Ledger
  BY RunType DEF Worker, WorkerEnds, ModelCall, ToolFenced, Tool, ToolResponse, StreamReply,
                 MayCallTool, WorkerReturns, WorkerMalformed, WorkerFails
<1>2. {"model", "replied", "tool", "judge"} \subseteq Place
  BY DEF Place
<1>3. CASE ModelCall
  <2>1. queue' \in [Messages -> MessageState]
    BY <1>3, QueueType, LeasableType DEF ModelCall, TypeOK
  <2>2. Held(queue') \subseteq Messages
    BY <2>1 DEF Held, LeasedBy, Having
  <2>3. run' \in Invocation
    <3>1. CASE Go("replied")
      BY <1>1, <1>2, <3>1, GoType
    <3>2. CASE run' = [run EXCEPT !.at = "replied", !.shown = @ \cup Held(queue')]
      <4>1. run.shown \cup Held(queue') \in SUBSET Messages
        BY <1>1, <2>2 DEF Invocation
      <4> QED BY <1>1, <1>2, <3>2, <4>1 DEF Invocation
    <3> QED BY <1>3, <3>1, <3>2 DEF ModelCall
  <2> QED BY <1>1, <1>3, <2>1, <2>3 DEF ModelCall, TypeOK, log
<1>4. CASE ToolFenced
  <2>1. run' \in Invocation
    BY <1>1, <1>2, <1>4, GoType DEF ToolFenced
  <2> QED BY <1>1, <1>4, <2>1 DEF ToolFenced, TypeOK, log
<1>5. CASE Tool
  <2>1. run' \in Invocation
    BY <1>1, <1>2, <1>5 DEF Tool, Invocation
  <2> QED BY <1>1, <1>5, <2>1 DEF Tool, TypeOK, log
<1>6. CASE ToolResponse
  <2>1. run' \in Invocation
    BY <1>1, <1>2, <1>6, GoType DEF ToolResponse
  <2> QED BY <1>1, <1>6, <2>1 DEF ToolResponse, TypeOK, log
<1>7. CASE StreamReply
  <2>1. run' \in Invocation
    BY <1>1, <1>7 DEF StreamReply, Invocation
  <2> QED BY <1>1, <1>7, <2>1 DEF StreamReply, TypeOK, log
<1>8. CASE WorkerReturns
  <2>1. PICK raw \in Step :
          run' = [run EXCEPT !.at = "judge",
                             !.step = IF raw = "continue" THEN "blocked" ELSE raw]
    BY <1>8 DEF WorkerReturns, Step
  <2>2. PICK step \in Step : step = IF raw = "continue" THEN "blocked" ELSE raw
    BY DEF Step
  <2>3. run' \in Invocation
    BY <1>1, <1>2, <2>1, <2>2 DEF Invocation
  <2> QED BY <1>1, <1>8, <2>3 DEF WorkerReturns, TypeOK, log
<1>9. CASE WorkerMalformed
  <2>1. Raise \/ (run' = [run EXCEPT !.at = "judge", !.step = "blocked"] /\ UNCHANGED outcome)
    BY <1>9 DEF WorkerMalformed
  <2>2. run' \in Invocation \cup {Idle} /\ outcome' \in {outcome, "raised"}
    BY <1>1, <1>2, <2>1 DEF Raise, Return, Invocation, Step
  <2> QED BY <1>1, <1>9, <2>2 DEF WorkerMalformed, TypeOK
<1>10. CASE WorkerFails
  <2>1. queue' \in [Messages -> MessageState]
    BY <1>10, QueueType DEF WorkerFails, TypeOK
  <2> QED BY <1>1, <1>10, <2>1 DEF WorkerFails, Raise, Return, TypeOK, log
<1> QED BY <1>3, <1>4, <1>5, <1>6, <1>7, <1>8, <1>9, <1>10 DEF Worker, WorkerEnds

LEMMA ResumesType ==
  ASSUME Typed, run \in Invocation, recorded \in Ledger,
         NEW after \in Ledger, NEW place \in Place, NEW name, NEW iteration,
         Advance(name, iteration, after, place), Save(after),
         UNCHANGED <<asked, points, queue, required, tree, outcome, spent, delivered>>
  PROVE  Typed'
<1>1. recorded' \in Ledger /\ run' \in Invocation
  BY AdvanceType
<1>2. checkpoint'.tree \in Trees /\ checkpoint'.ledger \in Ledger
  BY SaveType DEF Typed, TypeOK
<1> QED BY <1>1, <1>2 DEF Typed, TypeOK

(* The steps of the orchestration keep the types. *)
LEMMA OrchestrateType == Typed /\ Orchestrate => Typed'
<1> SUFFICES ASSUME Typed, Orchestrate
             PROVE  Typed'
  OBVIOUS
<1> USE DEF Typed
<1>1. run \in Invocation /\ recorded \in Ledger
  BY RunType DEF Orchestrate, Prepare, OverBudget, MayIterate, IterationLimit, Answering,
                 AnswerRefused, AnswerPutOff, Answer, AnswerAcked, Promote, Reduce,
                 AckDelivered, FenceSteered, FenceReview, FenceRouted, Blocked, Replan,
                 VerifyFails, VerifyFenced, VerifyResumes, Finish
<1>2. Route \subseteq Place /\ {"model", "answered", "reduced", "fence"} \subseteq Place
  BY DEF Place
<1>3. run.ledger \in Ledger
  BY <1>1 DEF Invocation
<1>4. PICK l \in Ledger : l = run.ledger
  BY <1>3
<1>5. "continue" \in Place
  BY DEF Place, Route
<1>6. CASE Prepare
  <2>1. PICK taken \in SUBSET Messages :
          /\ PacketLease(taken)
          /\ run' = [run EXCEPT !.at = "model", !.packet = taken, !.shown = taken,
                                !.streamed = FALSE]
    BY <1>6 DEF Prepare
  <2>2. queue' \in [Messages -> MessageState]
    BY <2>1, QueueType DEF PacketLease, TypeOK
  <2>3. run' \in Invocation
    BY <1>1, <1>2, <2>1 DEF Invocation
  <2> QED BY <1>1, <1>6, <2>2, <2>3 DEF Prepare, TypeOK, log
<1>7. CASE OverBudget
  <2>1. PICK taken \in SUBSET Messages : PacketLease(taken)
    BY <1>7 DEF OverBudget
  <2>2. queue' \in [Messages -> MessageState]
    BY <2>1, QueueType DEF PacketLease, TypeOK
  <2>3. recorded' \in Ledger
    BY <1>1, <1>7, EventType, AppendType DEF OverBudget, log
  <2>4. run' = Idle /\ outcome' \in {"blocked", "raised"}
    BY <1>7 DEF OverBudget, Raise, Return
  <2> QED BY <1>1, <1>7, <2>2, <2>3, <2>4 DEF OverBudget, TypeOK
<1>8. CASE IterationLimit
  <2>1. recorded' \in Ledger
    BY <1>1, <1>8, EventType, AppendType DEF IterationLimit
  <2> QED BY <1>8, <2>1 DEF IterationLimit, Return, TypeOK
<1>9. CASE AnswerRefused
  <2>1. run' \in Invocation \cup {Idle} /\ outcome' \in {outcome, "raised"}
    BY <1>1, <1>9 DEF AnswerRefused, Raise, Return, Invocation, Step
  <2> QED BY <1>1, <1>9, <2>1 DEF AnswerRefused, TypeOK, log
<1>10. CASE AnswerPutOff
  <2>1. run' \in Invocation
    BY <1>1, <1>10 DEF AnswerPutOff, Invocation, Step
  <2> QED BY <1>1, <1>10, <2>1 DEF AnswerPutOff, TypeOK, log
<1>11. CASE Answer
  <2>1. PICK after \in Ledger : Advance("answer", after.iteration, after, "answered")
    BY <1>3, <1>11, ResumedType DEF Answer
  <2>2. recorded' \in Ledger /\ run' \in Invocation
    BY <1>1, <1>2, <2>1, AdvanceType
  <2>3. delivered' \subseteq Messages
    BY <1>1, <1>11 DEF Answer, TypeOK, Invocation
  <2> QED BY <1>11, <2>2, <2>3 DEF Answer, TypeOK
<1>12. CASE AnswerAcked
  <2>1. queue' \in [Messages -> MessageState]
    BY <1>12, QueueType DEF AnswerAcked, TypeOK
  <2>2. checkpoint'.tree \in Trees /\ checkpoint'.ledger \in Ledger
    BY <1>3, <1>12, SaveType DEF AnswerAcked, TypeOK
  <2> QED BY <1>1, <1>12, <2>1, <2>2 DEF AnswerAcked, Return, TypeOK, log
<1>13. CASE Promote
  <2>1. PICK after \in Ledger : after = [run.ledger EXCEPT !.mode = "coding"]
    BY <1>3, ResumedType
  <2>2. Append(<<"coding-contract-established", 0>>, Patch(run.ledger, after), "")
    BY <1>13, <2>1 DEF Promote
  <2>3. recorded' \in Ledger
    BY <1>1, <1>3, <2>2, PatchedType, AppendType
  <2>4. run' = [run EXCEPT !.ledger = after, !.mode = "coding"]
    BY <1>13, <2>1 DEF Promote
  <2>5. run' \in Invocation
    BY <1>1, <2>4 DEF Invocation, Mode
  <2> QED BY <1>13, <2>3, <2>5 DEF Promote, TypeOK
<1>14. CASE Reduce
  <2>1. PICK repeated \in BOOLEAN, silent \in BOOLEAN :
          LET after == Reduced(run.ledger, run.step, repeated, silent)
          IN  Advance("agent-step", after.iteration, after, "reduced")
    BY <1>14 DEF Reduce
  <2>2. Reduced(run.ledger, run.step, repeated, silent) \in Ledger
    BY <1>3, ReducedType
  <2>3. recorded' \in Ledger /\ run' \in Invocation
    BY <1>1, <1>2, <2>1, <2>2, AdvanceType
  <2>4. delivered' \subseteq Messages
    BY <1>1, <1>14 DEF Reduce, TypeOK, Invocation
  <2> QED BY <1>14, <2>3, <2>4 DEF Reduce, TypeOK
<1>15. CASE AckDelivered
  <2>1. queue' \in [Messages -> MessageState]
    BY <1>15, QueueType DEF AckDelivered, TypeOK
  <2>2. run' \in Invocation
    BY <1>1, <1>2, <1>15, GoType DEF AckDelivered
  <2> QED BY <1>1, <1>15, <2>1, <2>2 DEF AckDelivered, TypeOK, log
<1>16. CASE FenceSteered
  BY <1>1, <1>3, <1>5, <1>16, ResumedType, ResumesType DEF FenceSteered
<1>17. CASE FenceReview
  BY <1>1, <1>3, <1>5, <1>17, ResumedType, ResumesType DEF FenceReview
<1>18. CASE FenceRouted
  <2>1. Decided(run.ledger, run.step) \in Route
    BY DEF Decided, Route
  <2>2. run' \in Invocation
    BY <1>1, <1>2, <1>18, <2>1, GoType DEF FenceRouted
  <2>3. checkpoint'.tree \in Trees /\ checkpoint'.ledger \in Ledger
    BY <1>3, <1>18, SaveType DEF FenceRouted, TypeOK
  <2> QED BY <1>1, <1>18, <2>2, <2>3 DEF FenceRouted, TypeOK, log
<1>19. CASE Blocked
  <2>1. recorded' \in Ledger
    BY <1>1, <1>19, EventType, AppendType DEF Blocked
  <2> QED BY <1>19, <2>1 DEF Blocked, Return, TypeOK
<1>20. CASE Replan
  BY <1>1, <1>3, <1>5, <1>20, ResumedType, ResumesType DEF Replan
<1>21. CASE VerifyFails \/ VerifyFenced
  <2>1. PICK name : VerifyResumes(name)
    BY <1>21 DEF VerifyFails, VerifyFenced
  <2> QED BY <1>1, <1>3, <1>5, <2>1, ResumedType, ResumesType DEF VerifyResumes
<1>22. CASE Finish
  <2>1. recorded' \in Ledger
    BY <1>1, <1>22, EventType, AppendType DEF Finish, log
  <2>2. checkpoint' = checkpoint
          \/ (checkpoint'.tree \in Trees /\ checkpoint'.ledger \in Ledger)
    BY <1>3, <1>22, EventType, SaveType DEF Finish, TypeOK
  <2>3. run' = Idle /\ outcome' \in {"complete", "raised"}
    BY <1>22 DEF Finish, Raise, Return
  <2> QED BY <1>22, <2>1, <2>2, <2>3 DEF Finish, TypeOK
<1> QED BY <1>6, <1>7, <1>8, <1>9, <1>10, <1>11, <1>12, <1>13, <1>14, <1>15, <1>16, <1>17,
           <1>18, <1>19, <1>20, <1>21, <1>22 DEF Orchestrate

LEMMA TypedAlways == Spec => []Typed
<1>1. Init => Typed
  <2> SUFFICES ASSUME Init
               PROVE  Typed
    OBVIOUS
  <2>1. spent \in [invocations : 0..MaxInvocations, crashes : 0..MaxCrashes,
                   edits : 0..MaxEdits]
    BY WorkflowAssumption DEF Init
  <2>2. queue \in [Messages -> MessageState]
    BY DEF Init, MessageState
  <2> QED BY <2>1, <2>2 DEF Init, Typed, TypeOK
<1>2. Typed /\ [Next]_vars => Typed'
  <2>1. Typed /\ Next => Typed'
    BY EnvironmentType, WorkerType, OrchestrateType DEF Next
  <2>2. Typed /\ UNCHANGED vars => Typed'
    BY DEF vars, Typed, TypeOK
  <2> QED BY <2>1, <2>2
<1> QED BY <1>1, <1>2, PTL DEF Spec

(* The types of TaskWorkflow hold in every reachable state, for every choice
   of messages, workspaces, safe points and bounds: in particular, while an
   invocation runs its ledger is in the stream (workflow.py:500-527). *)
THEOREM TypesCorrect == Spec => []TypeOK
<1>1. Typed => TypeOK
  BY DEF Typed
<1> QED BY <1>1, TypedAlways, PTL
-----------------------------------------------------------------------------
(***************************************************************************)
(* What TaskWorkflow never does, for any messages, workspaces, safe        *)
(* points, thresholds and bounds.  Each property follows from an inductive *)
(* invariant that says where an invocation may stand while the property's  *)
(* two pieces of state disagree.                                           *)
(***************************************************************************)

(* What is leased when: messages of the packet are before the model from the
   start of the batch, those leased since from the next model call, and a
   live lease that the step did not see is gone before the step is judged. *)
Served ==
    "before_model" \in points =>
        /\ Having(queue, {"acked"}) \subseteq delivered
        /\ run.at \in {"model", "replied", "tool"} => run.packet \subseteq run.shown
        /\ run.at \in {"replied", "judge"} => LeasedBy(queue) \subseteq run.shown
        /\ run.at \in {"reduced", "answered"} => LeasedBy(queue) \subseteq delivered

(* No lease is left over behind the acknowledgement. *)
Settled == run.at \in {"fence", "verify"} => LeasedBy(queue) = {}

(* A tool that ran has set the flag, unless its response is on its way. *)
Flagged ==
    /\ run.at \notin {"idle", "tool"} /\ run.touched => required
    /\ run.at = "answered" => ~run.touched

(* The review key is in the stream only if the ledger was reviewed, and an
   invocation believes in a review only if it is recorded. *)
Reviewed ==
    /\ <<"counterexample-review", 0>> \in DOMAIN stream
         => recorded \in Ledger /\ recorded.reviewed
    /\ run.at # "idle" /\ run.ledger.reviewed => recorded.reviewed
    /\ run.at = "verify" /\ run.touched => run.ledger.reviewed

(* The invocation and the stream agree on the number of steps, and no key of
   a step is beyond it. *)
Counted ==
    /\ \A name \in {"agent-step", "answer"}, i \in Nat :
          <<name, i>> \in DOMAIN stream => recorded \in Ledger /\ i <= recorded.iteration
    /\ run.at # "idle" => run.ledger.iteration = recorded.iteration

-----------------------------------------------------------------------------
(* The queue: what the operations do to leases and acknowledgements. *)
LEMMA LeaseFacts ==
  ASSUME NEW q \in [Messages -> MessageState], NEW taken
  PROVE  Having(Lease(q, taken), {"acked"}) \subseteq Having(q, {"acked"})
BY DEF Lease, Having

LEMMA AckFacts ==
  ASSUME NEW q \in [Messages -> MessageState]
  PROVE  /\ Having(Ack(q), {"acked"}) \subseteq Having(q, {"acked"}) \cup LeasedBy(q)
         /\ LeasedBy(Ack(q)) = {}
BY DEF Ack, LeasedBy, Having

LEMMA ReleaseFacts ==
  ASSUME NEW q \in [Messages -> MessageState]
  PROVE  /\ Having(Release(q), {"acked"}) \subseteq Having(q, {"acked"})
         /\ LeasedBy(Release(q)) = {}
BY DEF Release, LeasedBy, Having

(* Where the steps of an invocation start: not where there is none. *)
LEMMA Running ==
  Worker \/ Orchestrate => run.at # "idle"
BY DEF Worker, WorkerEnds, ModelCall, ToolFenced, Tool, ToolResponse, StreamReply,
       MayCallTool, WorkerReturns, WorkerMalformed, WorkerFails,
       Orchestrate, Prepare, OverBudget, MayIterate, IterationLimit, Answering,
       AnswerRefused, AnswerPutOff, Answer, AnswerAcked, Promote, Reduce,
       AckDelivered, FenceSteered, FenceReview, FenceRouted, Blocked, Replan,
       VerifyFails, VerifyFenced, VerifyResumes, Finish

LEMMA InvokeFacts ==
  ASSUME Invoke \/ InvokeMoved
  PROVE  /\ UNCHANGED <<points, queue, required, delivered>>
         /\ run' = Idle \/ (run'.at = "continue" /\ ~run'.touched)
         /\ run'.at \in {"idle", "continue"}
         /\ outcome' # "complete"
<1>1. CASE Invoke
  BY <1>1 DEF Invoke, Begin, Enter
<1>2. CASE InvokeMoved
  <2>1. Begin
    BY <1>2 DEF InvokeMoved
  <2>2. Raise \/ Enter([recorded EXCEPT !.reconciling = TRUE])
    BY <1>2 DEF InvokeMoved
  <2>3. \/ run' = Idle
        \/ run'.at = "continue" /\ ~run'.touched
    BY <2>2 DEF Raise, Return, Enter
  <2>4. outcome' # "complete"
    BY <2>2 DEF Raise, Return, Enter
  <2> QED BY <2>1, <2>3, <2>4 DEF Begin, Idle
<1> QED BY <1>1, <1>2

-----------------------------------------------------------------------------
(* What is acknowledged was delivered. *)
LEMMA ServedEnvironment == Typed /\ Served /\ Environment => Served'
<1> SUFFICES ASSUME Typed, Served, Environment
             PROVE  Served'
  OBVIOUS
<1>1. CASE Invoke \/ InvokeMoved
  <2>1. UNCHANGED <<points, queue, delivered>> /\ run'.at \in {"idle", "continue"}
    BY <1>1, InvokeFacts
  <2> QED BY <2>1 DEF Served
<1>2. CASE OutsideEdit
  BY <1>2 DEF OutsideEdit, Served
<1>3. CASE Crash
  BY <1>3 DEF Crash, Return, Idle, Served
<1>4. ASSUME NEW m \in Messages, Send(m) \/ Expire(m)
      PROVE  Served'
  <2>1. Having(queue', {"acked"}) \subseteq Having(queue, {"acked"})
    BY <1>4 DEF Send, Expire, Having, Typed, TypeOK
  <2>2. LeasedBy(queue') \subseteq LeasedBy(queue)
    BY <1>4 DEF Send, Expire, LeasedBy, Having, Typed, TypeOK
  <2> QED BY <1>4, <2>1, <2>2 DEF Send, Expire, Served
<1> QED BY <1>1, <1>2, <1>3, <1>4 DEF Environment

LEMMA ServedWorker == Typed /\ Served /\ Worker => Served'
<1> SUFFICES ASSUME Typed, Served, Worker
             PROVE  Served'
  OBVIOUS
<1>1. run \in Invocation /\ queue \in [Messages -> MessageState]
  BY Running, RunType DEF Typed, TypeOK
<1>2. CASE ModelCall
  <2>1. Having(queue', {"acked"}) \subseteq Having(queue, {"acked"})
    BY <1>1, <1>2, LeaseFacts DEF ModelCall
  <2>2. ASSUME "before_model" \in points
        PROVE  LeasedBy(queue') \subseteq run'.shown /\ run'.packet \subseteq run'.shown
    <3>1. run'.shown = run.shown \cup Held(queue') /\ run'.packet = run.packet
      BY <1>1, <1>2, <2>2 DEF ModelCall, Invocation
    <3>2. run.packet \subseteq run.shown
      BY <1>2, <2>2 DEF ModelCall, Served
    <3> QED BY <3>1, <3>2 DEF Held
  <2>3. run'.at = "replied" /\ UNCHANGED <<points, delivered>>
    BY <1>1, <1>2 DEF ModelCall, Go, Invocation
  <2> QED BY <2>1, <2>2, <2>3 DEF Served
<1>3. CASE ToolFenced \/ Tool \/ ToolResponse
  <2>1. UNCHANGED <<points, queue, delivered>>
    BY <1>3 DEF ToolFenced, Tool, ToolResponse
  <2>2. /\ run'.at \in {"model", "tool"}
        /\ run'.packet = run.packet /\ run'.shown = run.shown
    BY <1>1, <1>3 DEF ToolFenced, Tool, ToolResponse, Go, Invocation
  <2>3. run.at \in {"replied", "tool"}
    BY <1>3 DEF ToolFenced, Tool, ToolResponse, MayCallTool
  <2> QED BY <2>1, <2>2, <2>3 DEF Served
<1>4. CASE StreamReply \/ WorkerReturns
  <2>1. UNCHANGED <<points, queue, delivered>>
    BY <1>4 DEF StreamReply, WorkerReturns
  <2>2. /\ run'.at \in {"replied", "judge"}
        /\ run'.packet = run.packet /\ run'.shown = run.shown
    BY <1>1, <1>4 DEF StreamReply, MayCallTool, WorkerReturns, Invocation
  <2>3. run.at = "replied"
    BY <1>4 DEF StreamReply, MayCallTool, WorkerReturns
  <2> QED BY <2>1, <2>2, <2>3 DEF Served
<1>5. CASE WorkerMalformed
  <2>1. UNCHANGED <<points, queue, delivered>>
    BY <1>5 DEF WorkerMalformed
  <2>2. Raise \/ run' = [run EXCEPT !.at = "judge", !.step = "blocked"]
    BY <1>5 DEF WorkerMalformed
  <2>3. run'.at = "idle" \/ (run'.at = "judge" /\ run'.shown = run.shown)
    <3>1. CASE Raise
      BY <3>1 DEF Raise, Return, Idle
    <3>2. CASE run' = [run EXCEPT !.at = "judge", !.step = "blocked"]
      BY <1>1, <3>2 DEF Invocation
    <3> QED BY <2>2, <3>1, <3>2
  <2>4. run.at = "replied"
    BY <1>5 DEF WorkerMalformed, MayCallTool
  <2> QED BY <2>1, <2>3, <2>4 DEF Served
<1>6. CASE WorkerFails
  BY <1>1, <1>6, ReleaseFacts DEF WorkerFails, Raise, Return, Idle, Served
<1> QED BY <1>2, <1>3, <1>4, <1>5, <1>6 DEF Worker, WorkerEnds

LEMMA AdvanceFacts ==
  ASSUME run \in Invocation, NEW name, NEW iteration, NEW after, NEW place,
         Advance(name, iteration, after, place)
  PROVE  /\ run'.at = place /\ run'.ledger = after
         /\ run'.shown = run.shown /\ run'.touched = run.touched
BY DEF Advance, Invocation

(* The steps that go back to the top of the loop, or out of it. *)
LEMMA LoopFacts ==
  ASSUME run \in Invocation,
         \/ IterationLimit \/ FenceSteered \/ FenceReview \/ Blocked \/ Replan
         \/ VerifyFails \/ VerifyFenced
  PROVE  /\ UNCHANGED <<points, queue, required, delivered>>
         /\ run'.at \in {"idle", "continue"}
         /\ run'.at = "idle" \/ run'.touched = run.touched
<1>1. CASE IterationLimit
  BY <1>1 DEF IterationLimit, Return, Idle
<1>2. CASE FenceSteered
  BY <1>2, AdvanceFacts DEF FenceSteered
<1>3. CASE FenceReview
  BY <1>3, AdvanceFacts DEF FenceReview
<1>4. CASE Blocked
  BY <1>4 DEF Blocked, Return, Idle
<1>5. CASE Replan
  BY <1>5, AdvanceFacts DEF Replan
<1>6. CASE VerifyFails \/ VerifyFenced
  <2>1. PICK name : VerifyResumes(name)
    BY <1>6 DEF VerifyFails, VerifyFenced
  <2> QED BY <2>1, AdvanceFacts DEF VerifyResumes
<1> QED BY <1>1, <1>2, <1>3, <1>4, <1>5, <1>6

LEMMA ServedOrchestrate == Typed /\ Served /\ Orchestrate => Served'
<1> SUFFICES ASSUME Typed, Served, Orchestrate
             PROVE  Served'
  OBVIOUS
<1>1. run \in Invocation /\ queue \in [Messages -> MessageState]
  BY Running, RunType DEF Typed, TypeOK
<1>2. CASE Prepare
  <2>1. PICK taken \in SUBSET Messages :
          /\ PacketLease(taken)
          /\ run' = [run EXCEPT !.at = "model", !.packet = taken, !.shown = taken,
                                !.streamed = FALSE]
    BY <1>2 DEF Prepare
  <2>2. Having(queue', {"acked"}) \subseteq Having(queue, {"acked"})
    BY <1>1, <2>1, LeaseFacts DEF PacketLease
  <2>3. run'.at = "model" /\ run'.packet = taken /\ run'.shown = taken
    BY <1>1, <2>1 DEF Invocation
  <2> QED BY <1>2, <2>2, <2>3 DEF Prepare, Served
<1>3. CASE OverBudget
  <2>1. PICK taken \in SUBSET Messages : PacketLease(taken)
    BY <1>3 DEF OverBudget
  <2>2. Having(queue', {"acked"}) \subseteq Having(queue, {"acked"})
    BY <1>1, <2>1, LeaseFacts DEF PacketLease
  <2>3. run' = Idle
    BY <1>3 DEF OverBudget, Raise, Return
  <2> QED BY <1>3, <2>2, <2>3 DEF OverBudget, Idle, Served
<1>4. CASE \/ IterationLimit \/ FenceSteered \/ FenceReview \/ Blocked \/ Replan
           \/ VerifyFails \/ VerifyFenced
  BY <1>1, <1>4, LoopFacts DEF Served
<1>5. CASE AnswerRefused \/ AnswerPutOff
  <2>1. UNCHANGED <<points, queue, delivered>> /\ run.at = "judge"
    BY <1>5 DEF AnswerRefused, AnswerPutOff, Answering
  <2>2. run'.at = "idle" \/ (run'.at = "judge" /\ run'.shown = run.shown)
    BY <1>1, <1>5, <2>1 DEF AnswerRefused, AnswerPutOff, Raise, Return, Idle, Invocation
  <2> QED BY <2>1, <2>2 DEF Served
<1>6. CASE Answer
  <2>1. run'.at = "answered"
    BY <1>1, <1>6, AdvanceFacts DEF Answer
  <2> QED BY <1>6, <2>1 DEF Answer, Answering, Served
<1>7. CASE AnswerAcked
  BY <1>1, <1>7, AckFacts DEF AnswerAcked, Return, Idle, Served
<1>8. CASE Promote
  <2>1. run'.at = run.at /\ run'.shown = run.shown
    BY <1>1, <1>8 DEF Promote, Invocation
  <2> QED BY <1>8, <2>1 DEF Promote, Served
<1>9. CASE Reduce
  <2>1. run'.at = "reduced"
    BY <1>1, <1>9, AdvanceFacts DEF Reduce
  <2> QED BY <1>9, <2>1 DEF Reduce, Served
<1>10. CASE AckDelivered
  <2>1. run'.at = "fence"
    BY <1>1, <1>10 DEF AckDelivered, Go, Invocation
  <2> QED BY <1>1, <1>10, <2>1, AckFacts DEF AckDelivered, Served
<1>11. CASE FenceRouted
  <2>1. run'.at \in Route
    BY <1>1, <1>11 DEF FenceRouted, Go, Decided, Route, Invocation
  <2> QED BY <1>11, <2>1 DEF FenceRouted, Route, Served
<1>12. CASE Finish
  <2>1. run' = Idle
    BY <1>12 DEF Finish, Raise, Return
  <2> QED BY <1>12, <2>1 DEF Finish, Idle, Served
<1> QED BY <1>2, <1>3, <1>4, <1>5, <1>6, <1>7, <1>8, <1>9, <1>10, <1>11, <1>12
        DEF Orchestrate

(* A message is acknowledged only after a work batch whose step is recorded
   put it before the model (adk/steering.py:40, workflow.py:1088). *)
THEOREM Acknowledged == Spec => []AckedOnlyDelivered
<1>1. Init => Served
  BY DEF Init, Served, Having, Idle
<1>2. Typed /\ Served /\ [Next]_vars => Served'
  <2>1. Typed /\ Served /\ Next => Served'
    BY ServedEnvironment, ServedWorker, ServedOrchestrate DEF Next
  <2>2. Served /\ UNCHANGED vars => Served'
    BY DEF vars, Served
  <2> QED BY <2>1, <2>2
<1>3. Served => AckedOnlyDelivered
  BY DEF Served, AckedOnlyDelivered
<1> QED BY <1>1, <1>2, <1>3, TypedAlways, PTL DEF Spec

-----------------------------------------------------------------------------
(* Where the steps lead, and what they keep. *)
LEMMA WorkerPlaces ==
  ASSUME run \in Invocation, Worker
  PROVE  /\ run'.at \in {"idle", "model", "replied", "tool", "judge"}
         /\ \/ run'.at \in {"idle", "tool"}
            \/ run.at = "tool" /\ required'
            \/ run.at # "tool" /\ run'.touched = run.touched
         /\ required => required'
         /\ run'.at = "idle" \/ run'.ledger = run.ledger
         /\ recorded' = recorded
         /\ outcome' = "complete" => outcome = "complete"
<1>1. CASE ModelCall
  BY <1>1 DEF ModelCall, Go, Invocation, log
<1>2. CASE ToolFenced
  BY <1>2 DEF ToolFenced, MayCallTool, Go, Invocation, log
<1>3. CASE Tool
  BY <1>3 DEF Tool, MayCallTool, Go, Invocation, log
<1>4. CASE ToolResponse
  BY <1>4 DEF ToolResponse, Go, Invocation, log
<1>5. CASE StreamReply
  BY <1>5 DEF StreamReply, MayCallTool, Invocation, log
<1>6. CASE WorkerReturns
  BY <1>6 DEF WorkerReturns, Invocation, log
<1>7. CASE WorkerMalformed
  <2>1. UNCHANGED <<required, recorded>> /\ run.at = "replied"
    BY <1>7 DEF WorkerMalformed, MayCallTool
  <2>2. Raise \/ (run' = [run EXCEPT !.at = "judge", !.step = "blocked"] /\ UNCHANGED outcome)
    BY <1>7 DEF WorkerMalformed
  <2>3. CASE Raise
    BY <2>1, <2>3 DEF Raise, Return, Idle
  <2>4. CASE run' = [run EXCEPT !.at = "judge", !.step = "blocked"] /\ UNCHANGED outcome
    BY <2>1, <2>4 DEF Invocation
  <2> QED BY <2>2, <2>3, <2>4
<1>8. CASE WorkerFails
  BY <1>8 DEF WorkerFails, Raise, Return, Idle, log
<1> QED BY <1>1, <1>2, <1>3, <1>4, <1>5, <1>6, <1>7, <1>8 DEF Worker, WorkerEnds

LEMMA OrchestratePlaces ==
  ASSUME run \in Invocation, Orchestrate
  PROVE  /\ UNCHANGED required
         /\ run'.at # "tool"
         /\ run'.at = "idle" \/ run'.touched = run.touched
         /\ run'.at = "answered" => MayAnswer /\ run.at = "judge"
         /\ run'.at = "fence" => queue' = Ack(queue)
         /\ run'.at = "verify" => FenceRouted
<1>1. CASE Prepare
  <2>1. PICK taken \in SUBSET Messages :
          run' = [run EXCEPT !.at = "model", !.packet = taken, !.shown = taken,
                             !.streamed = FALSE]
    BY <1>1 DEF Prepare
  <2> QED BY <1>1, <2>1 DEF Prepare, Invocation
<1>2. CASE OverBudget
  <2>1. run' = Idle
    BY <1>2 DEF OverBudget, Raise, Return
  <2> QED BY <1>2, <2>1 DEF OverBudget, Idle
<1>3. CASE \/ IterationLimit \/ FenceSteered \/ FenceReview \/ Blocked \/ Replan
           \/ VerifyFails \/ VerifyFenced
  BY <1>3, LoopFacts
<1>4. CASE AnswerRefused
  <2>1. CASE Raise
    BY <1>4, <2>1 DEF AnswerRefused, Raise, Return, Idle
  <2>2. CASE run' = [run EXCEPT !.step = "verify"]
    BY <1>4, <2>2 DEF AnswerRefused, Answering, Invocation
  <2> QED BY <1>4, <2>1, <2>2 DEF AnswerRefused
<1>5. CASE AnswerPutOff
  BY <1>5 DEF AnswerPutOff, Answering, Invocation
<1>6. CASE Answer
  BY <1>6, AdvanceFacts DEF Answer, Answering
<1>7. CASE AnswerAcked
  BY <1>7 DEF AnswerAcked, Return, Idle
<1>8. CASE Promote
  BY <1>8 DEF Promote, Invocation
<1>9. CASE Reduce
  BY <1>9, AdvanceFacts DEF Reduce
<1>10. CASE AckDelivered
  BY <1>10 DEF AckDelivered, Go, Invocation
<1>11. CASE FenceRouted
  <2>1. run'.at \in Route
    BY <1>11 DEF FenceRouted, Go, Decided, Route, Invocation
  <2> QED BY <1>11, <2>1 DEF FenceRouted, Go, Route, Invocation
<1>12. CASE Finish
  <2>1. run' = Idle
    BY <1>12 DEF Finish, Raise, Return
  <2> QED BY <1>12, <2>1 DEF Finish, Idle
<1> QED BY <1>1, <1>2, <1>3, <1>4, <1>5, <1>6, <1>7, <1>8, <1>9, <1>10, <1>11, <1>12
        DEF Orchestrate

-----------------------------------------------------------------------------
(* Nothing waits and nothing is leased when a task completes. *)
LEMMA SettledAlways == Spec => []Settled
<1>1. Init => Settled
  BY DEF Init, Settled, Idle
<1>2. Typed /\ Settled /\ [Next]_vars => Settled'
  <2> SUFFICES ASSUME Typed, Settled, [Next]_vars
               PROVE  Settled'
    OBVIOUS
  <2>1. queue \in [Messages -> MessageState]
    BY DEF Typed, TypeOK
  <2>2. CASE Invoke \/ InvokeMoved
    BY <2>2, InvokeFacts DEF Settled
  <2>3. CASE OutsideEdit
    BY <2>3 DEF OutsideEdit, Settled
  <2>4. CASE Crash
    BY <2>4 DEF Crash, Return, Idle, Settled
  <2>5. ASSUME NEW m \in Messages, Send(m) \/ Expire(m)
        PROVE  Settled'
    <3>1. LeasedBy(queue') \subseteq LeasedBy(queue)
      BY <2>1, <2>5 DEF Send, Expire, LeasedBy, Having
    <3> QED BY <2>5, <3>1 DEF Send, Expire, Settled
  <2>6. CASE Worker
    <3>1. run \in Invocation
      BY <2>6, Running, RunType DEF Typed
    <3> QED BY <2>6, <3>1, WorkerPlaces DEF Settled
  <2>7. CASE Orchestrate
    <3>1. run \in Invocation
      BY <2>7, Running, RunType DEF Typed
    <3>2. run'.at = "fence" => LeasedBy(queue') = {}
      BY <2>1, <2>7, <3>1, OrchestratePlaces, AckFacts
    <3>3. run'.at = "verify" => LeasedBy(queue') = {}
      BY <2>7, <3>1, OrchestratePlaces DEF FenceRouted, Settled
    <3> QED BY <3>2, <3>3 DEF Settled
  <2>8. CASE UNCHANGED vars
    BY <2>8 DEF vars, Settled
  <2> QED BY <2>2, <2>3, <2>4, <2>5, <2>6, <2>7, <2>8 DEF Next, Environment
<1> QED BY <1>1, <1>2, TypedAlways, PTL DEF Spec

(* The steps that report a completed task. *)
LEMMA OnlyFinishCompletes ==
  ASSUME Typed, Next, outcome' = "complete", outcome # "complete"
  PROVE  Finish
<1>1. ~(Invoke \/ InvokeMoved)
  BY InvokeFacts
<1>2. ~OutsideEdit /\ ~Crash /\ \A m \in Messages : ~Send(m) /\ ~Expire(m)
  BY DEF OutsideEdit, Crash, Return, Send, Expire
<1>3. ~Worker
  BY Running, RunType, WorkerPlaces DEF Typed
<1>4. Orchestrate => Finish
  <2>1. ~Prepare /\ ~AnswerPutOff /\ ~Answer /\ ~AnswerAcked /\ ~Promote /\ ~Reduce
        /\ ~AckDelivered /\ ~FenceSteered /\ ~FenceReview /\ ~FenceRouted /\ ~Replan
    BY DEF Prepare, AnswerPutOff, Answer, AnswerAcked, Return, Promote, Reduce, AckDelivered,
           FenceSteered, FenceReview, FenceRouted, Replan
  <2>2. ~OverBudget /\ ~IterationLimit /\ ~Blocked /\ ~AnswerRefused
    BY DEF OverBudget, IterationLimit, Blocked, AnswerRefused, Raise, Return
  <2>3. ~VerifyFails /\ ~VerifyFenced
    BY DEF VerifyFails, VerifyFenced, VerifyResumes
  <2> QED BY <2>1, <2>2, <2>3 DEF Orchestrate
<1> QED BY <1>1, <1>2, <1>3, <1>4 DEF Next, Environment

(* With the boundary safe point, a task completes only when every message
   sent by then was acknowledged (workflow.py:763-785). *)
THEOREM CompletionsServe == Spec => CompletionServesSteering
<1>1. Typed /\ Settled /\ [Next]_vars
        => (outcome' = "complete" /\ outcome # "complete" /\ AtBoundary
              => \A m \in Messages : queue[m] \in {"unsent", "acked"})
  <2> SUFFICES ASSUME Typed, Settled, [Next]_vars,
                      outcome' = "complete", outcome # "complete", AtBoundary
               PROVE  \A m \in Messages : queue[m] \in {"unsent", "acked"}
    OBVIOUS
  <2>1. Next
    BY DEF vars
  <2>2. Finish
    BY <2>1, OnlyFinishCompletes
  <2>3. LeasedBy(queue) = {} /\ ~Pending(queue)
    BY <2>2 DEF Finish, BoundaryWaits, Settled
  <2>4. queue \in [Messages -> MessageState]
    BY DEF Typed, TypeOK
  <2> QED BY <2>3, <2>4 DEF LeasedBy, Pending, Having, MessageState
<1> QED BY <1>1, TypedAlways, SettledAlways, PTL DEF Spec, CompletionServesSteering

-----------------------------------------------------------------------------
(* The evidence of tool effects. *)
LEMMA FlaggedAlways == Spec => []Flagged
<1>1. Init => Flagged
  BY DEF Init, Flagged, Idle
<1>2. Typed /\ Flagged /\ [Next]_vars => Flagged'
  <2> SUFFICES ASSUME Typed, Flagged, [Next]_vars
               PROVE  Flagged'
    OBVIOUS
  <2>1. CASE Invoke \/ InvokeMoved
    BY <2>1, InvokeFacts DEF Flagged, Idle
  <2>2. CASE OutsideEdit
    BY <2>2 DEF OutsideEdit, Flagged
  <2>3. CASE Crash
    BY <2>3 DEF Crash, Return, Idle, Flagged
  <2>4. ASSUME NEW m \in Messages, Send(m) \/ Expire(m)
        PROVE  Flagged'
    BY <2>4 DEF Send, Expire, Flagged
  <2>5. CASE Worker
    <3>1. run \in Invocation /\ run.at # "idle"
      BY <2>5, Running, RunType DEF Typed
    <3>2. run'.at \notin {"idle", "tool"} /\ run'.touched => required'
      BY <2>5, <3>1, WorkerPlaces DEF Flagged
    <3>3. run'.at # "answered"
      BY <2>5, <3>1, WorkerPlaces
    <3> QED BY <3>2, <3>3 DEF Flagged
  <2>6. CASE Orchestrate
    <3>1. run \in Invocation /\ run.at # "idle"
      BY <2>6, Running, RunType DEF Typed
    <3>2. run.at # "tool"
      BY <2>6 DEF Orchestrate, Prepare, OverBudget, MayIterate, IterationLimit, Answering,
                  AnswerRefused, AnswerPutOff, Answer, AnswerAcked, Promote, Reduce,
                  AckDelivered, FenceSteered, FenceReview, FenceRouted, Blocked, Replan,
                  VerifyFails, VerifyFenced, VerifyResumes, Finish
    <3>3. run'.at \notin {"idle", "tool"} /\ run'.touched => required'
      BY <2>6, <3>1, <3>2, OrchestratePlaces DEF Flagged
    <3>4. run'.at = "answered" => ~run'.touched
      BY <2>6, <3>1, OrchestratePlaces DEF Flagged, MayAnswer
    <3> QED BY <3>3, <3>4 DEF Flagged
  <2>7. CASE UNCHANGED vars
    BY <2>7 DEF vars, Flagged
  <2> QED BY <2>1, <2>2, <2>3, <2>4, <2>5, <2>6, <2>7 DEF Next, Environment
<1> QED BY <1>1, <1>2, TypedAlways, PTL DEF Spec

(* An invocation in which a tool with effects ran does not end as a direct
   answer (workflow.py:1012). *)
THEOREM AnswersUntouched == Spec => []AnsweredUntouched
<1>1. Flagged => AnsweredUntouched
  BY DEF Flagged, AnsweredUntouched
<1> QED BY <1>1, FlaggedAlways, PTL

-----------------------------------------------------------------------------
(* The review and the count of steps in the stream. *)
LEMMA PatchedFields ==
  ASSUME NEW l \in Ledger, NEW before \in Ledger, NEW after \in Ledger
  PROVE  LET new == Patched(l, Patch(before, after))
         IN  /\ new.reviewed = IF before.reviewed = after.reviewed
                               THEN l.reviewed ELSE after.reviewed
             /\ new.iteration = IF before.iteration = after.iteration
                                THEN l.iteration ELSE after.iteration
BY DEF Patched, Patch, Ledger

LEMMA EventFields ==
  ASSUME NEW l \in Ledger, NEW event \in {Blocking, Finishing}
  PROVE  /\ Patched(l, event).reviewed = l.reviewed
         /\ Patched(l, event).iteration = l.iteration
BY DEF Patched, Blocking, Finishing, Ledger

LEMMA Keys ==
  ASSUME NEW events, NEW key, NEW content
  PROVE  DOMAIN Extended(events, key, content) = DOMAIN events \cup {key}
BY DEF Extended

(* A step that neither reviews nor counts. *)
Watched == {"agent-step", "answer", "counterexample-review"}

Plain ==
    /\ recorded \in Ledger => /\ recorded' \in Ledger
                              /\ recorded'.reviewed = recorded.reviewed
                              /\ recorded'.iteration = recorded.iteration
    /\ run'.at = "idle" \/ /\ run.at # "idle"
                           /\ run'.ledger.reviewed = run.ledger.reviewed
                           /\ run'.ledger.iteration = run.ledger.iteration
    /\ \A name \in Watched, i \in Nat :
          <<name, i>> \in DOMAIN stream' => <<name, i>> \in DOMAIN stream

LEMMA PlainAdvance ==
  ASSUME run \in Invocation, run.at # "idle", recorded \in Ledger,
         NEW after \in Ledger, NEW place, NEW name, NEW iteration, name \notin Watched,
         Advance(name, iteration, after, place),
         after.reviewed = run.ledger.reviewed, after.iteration = run.ledger.iteration
  PROVE  Plain
<1>1. run.ledger \in Ledger
  BY DEF Invocation
<1>2. recorded' \in {recorded, Patched(recorded, Patch(run.ledger, after))}
  BY DEF Advance, Append
<1>3. /\ recorded' \in Ledger
      /\ recorded'.reviewed = recorded.reviewed /\ recorded'.iteration = recorded.iteration
  <2>1. PICK new \in Ledger : new = Patched(recorded, Patch(run.ledger, after))
    BY <1>1, PatchedType
  <2>2. new.reviewed = recorded.reviewed /\ new.iteration = recorded.iteration
    BY <1>1, <2>1, PatchedFields
  <2> QED BY <1>2, <2>1, <2>2
<1>4. Append(<<name, iteration>>, Patch(run.ledger, after), "")
  BY DEF Advance
<1>5. DOMAIN stream' = DOMAIN stream \cup {<<name, iteration>>}
  BY <1>4, Keys DEF Append
<1> QED BY <1>3, <1>5, AdvanceFacts DEF Plain

LEMMA PlainEvent ==
  ASSUME recorded \in Ledger, NEW name, NEW iteration, NEW event \in {Blocking, Finishing},
         NEW detail, name \notin Watched,
         Append(<<name, iteration>>, event, detail), run' = Idle
  PROVE  Plain
<1>1. recorded' \in {recorded, Patched(recorded, event)}
  BY DEF Append
<1>2. /\ recorded' \in Ledger
      /\ recorded'.reviewed = recorded.reviewed /\ recorded'.iteration = recorded.iteration
  BY <1>1, EventType, EventFields
<1>3. DOMAIN stream' = DOMAIN stream \cup {<<name, iteration>>}
  BY Keys DEF Append
<1> QED BY <1>2, <1>3 DEF Plain, Idle

LEMMA PlainSilent ==
  ASSUME UNCHANGED log, run'.at = "idle" \/ (run.at # "idle" /\ run'.ledger = run.ledger)
  PROVE  Plain
BY DEF log, Plain

LEMMA WorkerPlain ==
  ASSUME run \in Invocation, Worker
  PROVE  Plain
<1>1. CASE WorkerMalformed
  <2>1. recorded' = recorded
    BY <1>1 DEF WorkerMalformed
  <2> DEFINE key == <<"malformed-step", run.ledger.iteration + 1>>
  <2>2. DOMAIN stream' \subseteq DOMAIN stream \cup {key}
    <3>1. stream' = stream \/ \E text : stream' = Extended(stream, key, text)
      BY <1>1 DEF WorkerMalformed
    <3> HIDE DEF key
    <3>2. CASE stream' = stream
      BY <3>2
    <3>3. ASSUME NEW text, stream' = Extended(stream, key, text)
          PROVE  DOMAIN stream' = DOMAIN stream \cup {key}
      BY <3>3, Keys
    <3> QED BY <3>1, <3>2, <3>3
  <2>3. run.at # "idle" /\ (run'.at = "idle" \/ run'.ledger = run.ledger)
    BY <1>1, Running, WorkerPlaces DEF Worker, WorkerEnds
  <2> QED BY <2>1, <2>2, <2>3 DEF Plain, Watched
<1>2. CASE ~WorkerMalformed
  <2>1. UNCHANGED log
    BY <1>2 DEF Worker, WorkerEnds, ModelCall, ToolFenced, Tool, ToolResponse, StreamReply,
                WorkerReturns, WorkerFails
  <2> QED BY <2>1, Running, WorkerPlaces, PlainSilent
<1> QED BY <1>1, <1>2

LEMMA OrchestratePlain ==
  ASSUME Typed, Orchestrate, ~Answer, ~Reduce, ~FenceReview
  PROVE  Plain
<1>1. run \in Invocation /\ run.at # "idle" /\ recorded \in Ledger
  BY Running, RunType DEF Typed
<1>2. run.ledger \in Ledger
  BY <1>1 DEF Invocation
<1>3. CASE Prepare
  <2>1. run'.ledger = run.ledger
    BY <1>1, <1>3 DEF Prepare, Invocation
  <2> QED BY <1>1, <1>3, <2>1, PlainSilent DEF Prepare
<1>4. CASE OverBudget
  <2>1. run' = Idle /\ run'.at = "idle"
    BY <1>4 DEF OverBudget, Raise, Return, Idle
  <2>2. CASE UNCHANGED log
    BY <2>1, <2>2, PlainSilent
  <2>3. CASE \E reason : Append(<<"input-budget", run.ledger.iteration>>, Blocking, reason)
    BY <1>1, <2>1, <2>3, PlainEvent DEF Watched
  <2> QED BY <1>4, <2>2, <2>3 DEF OverBudget
<1>5. CASE IterationLimit
  BY <1>1, <1>5, PlainEvent DEF IterationLimit, Return, Watched
<1>6. CASE AnswerRefused \/ AnswerPutOff
  <2>1. run' = Idle \/ run'.ledger = run.ledger
    BY <1>1, <1>6 DEF AnswerRefused, AnswerPutOff, Raise, Return, Invocation
  <2> QED BY <1>1, <1>6, <2>1, PlainSilent DEF AnswerRefused, AnswerPutOff, Idle
<1>7. CASE AnswerAcked
  BY <1>7, PlainSilent DEF AnswerAcked, Return, Idle
<1>8. CASE Promote
  <2>1. PICK after \in Ledger : after = [run.ledger EXCEPT !.mode = "coding"]
    BY <1>2, ResumedType
  <2>2. after.reviewed = run.ledger.reviewed /\ after.iteration = run.ledger.iteration
    BY <1>2, <2>1 DEF Ledger
  <2>3. Append(<<"coding-contract-established", 0>>, Patch(run.ledger, after), "")
    BY <1>8, <2>1 DEF Promote
  <2>4. recorded' \in {recorded, Patched(recorded, Patch(run.ledger, after))}
    BY <2>3 DEF Append
  <2>5. PICK new \in Ledger : new = Patched(recorded, Patch(run.ledger, after))
    BY <1>1, <1>2, PatchedType
  <2>6. new.reviewed = recorded.reviewed /\ new.iteration = recorded.iteration
    BY <1>1, <1>2, <2>2, <2>5, PatchedFields
  <2>7. DOMAIN stream' = DOMAIN stream \cup {<<"coding-contract-established", 0>>}
    BY <2>3, Keys DEF Append
  <2>8. run'.ledger = after
    BY <1>1, <1>8, <2>1 DEF Promote, Invocation
  <2> QED BY <1>1, <2>2, <2>4, <2>5, <2>6, <2>7, <2>8 DEF Plain, Watched
<1>9. CASE AckDelivered
  BY <1>1, <1>9, PlainSilent DEF AckDelivered, Go, Invocation
<1>10. CASE FenceRouted
  BY <1>1, <1>10, PlainSilent DEF FenceRouted, Go, Invocation
<1>11. Resumed(run.ledger) \in Ledger /\ Replanned(run.ledger) \in Ledger
  BY <1>2, ResumedType
<1>12. \A after \in {Resumed(run.ledger), Replanned(run.ledger)} :
          after.reviewed = run.ledger.reviewed /\ after.iteration = run.ledger.iteration
  BY <1>2 DEF Resumed, Replanned, Ledger
<1>13. CASE FenceSteered
  BY <1>1, <1>11, <1>12, <1>13, PlainAdvance DEF FenceSteered, Watched
<1>14. CASE Replan
  BY <1>1, <1>11, <1>12, <1>14, PlainAdvance DEF Replan, Watched
<1>15. CASE VerifyFails
  BY <1>1, <1>11, <1>12, <1>15, PlainAdvance DEF VerifyFails, VerifyResumes, Watched
<1>16. CASE VerifyFenced
  BY <1>1, <1>11, <1>12, <1>16, PlainAdvance DEF VerifyFenced, VerifyResumes, Watched
<1>17. CASE Blocked
  BY <1>1, <1>17, PlainEvent DEF Blocked, Return, Watched
<1>18. CASE Finish
  <2>1. run' = Idle /\ run'.at = "idle"
    BY <1>18 DEF Finish, Raise, Return, Idle
  <2>2. CASE UNCHANGED log
    BY <2>1, <2>2, PlainSilent
  <2>3. CASE \E report : Append(<<"task-finished", 0>>, Finishing, report)
    BY <1>1, <2>1, <2>3, PlainEvent DEF Watched
  <2> QED BY <1>18, <2>2, <2>3 DEF Finish, log
<1> QED BY <1>3, <1>4, <1>5, <1>6, <1>7, <1>8, <1>9, <1>10, <1>13, <1>14, <1>15, <1>16,
           <1>17, <1>18 DEF Orchestrate

(* The three steps that are not plain. *)
LEMMA ReviewFacts ==
  ASSUME Typed, Reviewed, FenceReview
  PROVE  /\ recorded' \in Ledger /\ recorded'.reviewed
         /\ recorded'.iteration = recorded.iteration
         /\ run'.at = "continue" /\ run'.ledger.iteration = run.ledger.iteration
         /\ DOMAIN stream' = DOMAIN stream \cup {<<"counterexample-review", 0>>}
<1>1. run \in Invocation /\ recorded \in Ledger
  BY RunType DEF FenceReview, Typed
<1>2. run.ledger \in Ledger
  BY <1>1 DEF Invocation
<1>3. PICK after \in Ledger : after = Reviewing(run.ledger)
  BY <1>2, ResumedType
<1>4. after.reviewed /\ after.iteration = run.ledger.iteration
  BY <1>2, <1>3 DEF Reviewing, Ledger
<1>5. ~run.ledger.reviewed
  BY DEF FenceReview, NeedsReview
<1>6. PICK new \in Ledger : new = Patched(recorded, Patch(run.ledger, after))
  BY <1>1, <1>2, PatchedType
<1>7. new.reviewed /\ new.iteration = recorded.iteration
  BY <1>1, <1>2, <1>4, <1>5, <1>6, PatchedFields
<1>8. Advance("counterexample-review", 0, after, "continue")
  BY <1>3 DEF FenceReview
<1>9. Append(<<"counterexample-review", 0>>, Patch(run.ledger, after), "")
  BY <1>8 DEF Advance
<1>10. /\ DOMAIN stream' = DOMAIN stream \cup {<<"counterexample-review", 0>>}
       /\ recorded' = IF <<"counterexample-review", 0>> \in DOMAIN stream THEN recorded ELSE new
  BY <1>6, <1>9, Keys DEF Append
<1>11. recorded' \in Ledger /\ recorded'.reviewed /\ recorded'.iteration = recorded.iteration
  BY <1>1, <1>7, <1>10 DEF Reviewed
<1>12. run'.at = "continue" /\ run'.ledger = after
  BY <1>1, <1>8, AdvanceFacts
<1> QED BY <1>4, <1>10, <1>11, <1>12

LEMMA CountFacts ==
  ASSUME Typed, Counted, Answer \/ Reduce
  PROVE  \E name \in {"agent-step", "answer"} :
            /\ recorded' \in Ledger /\ recorded'.reviewed = recorded.reviewed
            /\ recorded'.iteration = recorded.iteration + 1
            /\ run'.at \in {"reduced", "answered"}
            /\ run'.ledger.iteration = recorded'.iteration
            /\ run'.ledger.reviewed = run.ledger.reviewed
            /\ DOMAIN stream' = DOMAIN stream \cup {<<name, recorded'.iteration>>}
<1>1. run \in Invocation /\ recorded \in Ledger /\ run.at # "idle"
  BY RunType DEF Answer, Answering, Reduce, Typed
<1>2. run.ledger \in Ledger
  BY <1>1 DEF Invocation
<1>3. PICK name \in {"agent-step", "answer"}, place \in {"reduced", "answered"}, after \in Ledger :
         /\ Advance(name, after.iteration, after, place)
         /\ after.iteration = run.ledger.iteration + 1
         /\ after.reviewed = run.ledger.reviewed
  <2>1. CASE Answer
    <3>1. PICK after \in Ledger :
             after = [run.ledger EXCEPT !.status = "answered", !.reconciling = FALSE,
                                        !.iteration = @ + 1]
      BY <1>2, ResumedType
    <3>2. after.iteration = run.ledger.iteration + 1 /\ after.reviewed = run.ledger.reviewed
      BY <1>2, <3>1 DEF Ledger
    <3>3. Advance("answer", after.iteration, after, "answered")
      BY <2>1, <3>1 DEF Answer
    <3> QED BY <3>2, <3>3
  <2>2. CASE Reduce
    <3>1. PICK repeated \in BOOLEAN, silent \in BOOLEAN :
             LET after == Reduced(run.ledger, run.step, repeated, silent)
             IN  Advance("agent-step", after.iteration, after, "reduced")
      BY <2>2 DEF Reduce
    <3>2. PICK after \in Ledger : after = Reduced(run.ledger, run.step, repeated, silent)
      BY <1>2, ReducedType
    <3>3. after.iteration = run.ledger.iteration + 1 /\ after.reviewed = run.ledger.reviewed
      <4> DEFINE settled == CASE run.step = "blocked" -> Blocking
                              [] run.step = "verify" -> [status |-> "verifying",
                                                         phase |-> "verify"]
                              [] OTHER -> [status |-> "active", phase |-> "implement"]
                 moved == Patched(run.ledger, settled)
      <4>1. DOMAIN settled = {"status", "phase"}
        BY DEF Blocking
      <4> HIDE DEF settled
      <4>2. /\ DOMAIN moved = DOMAIN run.ledger
            /\ moved.iteration = run.ledger.iteration /\ moved.reviewed = run.ledger.reviewed
        BY <1>2, <4>1 DEF Patched, Ledger
      <4>3. after = [moved EXCEPT !.iteration = @ + 1, !.reconciling = @ /\ silent,
                                  !.stuck = IF repeated THEN @ + 1 ELSE 0]
        BY <3>2 DEF Reduced, settled
      <4> HIDE DEF moved
      <4> QED BY <1>2, <4>2, <4>3 DEF Ledger
    <3> QED BY <3>1, <3>2, <3>3
  <2> QED BY <2>1, <2>2
<1>4. run.ledger.iteration = recorded.iteration /\ recorded.iteration \in Nat
  BY <1>1 DEF Counted, Ledger
<1>5. PICK new \in Ledger : new = Patched(recorded, Patch(run.ledger, after))
  BY <1>1, <1>2, PatchedType
<1>6. new.reviewed = recorded.reviewed /\ new.iteration = after.iteration
  BY <1>1, <1>2, <1>3, <1>4, <1>5, PatchedFields
<1>7. Append(<<name, after.iteration>>, Patch(run.ledger, after), "")
  BY <1>3 DEF Advance
<1>8. <<name, after.iteration>> \notin DOMAIN stream
  BY <1>3, <1>4 DEF Counted
<1>9. recorded' = new /\ DOMAIN stream' = DOMAIN stream \cup {<<name, after.iteration>>}
  BY <1>5, <1>7, <1>8, Keys DEF Append
<1>10. run'.at = place /\ run'.ledger = after
  BY <1>1, <1>3, AdvanceFacts
<1> QED BY <1>3, <1>4, <1>6, <1>9, <1>10

(* Invocations begin with what the stream holds. *)
LEMMA InvokePlain ==
  ASSUME Typed, Reviewed, Counted, Invoke \/ InvokeMoved
  PROVE  Reviewed' /\ Counted'
<1>1. run' = Idle \/ (run'.at = "continue" /\ ~run'.touched)
  BY InvokeFacts
<1>2. CASE Invoke
  <2>1. recorded' = Restored /\ Restored \in Ledger /\ run'.ledger = Restored
    BY <1>2, RestoredType DEF Invoke, Enter, Typed
  <2>2. recorded # NoLedger => recorded' = recorded
    BY <2>1 DEF Restored
  <2>3. \A name \in Watched, i \in Nat :
           <<name, i>> \in DOMAIN stream' => <<name, i>> \in DOMAIN stream
    <3>1. CASE recorded = NoLedger
      <4>1. stream' = Extended(stream, <<"task-created", 0>>, <<Restored, "">>)
        BY <1>2, <3>1 DEF Invoke
      <4>2. DOMAIN stream' = DOMAIN stream \cup {<<"task-created", 0>>}
        BY <4>1, Keys
      <4> QED BY <4>2 DEF Watched
    <3>2. CASE recorded # NoLedger
      BY <1>2, <3>2 DEF Invoke
    <3> QED BY <3>1, <3>2
  <2>4. recorded \in Ledger => recorded' = recorded
    BY <2>2 DEF NoLedger, Ledger
  <2> QED BY <1>1, <2>1, <2>3, <2>4 DEF Reviewed, Counted, Watched, Idle
<1>3. CASE InvokeMoved
  <2> DEFINE seen == <<"workspace-reconcile", tree>>
             key == <<"workspace-reconcile-ledger", tree>>
             after == [recorded EXCEPT !.reconciling = TRUE]
             patch == Patch(recorded, after)
  <2>1. recorded \in Ledger /\ after \in Ledger
    BY <1>3, ResumedType DEF InvokeMoved, Begin, Moved, Typed
  <2>2. after.reviewed = recorded.reviewed /\ after.iteration = recorded.iteration
    BY <2>1 DEF Ledger
  <2>3. recorded' \in {recorded, after}
    BY <1>3 DEF InvokeMoved, log
  <2>4. run' = Idle \/ run'.ledger = after
    <3>1. Raise \/ Enter(after)
      BY <1>3 DEF InvokeMoved
    <3> HIDE DEF after
    <3> QED BY <3>1 DEF Raise, Return, Enter
  <2>5. \/ stream' = stream
        \/ stream' = Extended(stream, seen, checkpoint)
        \/ stream' = Extended(Extended(stream, seen, checkpoint), key, <<patch, "">>)
    BY <1>3 DEF InvokeMoved, log
  <2> HIDE DEF patch, after, seen, key
  <2>6. DOMAIN stream' \subseteq DOMAIN stream \cup {seen, key}
    <3> DEFINE once == Extended(stream, seen, checkpoint)
               twice == Extended(once, key, <<patch, "">>)
    <3>1. DOMAIN once = DOMAIN stream \cup {seen}
      BY Keys
    <3> HIDE DEF once
    <3>2. DOMAIN twice = DOMAIN once \cup {key}
      BY Keys
    <3> HIDE DEF twice
    <3>3. CASE stream' = stream
      BY <3>3
    <3>4. CASE stream' = once
      BY <3>1, <3>4
    <3>5. CASE stream' = twice
      BY <3>1, <3>2, <3>5
    <3> USE DEF once, twice
    <3> QED BY <2>5, <3>3, <3>4, <3>5
  <2>7. \A name \in Watched, i \in Nat :
           <<name, i>> \in DOMAIN stream' => <<name, i>> \in DOMAIN stream
    BY <2>6 DEF Watched, seen, key
  <2> QED BY <1>1, <2>1, <2>2, <2>3, <2>4, <2>7 DEF Reviewed, Counted, Watched, Idle
<1> QED BY <1>2, <1>3

LEMMA PlainKeeps ==
  ASSUME Typed, Reviewed, Counted, Plain,
         run'.at = "verify" /\ run'.touched => run'.ledger.reviewed
  PROVE  Reviewed' /\ Counted'
<1>1. \A name \in Watched, i \in Nat :
         <<name, i>> \in DOMAIN stream' => <<name, i>> \in DOMAIN stream
  BY DEF Plain
<1>2. recorded \in Ledger => /\ recorded' \in Ledger
                             /\ recorded'.reviewed = recorded.reviewed
                             /\ recorded'.iteration = recorded.iteration
  BY DEF Plain
<1>3. run'.at # "idle" => /\ run.at # "idle" /\ recorded \in Ledger
                          /\ run'.ledger.reviewed = run.ledger.reviewed
                          /\ run'.ledger.iteration = run.ledger.iteration
  BY RunType DEF Plain, Typed
<1>4. Reviewed'
  BY <1>1, <1>2, <1>3 DEF Reviewed, Watched
<1>5. Counted'
  BY <1>1, <1>2, <1>3 DEF Counted, Watched
<1> QED BY <1>4, <1>5

LEMMA RecordedAlways == Spec => [](Reviewed /\ Counted)
<1>1. Init => Reviewed /\ Counted
  BY DEF Init, Reviewed, Counted, Idle
<1>2. Typed /\ Flagged /\ Reviewed /\ Counted /\ [Next]_vars => (Reviewed /\ Counted)'
  <2> SUFFICES ASSUME Typed, Flagged, Reviewed, Counted, [Next]_vars
               PROVE  Reviewed' /\ Counted'
    OBVIOUS
  <2>1. CASE Invoke \/ InvokeMoved
    BY <2>1, InvokePlain
  <2>2. CASE OutsideEdit \/ Crash
    <3>1. Plain
      BY <2>2, PlainSilent DEF OutsideEdit, Crash, Return, Idle, Plain, log
    <3>2. run'.at = "verify" /\ run'.touched => run'.ledger.reviewed
      BY <2>2 DEF OutsideEdit, Crash, Return, Idle, Reviewed
    <3> QED BY <3>1, <3>2, PlainKeeps
  <2>3. ASSUME NEW m \in Messages, Send(m) \/ Expire(m)
        PROVE  Reviewed' /\ Counted'
    BY <2>3 DEF Send, Expire, Reviewed, Counted, log
  <2>4. CASE Worker
    <3>1. run \in Invocation
      BY <2>4, Running, RunType DEF Typed
    <3> QED BY <2>4, <3>1, WorkerPlain, WorkerPlaces, PlainKeeps
  <2>5. CASE Answer \/ Reduce
    <3>1. PICK name \in {"agent-step", "answer"} :
            /\ recorded' \in Ledger /\ recorded'.reviewed = recorded.reviewed
            /\ recorded'.iteration = recorded.iteration + 1
            /\ run'.at \in {"reduced", "answered"}
            /\ run'.ledger.iteration = recorded'.iteration
            /\ run'.ledger.reviewed = run.ledger.reviewed
            /\ DOMAIN stream' = DOMAIN stream \cup {<<name, recorded'.iteration>>}
      BY <2>5, CountFacts
    <3>2. recorded \in Ledger /\ recorded.iteration \in Nat /\ run.at # "idle"
      BY <2>5, RunType DEF Answer, Answering, Reduce, Typed, Ledger
    <3>3. Reviewed'
      BY <3>1, <3>2 DEF Reviewed
    <3>4. Counted'
      BY <3>1, <3>2 DEF Counted
    <3> QED BY <3>3, <3>4
  <2>6. CASE FenceReview
    <3>1. /\ recorded' \in Ledger /\ recorded'.reviewed
          /\ recorded'.iteration = recorded.iteration
          /\ run'.at = "continue" /\ run'.ledger.iteration = run.ledger.iteration
          /\ DOMAIN stream' = DOMAIN stream \cup {<<"counterexample-review", 0>>}
      BY <2>6, ReviewFacts
    <3>2. recorded \in Ledger /\ run.at # "idle"
      BY <2>6, RunType DEF FenceReview, Typed
    <3>3. Reviewed'
      BY <3>1 DEF Reviewed
    <3>4. Counted'
      BY <3>1, <3>2 DEF Counted
    <3> QED BY <3>3, <3>4
  <2>7. CASE Orchestrate /\ ~Answer /\ ~Reduce /\ ~FenceReview
    <3>1. run \in Invocation
      BY <2>7, Running, RunType DEF Typed
    <3>2. run'.at = "verify" /\ run'.touched => run'.ledger.reviewed
      <4> SUFFICES ASSUME run'.at = "verify", run'.touched
                   PROVE  run'.ledger.reviewed
        OBVIOUS
      <4>1. FenceRouted /\ run'.touched = run.touched
        BY <2>7, <3>1, OrchestratePlaces
      <4>2. run'.ledger = run.ledger /\ Decided(run.ledger, run.step) = "verify"
        BY <3>1, <4>1 DEF FenceRouted, Go, Invocation
      <4>3. run.step = "verify"
        BY <4>2 DEF Decided
      <4>4. required
        BY <4>1 DEF FenceRouted, Flagged
      <4> QED BY <4>1, <4>2, <4>3, <4>4 DEF FenceRouted, NeedsReview
    <3> QED BY <2>7, <3>2, OrchestratePlain, PlainKeeps
  <2>8. CASE UNCHANGED vars
    BY <2>8 DEF vars, Reviewed, Counted
  <2> QED BY <2>1, <2>2, <2>3, <2>4, <2>5, <2>6, <2>7, <2>8 DEF Next, Environment
<1> QED BY <1>1, <1>2, TypedAlways, FlaggedAlways, PTL DEF Spec

(* An invocation in which a tool ran completes its task only with a recorded
   counterexample review (workflow.py:1109-1135). *)
THEOREM CompletionsReviewed == Spec => ReviewedBeforeComplete
<1>1. Typed /\ Reviewed /\ [Next]_vars
        => (outcome' = "complete" /\ outcome # "complete" /\ run.touched => recorded.reviewed)
  <2> SUFFICES ASSUME Typed, Reviewed, [Next]_vars,
                      outcome' = "complete", outcome # "complete", run.touched
               PROVE  recorded.reviewed
    OBVIOUS
  <2>1. Next
    BY DEF vars
  <2>2. Finish
    BY <2>1, OnlyFinishCompletes
  <2> QED BY <2>2 DEF Finish, Reviewed
<1> QED BY <1>1, TypedAlways, RecordedAlways, PTL DEF Spec, ReviewedBeforeComplete

(* The key of the next step is always unused: the idempotent append never
   refuses a step, nor takes it for an earlier one (workflow.py:1085). *)
THEOREM StepsFresh == Spec => []StepKeysFresh
<1>1. Typed /\ Counted => StepKeysFresh
  <2> SUFFICES ASSUME Typed, Counted, run.at = "judge", NEW name \in {"agent-step", "answer"}
               PROVE  <<name, run.ledger.iteration + 1>> \notin DOMAIN stream
    BY DEF StepKeysFresh
  <2>1. recorded \in Ledger /\ run.ledger.iteration = recorded.iteration
    BY RunType DEF Typed, Counted
  <2>2. recorded.iteration \in Nat
    BY <2>1 DEF Ledger
  <2> QED BY <2>1, <2>2 DEF Counted
<1> QED BY <1>1, TypedAlways, RecordedAlways, PTL
=============================================================================
