---------------------------- MODULE TaskLedger ----------------------------
(***************************************************************************)
(* The task ledger (harness/models/task.py), the events that change it     *)
(* (harness/state/events.py) and the pure decisions of the workflow        *)
(* (harness/orchestration/core.py, harness/state/progress.py).  A ledger   *)
(* keeps the fields that a decision reads; prose, paths and criteria are   *)
(* left out.  next_action keeps only whether it asks for reconciliation.   *)
(***************************************************************************)
EXTENDS Integers

CONSTANTS ReplanAt,  \* progress_replan_threshold
          HumanAt    \* progress_human_threshold

ASSUME ThresholdsAssumption == ReplanAt \in Nat \ {0} /\ HumanAt \in Nat \ {0}

Mode == {"auto", "coding"}
TaskStatus == {"active", "needs_input", "verifying", "complete", "answered"}
TaskPhase == {"understand", "plan", "implement", "verify", "review", "blocked", "complete"}
Step == {"answer", "verify", "blocked", "continue"}
Route == {"continue", "replan", "blocked", "verify"}

Ledger == [status : TaskStatus, phase : TaskPhase, mode : Mode, iteration : Nat,
           reviewed : BOOLEAN, reconciling : BOOLEAN, stuck : Nat]

(* create_initial_ledger. *)
Created(mode) ==
    [status |-> "active", phase |-> "understand", mode |-> mode, iteration |-> 0,
     reviewed |-> FALSE, reconciling |-> FALSE, stuck |-> 0]

(* _ledger_patch: the fields in which `after` differs. *)
Patch(before, after) ==
    [f \in {f \in DOMAIN before : before[f] # after[f]} |-> after[f]]

(* apply_patch. *)
Patched(ledger, patch) ==
    [f \in DOMAIN ledger |-> IF f \in DOMAIN patch THEN patch[f] ELSE ledger[f]]

(* What reduce_event makes of task.blocked and task.finished. *)
Blocking == [status |-> "needs_input", phase |-> "blocked"]
Finishing == [status |-> "complete", phase |-> "complete"]

(* A mutant: a step does not count as an iteration. *)
ReducedUncounted(ledger, step, repeated, silent) ==
    [ledger EXCEPT !.reconciling = @ /\ silent,
                   !.status = IF step = "blocked" THEN "needs_input" ELSE "active",
                   !.stuck = IF repeated THEN @ + 1 ELSE 0]

(* reduce_agent_step and register_action_batch: one work batch of the
   worker; `repeated` when no observed action was new, `silent` when the
   step names no next action. *)
Reduced(ledger, step, repeated, silent) ==
    LET settled == CASE step = "blocked" -> Blocking
                     [] step = "verify" -> [status |-> "verifying", phase |-> "verify"]
                     [] OTHER -> [status |-> "active", phase |-> "implement"]
    IN  [Patched(ledger, settled) EXCEPT
            !.iteration = @ + 1,
            !.reconciling = @ /\ silent,
            !.stuck = IF repeated THEN @ + 1 ELSE 0]

(* resume_for_steering, replan_ledger and a failed verification. *)
Resumed(ledger) ==
    [ledger EXCEPT !.status = "active", !.phase = "implement", !.reconciling = FALSE]
Replanned(ledger) ==
    [ledger EXCEPT !.status = "active", !.phase = "plan", !.reconciling = FALSE]

(* decide_route with route_for_progress, where no steering waits. *)
Decided(ledger, step) ==
    CASE step \in {"blocked", "verify"} -> step
      [] step = "continue" /\ ledger.stuck >= HumanAt -> "blocked"
      [] step = "continue" /\ ledger.stuck \in ReplanAt..(HumanAt - 1) -> "replan"
      [] OTHER -> "continue"
=============================================================================
