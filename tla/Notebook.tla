------------------------------ MODULE Notebook ------------------------------
(***************************************************************************)
(* The notebook tool: python in app/agent/builders.py over the persistent  *)
(* worker of harness/repl/worker.py and the events of harness/notebook/.   *)
(*                                                                         *)
(* A call is a coroutine that waits for threads; the threads share one     *)
(* kernel under the worker's lock.  The kernel's epoch is its lifetime and *)
(* its namespace the cells whose assignments it holds.  A model may make   *)
(* calls in parallel.  A kernel dies only while it runs a cell.            *)
(***************************************************************************)
EXTENDS Integers, Sequences, FiniteSets, SequencesExt

CONSTANTS Cells,      \* the calls of the tool, one cell each
          Safe,       \* those whose source may be replayed
          MaxStarts,  \* bound: starts of the process
          Nobody      \* the lock is free

ASSUME NotebookAssumption ==
    Safe \subseteq Cells /\ Nobody \notin Cells /\ MaxStarts \in Nat \ {0}

Stage == {"idle", "epoch", "opening", "restoring", "submitting", "drawing", "queued",
          "running", "calling", "returned", "resetting", "ending", "redrawing",
          "recording", "done"}
(* Stages in which a thread works for the call; the lock's holder is in one
   of the last two. *)
Threads == {"epoch", "restoring", "drawing", "queued", "resetting", "redrawing",
            "running", "calling"}
Held == {"running", "calling"}

Kinds == {"added", "requested", "answered", "completed", "failed", "timeout",
          "restored", "materialized", "snapshot"}

VARIABLES
    process,    \* "running", "cancelled", "closing", "closed" or "down"
    starts,     \* starts of the process
    epoch,      \* the live kernel, 0 if there is none
    epochs,     \* kernels started so far
    namespace,  \* cells whose assignments the kernel holds
    holder,     \* the call that holds the worker's lock, or Nobody
    restored,   \* restored_kernel_epoch, 0 for None
    log,        \* the task's events
    book,       \* source watermark of the .ipynb file, 0 if there is none
    cells,      \* the state of each call
    effects,    \* history: capability calls of a cell that took place
    alone       \* history: no call has begun while another was under way

kernel == <<epoch, epochs, namespace>>
vars == <<process, starts, kernel, holder, restored, log, book, cells, effects, alone>>

NoCell == [stage |-> "idle", start |-> 0, epoch |-> 0, plan |-> {}, status |-> "none",
           mark |-> 0, awaited |-> TRUE]

Init ==
    /\ process = "running" /\ starts = 1
    /\ epoch = 0 /\ epochs = 0 /\ namespace = {} /\ holder = Nobody /\ restored = 0
    /\ log = <<>> /\ book = 0
    /\ cells = [c \in Cells |-> NoCell]
    /\ effects = {} /\ alone = TRUE

Busy == {c \in Cells : cells[c].stage \notin {"idle", "done"}}
Go(c, stage) == cells' = [cells EXCEPT ![c].stage = stage]

Event(kind, c, e) == [kind |-> kind, cell |-> c, epoch |-> e]


(* reduce_notebook: a cell's status is that of its last terminal event, the
   cells are in the order in which they were added. *)
Has(kind, c) == \E i \in DOMAIN log : log[i].kind = kind /\ log[i].cell = c
AddedAt(c) == CHOOSE i \in DOMAIN log : log[i].kind = "added" /\ log[i].cell = c
Replayable == {c \in Safe : Has("completed", c)}
(* The next cell of a plan. *)
First(plan) == CHOOSE c \in plan : \A d \in plan : AddedAt(c) <= AddedAt(d)

(* The watermark covers the events that name the notebook; a restoration, a
   materialization and a snapshot do not. *)
Marked == {"added", "requested", "answered", "completed", "failed", "timeout"}
Watermark(events) ==
    LET marks == {i \in DOMAIN events : events[i].kind \in Marked}
    IN  IF marks = {} THEN 0 ELSE CHOOSE i \in marks : \A j \in marks : j <= i

----------------------------------------------------------------------------
(* The worker, under its lock.                                             *)

(* _start: a kernel that lives is kept. *)
Live == IF epoch = 0 THEN epochs + 1 ELSE epoch
Start ==
    /\ epoch' = Live
    /\ epochs' = IF epoch = 0 THEN epochs + 1 ELSE epochs

(* _discard *)
Discard == epoch' = 0 /\ namespace' = {} /\ UNCHANGED epochs

----------------------------------------------------------------------------
(* One call.                                                               *)

Call(c) ==
    /\ process = "running" /\ cells[c].stage = "idle"
    /\ cells' = [cells EXCEPT ![c].stage = "epoch", ![c].start = starts]
    /\ alone' = (alone /\ Busy = {})
    /\ UNCHANGED <<process, starts, kernel, holder, restored, log, book, effects>>

(* kernel_epoch starts the worker when there is none. *)
ReadEpoch(c) ==
    /\ cells[c].stage = "epoch" /\ holder = Nobody
    /\ Start
    /\ cells' = [cells EXCEPT ![c].stage = IF @ = "epoch" /\ cells[c].awaited
                                           THEN "opening" ELSE "done",
                              ![c].epoch = Live]
    /\ UNCHANGED <<process, starts, namespace, holder, restored, log, book, effects, alone>>

(* The coroutine appends the cell and reduces the events it will draw. *)
Submitted(c, events) ==
    LET added == Append(events, Event("added", c, cells[c].epoch))
    IN  /\ log' = added
        /\ restored' = cells[c].epoch
        /\ cells' = [cells EXCEPT ![c].stage = "drawing", ![c].mark = Watermark(added)]

(* A kernel that is not the one restored last gets the safe cells first. *)
Open(c) ==
    /\ cells[c].stage = "opening"
    /\ IF restored # cells[c].epoch /\ Replayable # {}
       THEN /\ cells' = [cells EXCEPT ![c].plan = Replayable, ![c].stage = "restoring"]
            /\ UNCHANGED <<restored, log>>
       ELSE Submitted(c, log)
    /\ UNCHANGED <<process, starts, kernel, holder, book, effects, alone>>

(* One cell of the plan, with capabilities disabled.  A replay that does
   not end in time costs the kernel, and the call answers "blocked". *)
Restore(c) ==
    LET plan == cells[c].plan IN
    /\ cells[c].stage = "restoring" /\ holder = Nobody
    /\ \/ /\ Start
          /\ namespace' = (IF epoch = 0 THEN {} ELSE namespace) \cup {First(plan)}
          /\ cells' = [cells EXCEPT
                          ![c].plan = plan \ {First(plan)},
                          ![c].stage = CASE ~cells[c].awaited -> "done"
                                         [] plan = {First(plan)} -> "submitting"
                                         [] OTHER -> "restoring"]
       \/ /\ Discard
          /\ cells' = [cells EXCEPT ![c].stage = "done", ![c].status = "blocked"]
    /\ UNCHANGED <<process, starts, holder, restored, log, book, effects, alone>>

(* The restoration of a kernel is recorded once. *)
Submit(c) ==
    /\ cells[c].stage = "submitting"
    /\ LET seen == \E i \in DOMAIN log : log[i].kind = "restored" /\ log[i].epoch = cells[c].epoch
       IN  Submitted(c, IF seen THEN log ELSE Append(log, Event("restored", c, cells[c].epoch)))
    /\ UNCHANGED <<process, starts, kernel, holder, book, effects, alone>>

(* materialize_notebook replaces the file in a thread. *)
Draw(c) ==
    /\ cells[c].stage \in {"drawing", "redrawing"}
    /\ book' = cells[c].mark
    /\ Go(c, CASE ~cells[c].awaited -> "done"
               [] cells[c].stage = "drawing" -> "queued"
               [] OTHER -> "recording")
    /\ UNCHANGED <<process, starts, kernel, holder, restored, log, effects, alone>>

(* execute takes the lock and starts a kernel when there is none. *)
Take(c) ==
    /\ cells[c].stage = "queued" /\ holder = Nobody
    /\ holder' = c
    /\ Start
    /\ Go(c, "running")
    /\ UNCHANGED <<process, starts, namespace, restored, log, book, effects, alone>>

(* The cell calls a capability: the request is recorded before it is made,
   its end after it. *)
Capability(c) ==
    /\ cells[c].stage = "running" /\ c \notin Safe /\ ~Has("requested", c)
    /\ log' = Append(log, Event("requested", c, cells[c].epoch))
    /\ Go(c, "calling")
    /\ UNCHANGED <<process, starts, kernel, holder, restored, book, effects, alone>>

Invoke(c) ==
    /\ cells[c].stage = "calling" /\ c \notin effects
    /\ effects' = effects \cup {c}
    /\ UNCHANGED <<process, starts, kernel, holder, restored, log, book, cells, alone>>

Answer(c) ==
    /\ cells[c].stage = "calling"
    /\ log' = Append(log, Event("answered", c, cells[c].epoch))
    /\ Go(c, "running")
    /\ UNCHANGED <<process, starts, kernel, holder, restored, book, effects, alone>>

(* The cell ends; a Python error may follow assignments. *)
Leave(c, status) ==
    cells' = [cells EXCEPT ![c].status = status,
                           ![c].stage = IF cells[c].awaited THEN "returned" ELSE "done"]

(* A mutant: the lock is not given back. *)
FinishHolding(c) ==
    /\ cells[c].stage = "running"
    /\ namespace' = namespace \cup {c}
    /\ \E status \in {"ok", "error"} : Leave(c, status)
    /\ UNCHANGED <<process, starts, epoch, epochs, holder, restored, log, book, effects, alone>>

Finish(c) ==
    /\ cells[c].stage = "running"
    /\ namespace' = namespace \cup {c}
    /\ \E status \in {"ok", "error"} : Leave(c, status)
    /\ holder' = Nobody
    /\ UNCHANGED <<process, starts, epoch, epochs, restored, log, book, effects, alone>>

(* The deadline passes or the kernel dies: it is discarded. *)
Fail(c) ==
    /\ cells[c].stage = "running"
    /\ Discard
    /\ \E status \in {"timeout", "error"} : Leave(c, status)
    /\ holder' = Nobody
    /\ UNCHANGED <<process, starts, restored, log, book, effects, alone>>

(* A mutant: a failed cell leaves its assignments in the kernel. *)
ReturnUnreset(c) ==
    /\ cells[c].stage = "returned"
    /\ Go(c, "ending")
    /\ UNCHANGED <<process, starts, kernel, holder, restored, log, book, effects, alone>>

Return(c) ==
    /\ cells[c].stage = "returned"
    /\ Go(c, IF cells[c].status = "error" THEN "resetting" ELSE "ending")
    /\ UNCHANGED <<process, starts, kernel, holder, restored, log, book, effects, alone>>

(* reset: what a failed cell has assigned is discarded with the kernel. *)
Reset(c) ==
    /\ cells[c].stage = "resetting" /\ holder = Nobody
    /\ Discard
    /\ Go(c, IF cells[c].awaited THEN "ending" ELSE "done")
    /\ UNCHANGED <<process, starts, holder, restored, log, book, effects, alone>>

Terminal(status) ==
    CASE status = "ok" -> "completed" [] status = "timeout" -> "timeout" [] OTHER -> "failed"

End(c) ==
    /\ cells[c].stage = "ending"
    /\ LET ended == Append(log, Event(Terminal(cells[c].status), c, cells[c].epoch))
       IN  /\ log' = ended
           /\ cells' = [cells EXCEPT ![c].stage = "redrawing", ![c].mark = Watermark(ended)]
    /\ UNCHANGED <<process, starts, kernel, holder, restored, book, effects, alone>>

Record(c) ==
    /\ cells[c].stage = "recording"
    /\ log' = Append(log, Event("materialized", c, cells[c].epoch))
    /\ Go(c, "done")
    /\ UNCHANGED <<process, starts, kernel, holder, restored, book, effects, alone>>

----------------------------------------------------------------------------
(* The run and the process.                                                *)

(* A cancelled run loses its coroutines; what a thread has begun goes on. *)
Cancel ==
    /\ process = "running"
    /\ process' = "cancelled"
    /\ cells' = [c \in Cells |->
                    IF c \notin Busy THEN cells[c]
                    ELSE [cells[c] EXCEPT
                            !.awaited = FALSE,
                            !.stage = IF @ \in Threads THEN @ ELSE "done"]]
    /\ UNCHANGED <<starts, kernel, holder, restored, log, book, effects, alone>>

(* The notebook has had a call in this process. *)
Active == \E c \in Cells : cells[c].start = starts

(* The snapshot names the last cell's kernel; one of the same watermark is
   recorded once. *)
SnapshotEvents ==
    LET added == {i \in DOMAIN log : log[i].kind = "added"}
        seen == \E i \in DOMAIN log : /\ log[i].kind = "snapshot"
                                     /\ Watermark(SubSeq(log, 1, i)) = Watermark(log)
    IN  IF seen THEN <<>>
        ELSE <<Event("snapshot", Nobody, IF added = {} THEN 0 ELSE log[Max(added)].epoch)>>

Closing ==
    /\ process \in {"running", "cancelled"}
    /\ process = "running" => Busy = {}
    /\ process' = "closing"

(* A mutant: the file is not drawn again. *)
SnapshotUndrawn ==
    /\ Closing
    /\ log' = log \o (IF Active THEN SnapshotEvents ELSE <<>>)
    /\ UNCHANGED <<starts, kernel, holder, restored, book, cells, effects, alone>>

(* close draws the notebook, records a snapshot and discards the kernel,
   for which it waits for the lock. *)
Snapshot ==
    /\ Closing
    /\ book' = IF Active THEN Watermark(log) ELSE book
    /\ log' = log \o (IF Active THEN SnapshotEvents ELSE <<>>)
    /\ UNCHANGED <<starts, kernel, holder, restored, cells, effects, alone>>

Close ==
    /\ process = "closing" /\ holder = Nobody
    /\ process' = "closed"
    /\ Discard
    /\ UNCHANGED <<starts, holder, restored, log, book, cells, effects, alone>>

(* The process stops; the events and the file stay. *)
Stop ==
    /\ process # "down"
    /\ process' = "down"
    /\ Discard
    /\ holder' = Nobody /\ restored' = 0
    /\ cells' = [c \in Cells |-> IF c \notin Busy THEN cells[c]
                                 ELSE [cells[c] EXCEPT !.stage = "done", !.status = "lost"]]
    /\ UNCHANGED <<starts, log, book, effects, alone>>

(* The same task goes on in a new process. *)
Resume ==
    /\ process = "down" /\ starts < MaxStarts
    /\ process' = "running" /\ starts' = starts + 1
    /\ UNCHANGED <<kernel, holder, restored, log, book, cells, effects, alone>>

Step(c) ==
    \/ ReadEpoch(c) \/ Open(c) \/ Restore(c) \/ Submit(c) \/ Draw(c) \/ Take(c)
    \/ Invoke(c) \/ Answer(c) \/ Finish(c) \/ Fail(c)
    \/ Return(c) \/ Reset(c) \/ End(c) \/ Record(c)

Next ==
    \/ \E c \in Cells : Call(c) \/ Capability(c) \/ Step(c)
    \/ Cancel \/ Snapshot \/ Close \/ Stop \/ Resume

Spec == Init /\ [][Next]_vars

(* Threads go on while the process runs, a cell ends at its deadline and
   close follows the snapshot. *)
FairSpec == Spec /\ WF_vars(Close) /\ \A c \in Cells : WF_vars(Step(c))

----------------------------------------------------------------------------
(* Properties.                                                             *)

(* Values are of their kinds and the lock is held exactly by the call whose
   cell the kernel runs. *)
TypeOK ==
    /\ process \in {"running", "cancelled", "closing", "closed", "down"}
    /\ starts \in 1..MaxStarts
    /\ epoch \in 0..epochs /\ restored \in 0..epochs /\ epochs \in Nat
    /\ namespace \subseteq Cells /\ effects \subseteq Cells
    /\ book \in 0..Len(log)
    /\ \A i \in DOMAIN log : log[i].kind \in Kinds /\ log[i].epoch \in 0..epochs
    /\ \A c \in Cells : /\ cells[c].stage \in Stage
                        /\ cells[c].stage \in Held <=> holder = c

(* "the next cell restores only previously committed safe cells"
   (builders.py:573-574): while calls are made one at a time, a cell runs in
   the kernel whose epoch it reports, which holds the assignments of every
   completed safe cell and none of a cell that failed, timed out, was
   cancelled or was cut off by a stop. *)
RunsInRestoredKernel ==
    \A c \in Cells :
        (alone /\ cells[c].stage = "running" /\ cells[c].awaited) =>
            /\ epoch = cells[c].epoch
            /\ Replayable \subseteq namespace
            /\ \A d \in namespace : Has("completed", d)

(* Parallel calls may replace the file by an older drawing; closing repairs
   it: unless a cancelled call's thread is left behind, the file of a closed
   notebook that had a call shows all its events. *)
ClosedBookIsCurrent ==
    (process \in {"closing", "closed"} /\ Active /\ \A c \in Cells : cells[c].awaited)
        => book = Watermark(log)

(* A call ends although others hold the lock, the kernel dies under it or its
   run is cancelled, and a closed worker lets go of its kernel. *)
CallsEnd ==
    /\ \A c \in Cells : cells[c].stage = "epoch" ~> cells[c].stage = "done"
    /\ process = "closing" ~> epoch = 0
=============================================================================
