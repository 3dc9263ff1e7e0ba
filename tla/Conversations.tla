---------------------------- MODULE Conversations ----------------------------
(***************************************************************************)
(* The follow-up queue of one conversation (harness/server/sessions.py):    *)
(* messages accepted while a turn runs, dispatched by the end of a          *)
(* successful turn or by an explicit continuation, over runs whose life is  *)
(* that of RunCoordinator, reduced to what the queue can tell apart.        *)
(*                                                                          *)
(* One lock serialises the requests and the completion hooks, and it may be *)
(* held by another conversation, so a hook can come long after its turn.    *)
(* A request that goes on to dispatch does so in the same section: between  *)
(* its commit and the dispatch only a crash can come (ctl "deciding").      *)
(***************************************************************************)
EXTENDS SequencesExt

CONSTANTS
  Roots,       \* turns the user starts with task.start
  Items,       \* follow-up messages, by request id; also the turns they become
  Continues,   \* request ids of explicit continuations
  Nothing,     \* not an item and not a request
  MaxPending,  \* follow-ups that may be pending at once (20 in the code)
  MaxFaults    \* bound: retried starts that find their run still queued, and
               \* how often the process ends

ASSUME ConversationsAssumption ==
  /\ Roots \cap Items = {}
  /\ Nothing \notin Items \cup Continues
  /\ MaxPending \in Nat /\ MaxFaults \in Nat

Turns == Roots \cup Items

VARIABLES
  queue,       \* durable: every follow-up ever accepted, by position
  mark,        \* durable: "pending", "dispatched", "cancelled" ("none": no row)
  target,      \* durable: what each continuation authorised ({}: not seen)
  status,      \* durable: the runs; "completed" split by the public outcome
  order,       \* durable: the turns that have a run, by created_at
  masked,      \* durable: turns whose last event is a late cleanup warning
  up,          \* whether the server serves
  downs,       \* how often the process has ended
  closed,      \* ConversationController.closed
  ctl,         \* the holder of ConversationController._lock
  driven,      \* turns that have a driver task
  late,        \* turns a retried start found queued and will drive again
  ended,       \* turns whose driver has its completion hook to call
  startedBy    \* history: the items each continuation started

table    == <<queue, mark, target>>
runs     == <<status, order, masked>>
tasks    == <<driven, late, ended>>
vars     == <<table, runs, up, downs, closed, ctl, tasks, startedBy>>

Terminal == {"answered", "blocked", "failed", "cancelled"}
Active   == {"queued", "running"}
Mark     == {"none", "pending", "dispatched", "cancelled"}

Free     == [pc |-> "idle", item |-> Nothing, by |-> Nothing]
Calm     == up /\ ctl.pc # "deciding"
Unlocked == up /\ ctl = Free

Pending  == {n \in DOMAIN queue : mark[queue[n]] = "pending"}   \* by position
Latest   == Last(order)
ActiveIn == {t \in Turns : status[t] \in Active}

(* _successful reads the outcome from the last event of the history.        *)
Successful(t) == status[t] = "answered" \/ (status[t] = "blocked" /\ t \in masked)

TypeOK ==
  /\ queue \in Seq(Items) /\ IsInjective(queue)
  /\ mark \in [Items -> Mark]
  /\ target \in [Continues -> SUBSET (Items \cup {Nothing})]
  /\ status \in [Turns -> Active \cup Terminal \cup {"none"}]
  /\ order \in Seq(Turns) /\ IsInjective(order)
  /\ ToSet(order) = {t \in Turns : status[t] # "none"}
  /\ masked \in SUBSET Turns
  /\ up \in BOOLEAN /\ downs \in 0..MaxFaults /\ closed \in BOOLEAN
  /\ ctl \in [pc : {"idle", "deciding", "starting"}, item : Items \cup {Nothing},
              by : Continues \cup {Nothing}]
  /\ driven \in SUBSET Turns /\ late \in SUBSET Turns /\ ended \in SUBSET Turns
  /\ startedBy \in [Continues -> SUBSET Items]

Init ==
  /\ queue = <<>> /\ mark = [i \in Items |-> "none"]
  /\ target = [k \in Continues |-> {}]
  /\ status = [t \in Turns |-> "none"] /\ order = <<>> /\ masked = {}
  /\ up = TRUE /\ downs = 0 /\ closed = FALSE /\ ctl = Free
  /\ driven = {} /\ late = {} /\ ended = {}
  /\ startedBy = [k \in Continues |-> {}]
-----------------------------------------------------------------------------
(* create_run, and the fate of the run under its driver. *)
CreateRun(t) == /\ status' = [status EXCEPT ![t] = "queued"]
                /\ order' = Append(order, t)
                /\ UNCHANGED masked

Become(t, st) == status' = [status EXCEPT ![t] = st] /\ UNCHANGED <<order, masked>>

(* task.start of a new turn: refused while follow-ups wait or a run is on.  *)
Submit(t) ==
  /\ Calm /\ t \in Roots
  /\ status[t] = "none"
  /\ Pending = {} /\ ActiveIn = {}
  /\ CreateRun(t)
  /\ UNCHANGED <<table, up, downs, closed, ctl, tasks, startedBy>>

(* The same task.start again, behind other starts on the lifecycle lock.    *)
Resubmit(t) ==
  /\ Calm /\ status[t] = "queued"
  /\ Cardinality(late) + downs < MaxFaults
  /\ late' = late \cup {t}
  /\ UNCHANGED <<table, runs, up, downs, closed, ctl, driven, ended, startedBy>>

(* The execution of a root turn is built, or cannot be. *)
Created(t) ==
  /\ Calm /\ t \in Roots \ driven
  /\ status[t] = "queued"
  /\ \/ driven' = driven \cup {t} /\ UNCHANGED runs
     \/ Become(t, "failed") /\ UNCHANGED driven
  /\ UNCHANGED <<table, up, downs, closed, ctl, late, ended, startedBy>>

Begin(t) ==
  /\ Calm /\ t \in driven
  /\ status[t] = "queued"
  /\ Become(t, "running")
  /\ UNCHANGED <<table, up, downs, closed, ctl, tasks, startedBy>>

Hooked(t) == driven' = driven \ {t} /\ ended' = ended \cup {t} /\ UNCHANGED late

(* The driver settles the run and goes on to its completion hook. *)
Finish(t) ==
  /\ Calm /\ t \in driven
  /\ \/ status[t] = "running" /\ \E st \in Terminal : Become(t, st)
     \/ status[t] = "queued" /\ \E st \in {"failed", "cancelled"} : Become(t, st)
     \/ status[t] \in Terminal /\ UNCHANGED runs
  /\ Hooked(t)
  /\ UNCHANGED <<table, up, downs, closed, ctl, startedBy>>

(* Cancelled in an exception handler, the driver leaves the run running;    *)
(* the next start with its key fails it.                                    *)
Strand(t) ==
  /\ Calm /\ t \in driven /\ status[t] = "running"
  /\ Hooked(t)
  /\ UNCHANGED <<table, runs, up, downs, closed, ctl, startedBy>>

Unstrand(t) ==
  /\ Calm /\ t \notin driven /\ status[t] = "running"
  /\ Become(t, "failed")
  /\ UNCHANGED <<table, up, downs, closed, ctl, tasks, startedBy>>

CancelQueued(t) ==
  /\ Calm /\ t \notin driven /\ status[t] = "queued"
  /\ Become(t, "cancelled")
  /\ UNCHANGED <<table, up, downs, closed, ctl, tasks, startedBy>>

(* The retried start gets the lifecycle lock when the run is over: its      *)
(* driver finds the status gone, closes the second execution, perhaps with  *)
(* a warning, and calls the completion hook of the run once more.           *)
DrivenAgain(t) ==
  /\ Calm /\ t \in late \ driven
  /\ late' = late \ {t}
  /\ \/ /\ status[t] \in Terminal
        /\ ended' = ended \cup {t}
        /\ masked' \in {masked, masked \cup {t}}
     \/ status[t] \notin Terminal /\ UNCHANGED <<ended, masked>>
  /\ UNCHANGED <<table, status, order, up, downs, closed, ctl, driven, startedBy>>
-----------------------------------------------------------------------------
(* The requests of the client and the hook of the driver, under the lock.   *)
Decide(by) == ctl' = [Free EXCEPT !.pc = "deciding", !.by = by]

FollowUp(i) ==
  /\ Unlocked /\ order # <<>>
  /\ \/ mark[i] # "none" /\ UNCHANGED <<queue, mark>>
     \/ /\ mark[i] = "none" /\ Cardinality(Pending) < MaxPending
        /\ queue' = Append(queue, i)
        /\ mark' = [mark EXCEPT ![i] = "pending"]
  /\ IF Successful(Latest) THEN Decide(Nothing) ELSE UNCHANGED ctl
  /\ UNCHANGED <<target, runs, up, downs, closed, tasks, startedBy>>

RemoveFollowUp(i) ==
  /\ Unlocked
  /\ mark[i] \in {"pending", "cancelled"}
  /\ mark' = [mark EXCEPT ![i] = "cancelled"]
  /\ UNCHANGED <<queue, target, runs, up, downs, closed, ctl, tasks, startedBy>>

NewestFirst == IF Pending = {} THEN Nothing ELSE queue[Max(Pending)]   \* mutation

First == IF Pending = {} THEN Nothing ELSE queue[Min(Pending)]

AuthorizedAnew(k) == {First}   \* mutation: a retry authorises what is first now

Authorized(k) == IF target[k] = {} THEN {First} ELSE target[k]

Continue(k) ==
  /\ Unlocked /\ order # <<>>
  /\ target' = [target EXCEPT ![k] = Authorized(k)]
  /\ IF Authorized(k) = {Nothing} THEN UNCHANGED ctl ELSE Decide(k)
  /\ UNCHANGED <<queue, mark, runs, up, downs, closed, tasks, startedBy>>

AfterTurnNever(t) ==   \* mutation: the hook does not dispatch
  /\ Unlocked /\ t \in ended
  /\ ended' = ended \ {t}
  /\ UNCHANGED <<table, runs, up, downs, closed, ctl, driven, late, startedBy>>

AfterTurn(t) ==
  /\ Unlocked /\ t \in ended
  /\ ended' = ended \ {t}
  /\ IF Successful(t) THEN Decide(Nothing) ELSE UNCHANGED ctl
  /\ UNCHANGED <<table, runs, up, downs, closed, driven, late, startedBy>>

(* _dispatch: nothing to do; or a crash came between start and dispatched   *)
(* last time; or create_run, then wait for the execution to be built.       *)
Allowed(i) == ctl.by = Nothing \/ i \in target[ctl.by]

Dispatch ==
  LET i    == First
      none == closed \/ i = Nothing \/ ~Allowed(i)
  IN
  /\ up /\ ctl.pc = "deciding"
  /\ \/ /\ none
        /\ ctl' = Free
        /\ UNCHANGED <<mark, runs, startedBy>>
     \/ /\ ~none /\ status[i] # "none"
        /\ mark' = [mark EXCEPT ![i] = "dispatched"]
        /\ ctl' = Free
        /\ UNCHANGED <<runs, startedBy>>
     \/ /\ ~none /\ status[i] = "none" /\ status[Latest] \in Active
        /\ ctl' = Free
        /\ UNCHANGED <<mark, runs, startedBy>>
     \/ /\ ~none /\ status[i] = "none" /\ status[Latest] \notin Active
        /\ CreateRun(i)
        /\ ctl' = [ctl EXCEPT !.pc = "starting", !.item = i]
        /\ startedBy' = [k \in Continues |-> IF k = ctl.by THEN startedBy[k] \cup {i}
                                             ELSE startedBy[k]]
        /\ UNCHANGED mark
  /\ UNCHANGED <<queue, target, up, downs, closed, tasks>>

StartedUnmarked ==   \* mutation: the row stays pending
  /\ up /\ ctl.pc = "starting"
  /\ driven' = driven \cup {ctl.item}
  /\ ctl' = Free
  /\ UNCHANGED <<table, runs, up, downs, closed, late, ended, startedBy>>

(* coordinator.start returned: the driver exists and the row is marked.     *)
Started ==
  /\ up /\ ctl.pc = "starting"
  /\ driven' = driven \cup {ctl.item}
  /\ mark' = [mark EXCEPT ![ctl.item] = "dispatched"]
  /\ ctl' = Free
  /\ UNCHANGED <<queue, target, runs, up, downs, closed, late, ended, startedBy>>

(* It raised: the run is settled and the row stays pending. *)
StartFails ==
  /\ up /\ ctl.pc = "starting"
  /\ IF status[ctl.item] = "queued" THEN Become(ctl.item, "failed") ELSE UNCHANGED runs
  /\ ctl' = Free
  /\ UNCHANGED <<table, up, downs, closed, tasks, startedBy>>
-----------------------------------------------------------------------------
Close ==
  /\ Calm /\ ~closed
  /\ closed' = TRUE
  /\ UNCHANGED <<table, runs, up, downs, ctl, tasks, startedBy>>

(* The process ends: after aclose, or at any moment. *)
Down ==
  /\ up /\ downs < MaxFaults
  /\ up' = FALSE /\ downs' = downs + 1 /\ closed' = FALSE /\ ctl' = Free
  /\ driven' = {} /\ late' = {} /\ ended' = {}
  /\ UNCHANGED <<table, runs, startedBy>>

Recover(t) ==
  /\ ~up /\ status[t] \in Active
  /\ Become(t, "failed")
  /\ UNCHANGED <<table, up, downs, closed, ctl, tasks, startedBy>>

Serve ==
  /\ ~up /\ ActiveIn = {}
  /\ up' = TRUE
  /\ UNCHANGED <<table, runs, downs, closed, ctl, tasks, startedBy>>
-----------------------------------------------------------------------------
Hold == Dispatch \/ Started \/ StartFails

Next ==
  \/ \E t \in Turns : \/ Submit(t) \/ Resubmit(t) \/ Created(t) \/ Begin(t)
                      \/ Finish(t) \/ Strand(t) \/ Unstrand(t) \/ CancelQueued(t)
                      \/ DrivenAgain(t) \/ AfterTurn(t) \/ Recover(t)
  \/ \E i \in Items : FollowUp(i) \/ RemoveFollowUp(i)
  \/ \E k \in Continues : Continue(k)
  \/ Hold \/ Close \/ Down \/ Serve

Spec == Init /\ [][Next]_vars

(* The holder of the lock finishes, the lock is FIFO, so every completion   *)
(* hook gets it.                                                            *)
FairSpec == Spec /\ WF_vars(Hold) /\ \A t \in Turns : SF_vars(AfterTurn(t))
-----------------------------------------------------------------------------
(***************************************************************************)
(* The queue keeps FollowUpQueue's promise whatever is retried, removed,    *)
(* cancelled or lost with the process: in order, at most once, and never    *)
(* what was removed while it waited.  A message is started when create_run  *)
(* has run for it, also if its row is pending still.                        *)
(***************************************************************************)
FollowUps == INSTANCE FollowUpQueue WITH
  accepted <- queue,
  started <- {i \in Items : status[i] # "none"},
  removed <- {i \in Items : mark[i] = "cancelled" /\ status[i] = "none"}

QueueSpec == FollowUps!Spec

(***************************************************************************)
(* A row is pending while its run is under way only as long as the dispatch *)
(* that created the run is waiting for its start: what a crash leaves       *)
(* pending is settled before the next dispatch can read it.                 *)
(***************************************************************************)
PendingNotRunning ==
  \A i \in Items : up /\ mark[i] = "pending" /\ status[i] \in Active =>
    ctl.pc = "starting" /\ ctl.item = i

(***************************************************************************)
(* "A continuation retry remains tied to the original item": one request    *)
(* starts at most one message, however often it is sent.                    *)
(***************************************************************************)
ContinuationStartsOne == \A k \in Continues : Cardinality(startedBy[k]) <= 1

(***************************************************************************)
(* "Success drains the queue": messages do not stay behind a turn that was  *)
(* answered, unless the server closes.  What a restart finds pending is not *)
(* run silently and waits for a continuation.                               *)
(***************************************************************************)
Stuck == /\ downs = 0 /\ ~closed
         /\ order # <<>> /\ status[Latest] = "answered"
         /\ Pending # {}

SuccessDrains == []<>~Stuck

(***************************************************************************)
(* "Blocked, failed and cancelled turns retain pending messages": without a *)
(* continuation, a message starts only behind a turn that was answered.     *)
(***************************************************************************)
AdvancesOnlyAfterSuccess ==
  [][\A i \in Items :
       status[i] = "none" /\ status'[i] # "none" /\ ctl.by = Nothing =>
         status[Latest] = "answered"]_vars
=============================================================================
