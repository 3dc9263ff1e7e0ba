--------------------------- MODULE RunCoordinator ---------------------------
(***************************************************************************)
(* The run coordinator of the server (harness/server/runtime.py) over its   *)
(* durable registry (harness/server/registry.py): clients start and cancel  *)
(* runs, one driver task per run invokes the agent under the workspace      *)
(* lock, and the process may stop, crash and start again at any time.       *)
(*                                                                          *)
(* Everything runs on one event loop.  Between two awaits a task executes a *)
(* section no other task can enter, but each registry call in it is its own *)
(* SQLite transaction, so a crash can fall between them.  An action is one  *)
(* section: it updates the memory of the process and leaves the registry    *)
(* calls of the section, in order, in `section`; Commit performs them one   *)
(* by one, and no other task moves until they are done.                     *)
(***************************************************************************)
EXTENDS RunRecords, FiniteSets, SequencesExt

CONSTANTS
  Runs,        \* run ids
  NoRun,       \* not a run
  ThreadOf,    \* the conversation each run belongs to
  Clients,     \* tasks that call start and cancel: connections, follow-up dispatch
  Stopper,     \* the task that runs RunCoordinator.aclose
  MaxRetries,  \* liveness.first_event_retries
  MaxOutputs,  \* bound on the agent events recorded for one run
  CloseWarns   \* whether closing an execution may leave a cleanup warning

ASSUME ConstantsAssumption ==
  /\ NoRun \notin Runs
  /\ Stopper \notin Clients
  /\ MaxRetries \in Nat
  /\ MaxOutputs \in Nat
  /\ CloseWarns \in SUBSET BOOLEAN

Callers == Clients \cup {Stopper}

VARIABLES
  status,      \* durable: the run records
  journal,     \* durable: the public events of each run
  section,     \* registry calls the running section has still to make
  server,      \* "up", "stopping" (aclose is running) or "down"
  active,      \* the keys of _active
  driver,      \* where the _drive task of a run is
  attempt,     \* invocation attempts the driver has retried
  stream,      \* what the current attempt has yielded
  cancelling,  \* runs whose driver has a CancelledError to receive
  workspace,   \* _workspace_lock: the holder, then the waiters in order
  lifecycle,   \* _lifecycle_lock: the holder, then the waiters in order
  caller,      \* where each task that calls the coordinator is
  targets      \* runs aclose has still to await

durable  == <<status, journal>>
tasks    == <<active, driver, attempt, stream, cancelling, workspace>>
callers  == <<lifecycle, caller, targets>>
volatile == <<server, tasks, callers>>
vars     == <<durable, section, volatile>>

(***************************************************************************)
(* Driver positions.  "none": no task, or it has ended.  "new": created and *)
(* not yet entered.  "lock": waiting for the workspace.  "events", "retry   *)
(* Close", "retryCreate", "close": inside the lock.  "failClose" and        *)
(* "cancelClose": in an exception handler, after the lock was released.     *)
(* "unstarted": cancelled before its first step, so the task is over and no *)
(* handler of it ran.                                                       *)
(***************************************************************************)
Holding == {"events", "retryClose", "retryCreate", "close"}
Over    == {"none", "unstarted"}
Driver  == Holding \cup Over \cup {"new", "lock", "failClose", "cancelClose"}
Stream  == {"silent", "flowing", "errored"}

Idle    == [pc |-> "idle", run |-> NoRun, seen |-> "none"]
Caller  == [pc   : {"idle", "starting", "creating", "cancelling", "closing"},
            run  : Runs \cup {NoRun},
            seen : Status]
At(c, pc, r) == caller[c].pc = pc /\ caller[c].run = r

(* Registry calls. *)
Move(from, to) == [kind |-> "move", from |-> from, to |-> to]
Note(k)        == [kind |-> "note", event |-> k]
Call           == [kind : {"move"}, from : Status, to : Status]
                    \cup [kind : {"note"}, event : NoticeKind]

Opening        == <<Move("queued", "running"), Note("started")>>

Quiescent  == section.calls = <<>>
Do(r, cs)  == section' = [run |-> IF cs = <<>> THEN NoRun ELSE r, calls |-> cs]
Warning(w) == IF w THEN <<Note("warning")>> ELSE <<>>

(* A lock without a task that releases it or no longer waits for it. *)
Waits(lock, x)   == \E i \in 1..Len(lock) : lock[i] = x
Without(lock, x) == IF Waits(lock, x)
                    THEN RemoveAt(lock, CHOOSE i \in 1..Len(lock) : lock[i] = x)
                    ELSE lock

TypeOK ==
  /\ status \in [Runs -> Status]
  /\ journal \in [Runs -> Seq(Kind)]
  /\ section \in [run : Runs \cup {NoRun}, calls : Seq(Call)]
  /\ section.calls # <<>> => section.run \in Runs
  /\ server \in {"up", "stopping", "down"}
  /\ active \in SUBSET Runs
  /\ driver \in [Runs -> Driver]
  /\ attempt \in [Runs -> 0..MaxRetries]
  /\ stream \in [Runs -> Stream]
  /\ cancelling \in SUBSET Runs
  /\ workspace \in Seq(Runs)
  /\ lifecycle \in Seq(Clients)
  /\ caller \in [Callers -> Caller]
  /\ \A c \in Callers : caller[c].pc # "idle" => caller[c].run \in Runs
  /\ targets \in SUBSET Runs
-----------------------------------------------------------------------------
(* A fresh process: nothing in memory survives. *)
Fresh ==
  /\ active' = {}
  /\ driver' = [r \in Runs |-> "none"]
  /\ attempt' = [r \in Runs |-> 0]
  /\ stream' = [r \in Runs |-> "silent"]
  /\ cancelling' = {}
  /\ workspace' = <<>>
  /\ lifecycle' = <<>>
  /\ caller' = [c \in Callers |-> Idle]
  /\ targets' = {}

Init ==
  /\ status = [r \in Runs |-> "none"]
  /\ journal = [r \in Runs |-> <<>>]
  /\ section = [run |-> NoRun, calls |-> <<>>]
  /\ server = "up"
  /\ active = {}
  /\ driver = [r \in Runs |-> "none"]
  /\ attempt = [r \in Runs |-> 0]
  /\ stream = [r \in Runs |-> "silent"]
  /\ cancelling = {}
  /\ workspace = <<>>
  /\ lifecycle = <<>>
  /\ caller = [c \in Callers |-> Idle]
  /\ targets = {}
-----------------------------------------------------------------------------
(***************************************************************************)
(* The next registry call of the section.  A status only moves from the     *)
(* expected one (update_status, terminalize); a move to a terminal status   *)
(* appends its event in the same transaction.  A call that finds another    *)
(* status raises, and nothing changes: the places where that happens are    *)
(* the last calls of their sections.                                        *)
(***************************************************************************)
Moved(r, call) ==
  IF status[r] = call.from
  THEN /\ status' = [status EXCEPT ![r] = call.to]
       /\ journal' = IF call.to \in TerminalStatus
                     THEN [journal EXCEPT ![r] = Append(@, TerminalEvent(call.to))]
                     ELSE journal
  ELSE UNCHANGED durable

Noted(r, call) ==
  /\ journal' = [journal EXCEPT ![r] = Append(@, call.event)]
  /\ UNCHANGED status

Commit ==
  LET r == section.run  call == Head(section.calls) IN
  /\ ~Quiescent
  /\ \/ call.kind = "move" /\ Moved(r, call)
     \/ call.kind = "note" /\ Noted(r, call)
  /\ Do(r, Tail(section.calls))
  /\ UNCHANGED volatile
-----------------------------------------------------------------------------
(***************************************************************************)
(* start.  create_run reads or inserts the record before the lifecycle lock *)
(* is taken, and the rest decides on what it returned, however long the     *)
(* caller waited.                                                           *)
(***************************************************************************)
SiblingRunOnly(r) == {r}   \* mutation: create_run looks for the key only

Sibling(r) == {q \in Runs : ThreadOf[q] = ThreadOf[r]}

Release(c) == lifecycle' = Without(lifecycle, c)

(* The part of start under the lifecycle lock, for the status `seen` that   *)
(* create_run returned; `calls` is what the section did before it.          *)
Locked(c, r, seen, calls) ==
  \/ /\ seen = "running" /\ r \notin active
     /\ Do(r, calls \o <<Move("running", "failed")>>)
     /\ caller' = [caller EXCEPT ![c] = Idle]
     /\ Release(c)
  \/ /\ seen = "queued" /\ r \notin active
     /\ Do(r, calls)
     /\ caller' = [caller EXCEPT ![c] = [pc |-> "creating", run |-> r, seen |-> seen]]
     /\ lifecycle' = IF lifecycle = <<>> THEN <<c>> ELSE lifecycle
  \/ /\ seen \notin ActiveStatus \/ r \in active
     /\ Do(r, calls)
     /\ caller' = [caller EXCEPT ![c] = Idle]
     /\ Release(c)

Start(c, r) ==
  LET new   == status[r] = "none"
      seen  == IF new THEN "queued" ELSE status[r]
      calls == IF new THEN <<Move("none", "queued")>> ELSE <<>>
  IN
  /\ Quiescent /\ server = "up"
  /\ caller[c] = Idle
  /\ new => \A q \in Sibling(r) : status[q] \notin ActiveStatus
  /\ IF lifecycle = <<>>
     THEN Locked(c, r, seen, calls)
     ELSE /\ Do(r, calls)
          /\ caller' = [caller EXCEPT ![c] = [pc |-> "starting", run |-> r, seen |-> seen]]
          /\ lifecycle' = Append(lifecycle, c)
  /\ UNCHANGED <<durable, server, tasks, targets>>

StartLocked(c) ==
  /\ Quiescent
  /\ caller[c].pc = "starting"
  /\ lifecycle # <<>> /\ c = Head(lifecycle)
  /\ Locked(c, caller[c].run, caller[c].seen, <<>>)
  /\ UNCHANGED <<durable, server, tasks, targets>>

(***************************************************************************)
(* factory.create returned: the driver task is created and registered.  One *)
(* driver task per run is represented, so the caller waits for a driver     *)
(* whose _active entry was popped by somebody else; at least four callers   *)
(* in the middle of start and cancel on one run are needed to see two.      *)
(***************************************************************************)
Created(c, r) ==
  /\ Quiescent
  /\ At(c, "creating", r)
  /\ driver[r] = "none"
  /\ driver' = [driver EXCEPT ![r] = "new"]
  /\ active' = active \cup {r}
  /\ caller' = [caller EXCEPT ![c] = Idle]
  /\ Release(c)
  /\ UNCHANGED <<durable, section, server, attempt, stream, cancelling, workspace,
                 targets>>

CreateFailsHolding(c, r) ==   \* mutation: the lifecycle lock is not released
  /\ Quiescent
  /\ At(c, "creating", r)
  /\ Do(r, <<Move("queued", "failed")>>)
  /\ caller' = [caller EXCEPT ![c] = Idle]
  /\ UNCHANGED <<durable, server, tasks, lifecycle, targets>>

CreateFails(c, r) ==
  /\ Quiescent
  /\ At(c, "creating", r)
  /\ Do(r, <<Move("queued", "failed")>>)
  /\ caller' = [caller EXCEPT ![c] = Idle]
  /\ Release(c)
  /\ UNCHANGED <<durable, server, tasks, targets>>
-----------------------------------------------------------------------------
(***************************************************************************)
(* _drive.  A step of the task happens only while no CancelledError waits   *)
(* for it: the next step of a task with one is Interrupt.                   *)
(***************************************************************************)
Steps(r, pc) == Quiescent /\ r \notin cancelling /\ driver[r] = pc
Goto(r, pc)  == driver' = [driver EXCEPT ![r] = pc]
Leave(r)     == workspace' = Without(workspace, r)

(* The end of _drive: its finally block forgets the run. *)
End(r) == /\ Goto(r, "none")
          /\ active' = active \ {r}
          /\ attempt' = [attempt EXCEPT ![r] = 0]
          /\ stream' = [stream EXCEPT ![r] = "silent"]

Settling(r, to) == IF status[r] \in ActiveStatus
                   THEN <<Move(status[r], to)>> ELSE <<>>
Cancelled(r)    == IF status[r] \in ActiveStatus
                   THEN <<Note("cancelled")>> \o Settling(r, "cancelled") ELSE <<>>

GrantedUnchecked(r) ==   \* mutation: the run begins whatever its status
  /\ Do(r, <<Move(status[r], "running"), Note("started")>>)
  /\ Goto(r, "events")
  /\ workspace' = IF workspace = <<>> THEN <<r>> ELSE workspace

(* The workspace is ours: the run begins, or the expected status is gone.   *)
Granted(r) ==
  \/ /\ status[r] = "queued"
     /\ Do(r, Opening)
     /\ Goto(r, "events")
     /\ workspace' = IF workspace = <<>> THEN <<r>> ELSE workspace
  \/ /\ status[r] # "queued"
     /\ Goto(r, "failClose")
     /\ Leave(r)
     /\ UNCHANGED section

EnterUnlocked(r) ==   \* mutation: _drive does not wait for the workspace
  /\ Steps(r, "new")
  /\ Granted(r)
  /\ UNCHANGED <<durable, server, active, attempt, stream, cancelling, callers>>

Enter(r) ==
  /\ Steps(r, "new")
  /\ \/ workspace = <<>> /\ Granted(r)
     \/ /\ workspace # <<>>
        /\ Goto(r, "lock")
        /\ workspace' = Append(workspace, r)
        /\ UNCHANGED section
  /\ UNCHANGED <<durable, server, active, attempt, stream, cancelling, callers>>

Acquire(r) ==
  /\ Steps(r, "lock")
  /\ workspace # <<>> /\ r = Head(workspace)
  /\ Granted(r)
  /\ UNCHANGED <<durable, server, active, attempt, stream, cancelling, callers>>

Outputs(r) == {i \in 1..Len(journal[r]) : journal[r][i] = "output"}

(* A batch of the agent: hidden activity, public events, or an ADK error,   *)
(* which is remembered and not recorded.                                    *)
Activity(r) ==
  /\ Steps(r, "events") /\ stream[r] = "silent"
  /\ stream' = [stream EXCEPT ![r] = "flowing"]
  /\ UNCHANGED <<durable, section, server, active, driver, attempt, cancelling,
                 workspace, callers>>

Output(r) ==
  /\ Steps(r, "events")
  /\ Cardinality(Outputs(r)) < MaxOutputs
  /\ Do(r, <<Note("output")>>)
  /\ stream' = [stream EXCEPT ![r] = IF @ = "silent" THEN "flowing" ELSE @]
  /\ UNCHANGED <<durable, server, active, driver, attempt, cancelling, workspace,
                 callers>>

Fault(r) ==
  /\ Steps(r, "events") /\ stream[r] # "errored"
  /\ stream' = [stream EXCEPT ![r] = "errored"]
  /\ UNCHANGED <<durable, section, server, active, driver, attempt, cancelling,
                 workspace, callers>>

(* No event before the startup deadline: close this invocation, try again.  *)
FirstEventTimeout(r) ==
  /\ Steps(r, "events") /\ stream[r] = "silent" /\ attempt[r] < MaxRetries
  /\ attempt' = [attempt EXCEPT ![r] = @ + 1]
  /\ Do(r, <<Note("retry")>>)
  /\ Goto(r, "retryClose")
  /\ UNCHANGED <<durable, server, active, stream, cancelling, workspace, callers>>

RetryClosed(r, warn) ==
  /\ Steps(r, "retryClose")
  /\ Do(r, Warning(warn))
  /\ Goto(r, "retryCreate")
  /\ UNCHANGED <<durable, server, active, attempt, stream, cancelling, workspace,
                 callers>>

RetryCreated(r) ==
  /\ Steps(r, "retryCreate")
  /\ Goto(r, "events")
  /\ UNCHANGED <<durable, section, server, active, attempt, stream, cancelling,
                 workspace, callers>>

(* The old execution is closed already, so the handler settles at once. *)
RetryCreateFails(r) ==
  /\ Steps(r, "retryCreate")
  /\ Do(r, Settling(r, "failed"))
  /\ Leave(r)
  /\ End(r)
  /\ UNCHANGED <<durable, server, cancelling, callers>>

StreamEnds(r) ==
  /\ Steps(r, "events")
  /\ Goto(r, "close")
  /\ UNCHANGED <<durable, section, server, active, attempt, stream, cancelling,
                 workspace, callers>>

Closed(r, warn) ==
  /\ Steps(r, "close")
  /\ Do(r, Warning(warn) \o
           <<Move("running", IF stream[r] = "errored" THEN "failed" ELSE "completed")>>)
  /\ Leave(r)
  /\ End(r)
  /\ UNCHANGED <<durable, server, cancelling, callers>>

StreamFailsHolding(r) ==   \* mutation: the workspace lock is not released
  /\ Steps(r, "events")
  /\ Goto(r, "failClose")
  /\ UNCHANGED <<durable, section, server, active, attempt, stream, cancelling,
                 workspace, callers>>

(* A deadline that is not retried, or any exception of the invocation. *)
StreamFails(r) ==
  /\ Steps(r, "events")
  /\ Goto(r, "failClose")
  /\ Leave(r)
  /\ UNCHANGED <<durable, section, server, active, attempt, stream, cancelling,
                 callers>>

FailClosed(r, warn) ==
  /\ Steps(r, "failClose")
  /\ Do(r, Warning(warn) \o Settling(r, "failed"))
  /\ End(r)
  /\ UNCHANGED <<durable, server, cancelling, workspace, callers>>

CancelClosed(r, warn) ==
  /\ Steps(r, "cancelClose")
  /\ Do(r, Warning(warn) \o Cancelled(r))
  /\ End(r)
  /\ UNCHANGED <<durable, server, cancelling, workspace, callers>>

(***************************************************************************)
(* The CancelledError reaches the task.  Before its first step nothing of   *)
(* _drive runs; waiting or streaming, the handler closes the execution; an  *)
(* execution whose aclose was already called closes at once, so the handler *)
(* settles the run in the same section; and in a handler it goes straight   *)
(* to the finally block, which settles nothing.                             *)
(***************************************************************************)
Interrupt(r) ==
  /\ Quiescent /\ r \in cancelling
  /\ cancelling' = cancelling \ {r}
  /\ \/ /\ driver[r] = "new"
        /\ Goto(r, "unstarted")
        /\ UNCHANGED <<section, active, attempt, stream>>
     \/ /\ driver[r] \in {"lock", "events"}
        /\ Goto(r, "cancelClose")
        /\ UNCHANGED <<section, active, attempt, stream>>
     \/ /\ driver[r] \in {"retryClose", "retryCreate", "close"}
        /\ Do(r, Cancelled(r))
        /\ End(r)
     \/ /\ driver[r] \in {"failClose", "cancelClose"}
        /\ End(r)
        /\ UNCHANGED section
  /\ Leave(r)
  /\ UNCHANGED <<durable, server, callers>>
-----------------------------------------------------------------------------
(***************************************************************************)
(* cancel, and the loop of aclose, which does the same for each of the runs *)
(* that were active when it began.                                          *)
(***************************************************************************)
Running(rs) == {r \in rs : driver[r] \notin Over}

CancelQueued(c, r) ==
  /\ Quiescent /\ server = "up"
  /\ caller[c] = Idle
  /\ status[r] = "queued" /\ r \notin active
  /\ Do(r, <<Move("queued", "cancelled")>>)
  /\ UNCHANGED <<durable, volatile>>

CancelActive(c, r) ==
  /\ Quiescent /\ server = "up"
  /\ caller[c] = Idle
  /\ r \in active
  /\ cancelling' = cancelling \cup Running({r})
  /\ caller' = [caller EXCEPT ![c] = [pc |-> "cancelling", run |-> r, seen |-> "none"]]
  /\ UNCHANGED <<durable, section, server, active, driver, attempt, stream, workspace,
                 lifecycle, targets>>

AwaitedOnly(c, r) ==   \* mutation: cancel without _close_unstarted
  /\ Quiescent
  /\ At(c, "cancelling", r)
  /\ driver[r] \in Over
  /\ caller' = [caller EXCEPT ![c] = Idle]
  /\ UNCHANGED <<durable, section, server, tasks, lifecycle, targets>>

(* The task is over; _close_unstarted looks whether it ever began.  Only    *)
(* the first caller to close an execution waits for it.                     *)
Awaited(c, r) ==
  /\ Quiescent
  /\ At(c, "cancelling", r)
  /\ driver[r] \in Over
  /\ \/ /\ status[r] # "queued"
        /\ caller' = [caller EXCEPT ![c] = Idle]
        /\ UNCHANGED <<section, active, driver>>
     \/ /\ status[r] = "queued" /\ driver[r] = "unstarted"
        /\ \A d \in Callers : ~At(d, "closing", r)
        /\ caller' = [caller EXCEPT ![c] = [@ EXCEPT !.pc = "closing"]]
        /\ UNCHANGED <<section, active, driver>>
     \/ /\ status[r] = "queued"
        /\ driver[r] = "none" \/ \E d \in Callers : At(d, "closing", r)
        /\ Goto(r, "none")
        /\ active' = active \ {r}
        /\ Do(r, <<Move("queued", "cancelled")>>)
        /\ caller' = [caller EXCEPT ![c] = Idle]
  /\ UNCHANGED <<durable, server, attempt, stream, cancelling, workspace, lifecycle,
                 targets>>

UnstartedClosed(c, r) ==
  /\ Quiescent
  /\ At(c, "closing", r)
  /\ active' = active \ {r}
  /\ driver' = [driver EXCEPT ![r] = IF @ = "unstarted" THEN "none" ELSE @]
  /\ Do(r, <<Move("queued", "cancelled")>>)
  /\ caller' = [caller EXCEPT ![c] = Idle]
  /\ UNCHANGED <<durable, server, attempt, stream, cancelling, workspace, lifecycle,
                 targets>>

Stop ==
  /\ Quiescent /\ server = "up"
  /\ server' = "stopping"
  /\ targets' = active
  /\ cancelling' = cancelling \cup Running(active)
  /\ UNCHANGED <<durable, section, active, driver, attempt, stream, workspace,
                 lifecycle, caller>>

StopNext(r) ==
  /\ Quiescent /\ server = "stopping"
  /\ caller[Stopper] = Idle
  /\ r \in targets
  /\ targets' = targets \ {r}
  /\ caller' = [caller EXCEPT ![Stopper] = [pc |-> "cancelling", run |-> r,
                                            seen |-> "none"]]
  /\ UNCHANGED <<durable, section, server, tasks, lifecycle>>
-----------------------------------------------------------------------------
(* aclose returned, and the process ends. *)
Stopped ==
  /\ Quiescent /\ server = "stopping"
  /\ caller[Stopper] = Idle
  /\ targets = {}
  /\ server' = "down"
  /\ Fresh
  /\ UNCHANGED <<durable, section>>

(* The process dies, between two registry calls or anywhere else. *)
Crash ==
  /\ server # "down" \/ ~Quiescent
  /\ server' = "down"
  /\ section' = [run |-> NoRun, calls |-> <<>>]
  /\ Fresh
  /\ UNCHANGED durable

(* recover_interrupted_runs, before the server accepts a connection. *)
Recover(r) ==
  /\ Quiescent /\ server = "down"
  /\ status[r] \in ActiveStatus
  /\ Do(r, Settling(r, "failed"))
  /\ UNCHANGED <<durable, volatile>>

Serve ==
  /\ Quiescent /\ server = "down"
  /\ \A r \in Runs : status[r] \notin ActiveStatus
  /\ server' = "up"
  /\ UNCHANGED <<durable, section, tasks, callers>>
-----------------------------------------------------------------------------
(* Steps the task takes by itself; what the agent yields is up to the agent. *)
Drive(r) ==
  \/ Enter(r) \/ Acquire(r)
  \/ FirstEventTimeout(r) \/ RetryCreated(r) \/ RetryCreateFails(r)
  \/ StreamEnds(r) \/ StreamFails(r) \/ Interrupt(r)
  \/ \E warn \in CloseWarns : \/ RetryClosed(r, warn) \/ Closed(r, warn)
                              \/ FailClosed(r, warn) \/ CancelClosed(r, warn)

Yield(r) == Activity(r) \/ Output(r) \/ Fault(r)

Continue(c) ==
  \/ StartLocked(c)
  \/ \E r \in Runs : Created(c, r) \/ CreateFails(c, r)

Await(c) == \E r \in Runs : Awaited(c, r) \/ UnstartedClosed(c, r)

Request(c, r) == Start(c, r) \/ CancelQueued(c, r) \/ CancelActive(c, r)

Restart == Serve \/ \E r \in Runs : Recover(r)

Next ==
  \/ Commit
  \/ \E r \in Runs : Drive(r) \/ Yield(r) \/ StopNext(r)
  \/ \E c \in Clients : Continue(c) \/ \E r \in Runs : Request(c, r)
  \/ \E c \in Callers : Await(c)
  \/ Stop \/ Stopped \/ Crash \/ Restart

Spec == Init /\ [][Next]_vars

(***************************************************************************)
(* The event loop runs every task that can run: deadlines bound every       *)
(* invocation (total_timeout) and every close (close_timeout), the locks    *)
(* are FIFO, and the harness build returns.  A crash does not hit the same  *)
(* registry call for ever.  Nobody has to send a request, cancel, stop or   *)
(* crash, and the agent need not yield anything.                            *)
(***************************************************************************)
Fairness ==
  /\ SF_vars(Commit)
  /\ \A r \in Runs : WF_vars(Drive(r))
  /\ \A c \in Clients : WF_vars(Continue(c))
  /\ \A c \in Callers : WF_vars(Await(c))
  /\ \A r \in Runs : WF_vars(StopNext(r))
  /\ WF_vars(Stopped)
  /\ WF_vars(Restart)

FairSpec == Spec /\ Fairness
-----------------------------------------------------------------------------
(***************************************************************************)
(* The registry promises RunHistory to its readers, and the coordinator     *)
(* keeps it through every race of start, cancel, aclose, crash and restart: *)
(* no run begins twice, nothing but a warning follows a terminal event.     *)
(***************************************************************************)
History     == INSTANCE RunHistory
HistorySpec == History!Spec

(* Record and history of a run agree between any two registry calls. *)
HistoryConsistent == History!Consistent

(***************************************************************************)
(* A conversation has at most one queued or running turn, although start    *)
(* resumes, refuses and creates runs while others are being settled         *)
(* (create_run).                                                            *)
(***************************************************************************)
OneActivePerThread ==
  \A q, r \in Runs :
    /\ ThreadOf[q] = ThreadOf[r]
    /\ status[q] \in ActiveStatus
    /\ status[r] \in ActiveStatus
    => q = r

(***************************************************************************)
(* Whoever invokes the agent holds the workspace, alone, for a run whose    *)
(* record says "running" (or is about to, within this section): a run that  *)
(* was cancelled, failed or completed meanwhile is never invoked (_drive).  *)
(***************************************************************************)
Beginning(r) == status[r] = "queued" /\ section.run = r /\ section.calls = Opening

InvokesOnlyRunning ==
  \A r \in Runs : driver[r] \in Holding =>
    /\ workspace # <<>> /\ Head(workspace) = r
    /\ status[r] = "running" \/ Beginning(r)

(***************************************************************************)
(* An active run nobody will settle before the next restart or the next     *)
(* start with its key: it has no driver, this section does not settle it,   *)
(* and it is not a queued run that a starter is about to drive or a         *)
(* canceller, or aclose, to close.                                          *)
(***************************************************************************)
Attended(r) ==
  \/ driver[r] \notin Over
  \/ /\ section.run = r
     /\ \E i \in DOMAIN section.calls :
          section.calls[i].kind = "move" /\ section.calls[i].from = status[r]
  \/ /\ status[r] = "queued"
     /\ r \in targets \/ \E c \in Callers : caller[c].run = r

Abandoned(r) == /\ server # "down"
                /\ status[r] \in ActiveStatus
                /\ ~Attended(r)

(***************************************************************************)
(* Only one thing abandons a run: a CancelledError that arrives while an    *)
(* exception handler of its driver awaits the close of the execution (or,   *)
(* once that happened and a stale start drives the run anew, one that       *)
(* arrives before that second driver's first step).                         *)
(***************************************************************************)
AbandonedOnlyInHandler ==
  [][\A r \in Runs :
       Abandoned(r)' /\ ~Abandoned(r) =>
         /\ r \in cancelling
         /\ \/ driver[r] \in {"failClose", "cancelClose"}
            \/ driver[r] = "new" /\ status[r] = "running"]_vars

(***************************************************************************)
(* Every active run is settled, whatever its clients, the agent, aclose and *)
(* the crashes do, unless it is abandoned.                                  *)
(***************************************************************************)
EveryRunSettles ==
  \A r \in Runs :
    status[r] \in ActiveStatus ~> (status[r] \in TerminalStatus \/ Abandoned(r))

(* No request waits for ever: neither start behind the lifecycle lock, nor  *)
(* cancel behind the task it awaits; and aclose returns.                    *)
EveryCallReturns ==
  /\ \A c \in Clients : caller[c].pc # "idle" ~> caller[c].pc = "idle"
  /\ server = "stopping" ~> server = "down"

(***************************************************************************)
(* "Cancellation is terminal": a run whose cancellation a caller awaits     *)
(* becomes terminal.                                                        *)
(***************************************************************************)
CancelSettles ==
  \A r \in Runs :
    (\E c \in Clients : At(c, "cancelling", r)) ~> status[r] \in TerminalStatus
=============================================================================
