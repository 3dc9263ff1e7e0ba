----------------------- MODULE RunCoordinatorInvariant -----------------------
(***************************************************************************)
(* Why the safety properties of RunCoordinator hold, whatever the constants *)
(* are: what a section may still do, given the status of its run; who holds *)
(* the workspace; and that a driver inside it is known to _active, so that  *)
(* no starter takes its run for one the previous process left behind.       *)
(***************************************************************************)
EXTENDS RunCoordinator

Lifecycle(from, to) ==
  \/ from = "none" /\ to = "queued"
  \/ from = "queued" /\ to = "running"
  \/ from \in ActiveStatus /\ to \in TerminalStatus /\ (to = "completed" => from = "running")

Pending(r, call) == section.run = r /\ section.calls = <<call>>

LegalCalls(r, cs) ==
  \A i \in 1..Len(cs) :
    /\ cs[i].kind = "move" =>
         /\ Lifecycle(cs[i].from, cs[i].to)
         /\ cs[i].to \in TerminalStatus => i = Len(cs)
         /\ cs[i].to = "queued" => Len(cs) = 1 /\ status[r] = "none"
         /\ cs[i].to = "running" => i = 1 /\ cs = Opening /\ status[r] = "queued"
    /\ cs[i].kind = "note" =>
         /\ status[r] # "none"
         /\ cs[i].event = "cancelled" => status[r] \in ActiveStatus
         /\ cs[i].event \in {"started", "output", "retry"} =>
              \/ status[r] = "running"
              \/ status[r] = "queued" /\ cs = Opening

SectionLegal == LegalCalls(section.run, section.calls)

(* A record is made before anybody works on the run. *)
Recorded ==
  \A r \in Runs : status[r] = "none" =>
    /\ driver[r] = "none" /\ r \notin active /\ r \notin targets
    /\ \A c \in Callers : caller[c].run = r => Pending(r, Move("none", "queued"))

Settled(r) == \/ status[r] \in TerminalStatus
              \/ status[r] = "queued" /\ Pending(r, Move("queued", "cancelled"))

(* The section does not settle the run of a driver that is in the workspace. *)
Spared(r) ==
  section.run = r => \A i \in 1..Len(section.calls) :
    section.calls[i].kind = "move" /\ section.calls[i].to \in TerminalStatus
      => section.calls[i].from # status[r]

HoldersLegal ==
  \A r \in Runs : driver[r] \in Holding =>
    /\ r \in active /\ Spared(r)
    /\ status[r] = "running" \/ Beginning(r)

(* Only a settled run loses the _active entry of a driver that may begin it. *)
Registered ==
  \A r \in Runs : driver[r] \in {"new", "lock"} => r \in active \/ Settled(r)

(* One task at a time closes an execution that never began. *)
ClosersLegal ==
  \A c \in Callers, r \in Runs : At(c, "closing", r) =>
    /\ driver[r] = "unstarted" \/ Settled(r)
    /\ \A d \in Callers : At(d, "closing", r) => c = d

DownLegal ==
  server = "down" => /\ \A r \in Runs : driver[r] = "none"
                     /\ \A c \in Callers : caller[c].pc = "idle"

WorkspaceLegal ==
  /\ \A i, j \in 1..Len(workspace) : workspace[i] = workspace[j] => i = j
  /\ \A i \in 1..Len(workspace) : driver[workspace[i]] \in Holding \cup {"lock"}
  /\ \A r \in Runs : driver[r] \in Holding => workspace # <<>> /\ workspace[1] = r

(* A new run is created only where the conversation has no active turn. *)
ThreadLegal ==
  \A r \in Runs : Pending(r, Move("none", "queued")) =>
    \A q \in Sibling(r) : status[q] \notin ActiveStatus

(***************************************************************************)
(* The inductive invariant of the coordinator: every combination of record, *)
(* driver, caller and section that start, cancel, aclose, crash and recovery*)
(* can leave behind.                                                        *)
(***************************************************************************)
Inv == /\ SectionLegal /\ Recorded
       /\ HoldersLegal /\ Registered /\ ClosersLegal /\ DownLegal
       /\ WorkspaceLegal /\ ThreadLegal /\ OneActivePerThread

-----------------------------------------------------------------------------
(***************************************************************************)
(* Why only a handler abandons a run: whoever cancels a driver's task waits *)
(* for it, with the run, until it is over; what start and recovery read of  *)
(* a run is not undone; a run begins with its driver inside; and only       *)
(* aclose has a list of runs to await.                                      *)
(***************************************************************************)
Awaiter(r, pcs) == r \in targets \/ \E c \in Callers : caller[c].pc \in pcs /\ caller[c].run = r

CancelledAwaited ==
  \A r \in cancelling : driver[r] \notin Over /\ Awaiter(r, {"cancelling"})

ActiveAttended ==
  \A r \in active : status[r] = "queued" =>
    driver[r] \notin Over \/ Awaiter(r, {"cancelling", "closing"})

SeenKept ==
  \A c \in Callers, r \in Runs :
    At(c, "starting", r) /\ status[r] \in {"none", "queued"} => caller[c].seen = "queued"

BirthsAwaited ==
  \A r \in Runs : Pending(r, Move("none", "queued")) => \E c \in Callers : caller[c].run = r

BeginsInside ==
  \A r \in Runs : section.run = r /\ section.calls = Opening => driver[r] = "events"

TargetsStopping == server # "stopping" => targets = {}

Cared == /\ CancelledAwaited /\ ActiveAttended /\ SeenKept
         /\ BirthsAwaited /\ BeginsInside /\ TargetsStopping
=============================================================================
