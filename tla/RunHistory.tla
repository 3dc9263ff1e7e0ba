----------------------------- MODULE RunHistory -----------------------------
(***************************************************************************)
(* What the run registry promises to anyone who reads a run from it: the    *)
(* status of a run and its public event history, without the processes      *)
(* that produce them.  A history only grows, a run begins at most once, the *)
(* terminal event and the terminal status appear together and once, and     *)
(* nothing but a cleanup warning may follow them.                           *)
(***************************************************************************)
EXTENDS RunRecords

CONSTANT Runs   \* run ids: one per (user, idempotency key)

VARIABLES
  status,       \* status of each run ("none": no record yet)
  journal       \* kinds of the public events of each run, in sequence order

history == <<status, journal>>

Record(r, k) == journal' = [journal EXCEPT ![r] = Append(@, k)]

TypeOK == /\ status \in [Runs -> Status]
          /\ journal \in [Runs -> Seq(Kind)]
-----------------------------------------------------------------------------
Init == /\ status = [r \in Runs |-> "none"]
        /\ journal = [r \in Runs |-> <<>>]

Admit(r) == /\ status[r] = "none"
            /\ status' = [status EXCEPT ![r] = "queued"]
            /\ UNCHANGED journal

Begin(r) == /\ status[r] = "queued"
            /\ status' = [status EXCEPT ![r] = "running"]
            /\ UNCHANGED journal

Note(r, k) == /\ status[r] \in ActiveStatus
              /\ k \in {"started", "output", "retry"} => status[r] = "running"
              /\ Record(r, k)
              /\ UNCHANGED status

Settle(r, st) == /\ status[r] \in ActiveStatus
                 /\ st = "completed" => status[r] = "running"
                 /\ status' = [status EXCEPT ![r] = st]
                 /\ Record(r, TerminalEvent(st))

(* The one event a settled run may still receive. *)
LateWarning(r) == /\ status[r] \in TerminalStatus
                  /\ Record(r, "warning")
                  /\ UNCHANGED status

Next == \E r \in Runs : \/ Admit(r)
                        \/ Begin(r)
                        \/ \E k \in NoticeKind : Note(r, k)
                        \/ \E st \in TerminalStatus : Settle(r, st)
                        \/ LateWarning(r)

Spec == Init /\ [][Next]_history
-----------------------------------------------------------------------------
(* The positions of the terminal events of a run. *)
Endings(r) == {i \in 1..Len(journal[r]) : journal[r][i] \in TerminalKind}

(***************************************************************************)
(* A run's record and its history tell the same story: no history before    *)
(* the record exists, no terminal event while the run is active, and        *)
(* exactly the one that matches its status once it is settled, followed by  *)
(* cleanup warnings alone (terminalize, update_status and append_event).    *)
(***************************************************************************)
Consistent ==
  \A r \in Runs :
    /\ status[r] = "none" => journal[r] = <<>>
    /\ status[r] \in ActiveStatus => Endings(r) = {}
    /\ status[r] \in TerminalStatus =>
         \E i \in Endings(r) :
           /\ journal[r][i] = TerminalEvent(status[r])
           /\ Endings(r) = {i}
           /\ \A j \in i+1..Len(journal[r]) : journal[r][j] = "warning"
=============================================================================
