----------------------------- MODULE RunRecords -----------------------------
(***************************************************************************)
(* The vocabulary of the run registry: the statuses a run record may hold   *)
(* and the kinds of public event its history is made of.                    *)
(***************************************************************************)
EXTENDS Naturals, Sequences

ActiveStatus   == {"queued", "running"}
TerminalStatus == {"completed", "cancelled", "failed"}
Status         == {"none"} \cup ActiveStatus \cup TerminalStatus

(***************************************************************************)
(* "finished" is RUN_FINISHED with the outcome of a completed turn,         *)
(* "stopped" is RUN_FINISHED with {"status": "cancelled"}, "error" is       *)
(* RUN_ERROR.  The notices are RUN_STARTED, the events of the agent, and    *)
(* the coding.run.* events of the coordinator.                              *)
(***************************************************************************)
TerminalKind == {"finished", "stopped", "error"}
NoticeKind   == {"started", "output", "retry", "cancelled", "warning"}
Kind         == TerminalKind \cup NoticeKind

TerminalEvent(st) == CASE st = "completed" -> "finished"
                       [] st = "cancelled" -> "stopped"
                       [] st = "failed"    -> "error"
=============================================================================
