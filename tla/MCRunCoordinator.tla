-------------------------- MODULE MCRunCoordinator --------------------------
(***************************************************************************)
(* Small instances of RunCoordinator for TLC in one: the initial state     *)
(* chooses who sends requests, for which runs, and whether the agent and   *)
(* the closing of its executions have anything to report. Nothing that is  *)
(* left out is fair: nobody has to send a request, no agent has to yield   *)
(* output, and every close may also end without a warning.                 *)
(***************************************************************************)
EXTENDS RunCoordinatorInvariant, TLC

CONSTANTS r1, r2, r3, a, b, c1, c2

VARIABLE cast

Mixed == r1 :> a @@ r2 :> a @@ r3 :> b  \* two turns of a conversation, one of another

Casts == {[clients |-> {c1}, runs |-> {r1}, quiet |-> FALSE],
          [clients |-> {c1, c2}, runs |-> {r1}, quiet |-> TRUE],    \* one run
          [clients |-> {c1}, runs |-> {r1, r2}, quiet |-> TRUE],    \* one conversation
          [clients |-> {c1}, runs |-> {r1, r3}, quiet |-> TRUE]}    \* two of them

CastInit == Init /\ cast \in Casts
CastNext ==
  /\ \/ Commit
     \/ \E r \in Runs : Drive(r) \/ Yield(r) \/ StopNext(r)
     \/ \E c \in Clients : Continue(c)
     \/ \E c \in cast.clients, r \in cast.runs : Request(c, r)
     \/ \E c \in Callers : Await(c)
     \/ Stop \/ Stopped \/ Crash \/ Restart
  /\ cast.quiet => \A i \in DOMAIN section'.calls :
                      section'.calls[i] \notin {Note("output"), Note("warning")}
  /\ UNCHANGED cast

CastSpec == CastInit /\ [][CastNext]_<<vars, cast>> /\ Fairness
=============================================================================
