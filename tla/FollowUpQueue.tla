---------------------------- MODULE FollowUpQueue ----------------------------
(***************************************************************************)
(* What the follow-up queue of a conversation promises: the messages that   *)
(* wait are started in the order they were accepted, each at most once, and *)
(* a message that was removed while it waited is never started.             *)
(***************************************************************************)
EXTENDS SequencesExt

CONSTANT Items   \* follow-up messages

VARIABLES
  accepted,   \* every message ever accepted, in order
  started,    \* the messages that became a turn
  removed     \* the messages removed while they waited

queueVars == <<accepted, started, removed>>

Init == accepted = <<>> /\ started = {} /\ removed = {}

Waits(n) == accepted[n] \notin started \cup removed

Accept(i) == /\ i \notin ToSet(accepted)
             /\ accepted' = Append(accepted, i)
             /\ UNCHANGED <<started, removed>>

Start(n) == /\ Waits(n)
            /\ \A m \in 1..n-1 : ~Waits(m)
            /\ started' = started \cup {accepted[n]}
            /\ UNCHANGED <<accepted, removed>>

Withdraw(n) == /\ Waits(n)
               /\ removed' = removed \cup {accepted[n]}
               /\ UNCHANGED <<accepted, started>>

Next == \/ \E i \in Items : Accept(i)
        \/ \E n \in DOMAIN accepted : Start(n) \/ Withdraw(n)

Spec == Init /\ [][Next]_queueVars
=============================================================================
