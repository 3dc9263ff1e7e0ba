--------------------------- MODULE SteeringQueue ---------------------------
(***************************************************************************)
(* The durable queue of user steering of one task                          *)
(* (harness/state/steering.py), as operators on a function from message    *)
(* to state.  Every invocation of a task leases under the same owner       *)
(* (workflow.py:619), so a lease has no owner here.  "expired" is a leased *)
(* row whose lease_until has passed.  Priorities are free: a lease takes   *)
(* any queued messages, up to its limit.                                   *)
(***************************************************************************)
EXTENDS Naturals, FiniteSets, FiniteSetsExt

MessageState == {"unsent", "queued", "leased", "expired", "acked"}

(* The messages of queue q in one of the given states. *)
Having(q, states) == {m \in DOMAIN q : q[m] \in states}

(* A mutant: an expired lease is not looked at. *)
PendingQueued(q) == Having(q, {"queued"}) # {}

(* has_pending: new or expired steering awaits delivery. *)
Pending(q) == Having(q, {"queued", "expired"}) # {}

(* leased_by: the live leases of the owner. *)
LeasedBy(q) == Having(q, {"leased"})

(* The sets a lease of at most `limit` messages may take: expired leases
   are queued again first, in the same transaction. *)
Leasable(q, limit) ==
    LET waiting == Having(q, {"queued", "expired"})
    IN  kSubset(IF Cardinality(waiting) < limit THEN Cardinality(waiting) ELSE limit, waiting)

(* The queue after a lease took the messages in taken. *)
Lease(q, taken) ==
    [m \in DOMAIN q |-> CASE m \in taken -> "leased"
                          [] m \notin taken /\ q[m] = "expired" -> "queued"
                          [] OTHER -> q[m]]

(* ack and release of the owner's live leases. *)
Ack(q) == [m \in DOMAIN q |-> IF m \in LeasedBy(q) THEN "acked" ELSE q[m]]

Release(q) == [m \in DOMAIN q |-> IF m \in LeasedBy(q) THEN "queued" ELSE q[m]]
=============================================================================
