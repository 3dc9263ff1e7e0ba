----------------------------- MODULE RunDelivery -----------------------------
(***************************************************************************)
(* How the public events of one run reach the terminal client that follows  *)
(* it: the durable history and its live fan-out (harness/server/            *)
(* registry.py), the attachment (RunCoordinator.attach), the connection     *)
(* with its bounded queues (harness/server/websocket.py) and the client     *)
(* that reconnects from its cursor (clients/terminal/src/remote-session.ts, *)
(* session.ts).  The run itself is what RunHistory promises of it.          *)
(*                                                                          *)
(* Neither replay nor the loop over the live queue ever waits: attach reads *)
(* SQLite synchronously, Queue.get returns at once while the queue has an   *)
(* item, and _enqueue is put_nowait.  So each is one section of the event   *)
(* loop, which the writer cannot enter to make room in the outbound queue.  *)
(***************************************************************************)
EXTENDS RunRecords, FiniteSets

CONSTANTS
  Run,         \* the run the client follows
  Notices,     \* the notices the run may record; delivery treats all alike
  Outcomes,    \* the statuses the run may end with
  OutCap,      \* outbound_queue_size
  SubCap,      \* queue_capacity of the broker
  WireCap,     \* bound: messages the transport holds before a send waits
  MaxEvents,   \* bound on the history of the run
  MaxDrops,    \* bound on the connections lost on the way
  MaxReplies   \* bound on the other messages the server sends

ASSUME DeliveryAssumption ==
  /\ Notices \in SUBSET NoticeKind
  /\ Outcomes \in SUBSET TerminalStatus
  /\ OutCap \in Nat \ {0}
  /\ SubCap \in Nat \ {0}
  /\ WireCap \in Nat \ {0}
  /\ MaxEvents \in Nat
  /\ MaxDrops \in Nat
  /\ MaxReplies \in Nat

VARIABLES
  status, journal,  \* durable: the record of the run and its events
  cursor,           \* client: the last sequence it applied
  accepted,         \* client: it knows the run id (no pendingStart)
  link,             \* "down", "asking" (request under way), "open" or
                    \* "closing" (closed by the server, the client will see it)
  wire,             \* messages on their way to the client
  outbound,         \* _outbound
  attachment,       \* where the _stream_run task is
  position,         \* the cursor of attach
  live,             \* the queue of the subscription
  drops, replies    \* how often the bounded actions happened

history    == <<status, journal>>
client     == <<cursor, accepted>>
connection == <<link, wire, outbound>>
follower   == <<attachment, position, live>>
bounds     == <<drops, replies>>
vars       == <<history, client, connection, follower, bounds>>

(***************************************************************************)
(* "none": no task, or it has ended.  "new": created, not yet subscribed.   *)
(* "live": replay is done and it reads the subscription.  "overflowed": the *)
(* broker has closed the subscription under it.                             *)
(***************************************************************************)
Attachment == {"none", "new", "live", "overflowed"}
Link       == {"down", "asking", "open", "closing"}

Event(n) == [kind |-> "event", sequence |-> n]
Other(k) == [kind |-> k, sequence |-> 0]
Message  == [kind : {"event"}, sequence : 1..MaxEvents]
              \cup [kind : {"accepted", "reply", "close"}, sequence : {0}]

TypeOK ==
  /\ status \in [{Run} -> Status]
  /\ journal \in [{Run} -> Seq(Kind)]
  /\ cursor \in 0..MaxEvents
  /\ accepted \in BOOLEAN
  /\ link \in Link
  /\ wire \in Seq(Message)
  /\ outbound \in Seq(Message) /\ Len(outbound) <= OutCap
  /\ attachment \in Attachment
  /\ position \in 0..MaxEvents
  /\ live \in Seq(1..MaxEvents) /\ Len(live) <= SubCap
  /\ drops \in 0..MaxDrops
  /\ replies \in 0..MaxReplies

Init ==
  /\ status = [r \in {Run} |-> "none"]
  /\ journal = [r \in {Run} |-> <<>>]
  /\ cursor = 0
  /\ accepted = FALSE
  /\ link = "down"
  /\ wire = <<>>
  /\ outbound = <<>>
  /\ attachment = "none"
  /\ position = 0
  /\ live = <<>>
  /\ drops = 0
  /\ replies = 0
-----------------------------------------------------------------------------
History  == INSTANCE RunHistory WITH Runs <- {Run}

High     == Len(journal[Run])   \* the durable high-water sequence
Settled  == status[Run] \in TerminalStatus
Final(n) == journal[Run][n] \in TerminalKind

(* Committed first, then offered to the subscriber.  A full queue closes    *)
(* the subscription and discards what it holds.                             *)
PublishDropping ==   \* mutation: a full queue loses the event only
  IF attachment = "live" /\ Len(live) < SubCap
  THEN /\ live' = Append(live, High + 1)
       /\ UNCHANGED attachment
  ELSE UNCHANGED <<live, attachment>>

PublishUnclosed ==   \* mutation: the discarded subscription is not closed
  IF attachment # "live" THEN UNCHANGED <<live, attachment>>
  ELSE IF Len(live) < SubCap
       THEN live' = Append(live, High + 1) /\ UNCHANGED attachment
       ELSE live' = <<>> /\ UNCHANGED attachment

Publish ==
  IF attachment # "live" THEN UNCHANGED <<live, attachment>>
  ELSE IF Len(live) < SubCap
       THEN live' = Append(live, High + 1) /\ UNCHANGED attachment
       ELSE live' = <<>> /\ attachment' = "overflowed"

Begin == History!Begin(Run) /\ UNCHANGED <<client, connection, follower, bounds>>

Append1 ==
  /\ High < MaxEvents
  /\ \/ \E k \in Notices : History!Note(Run, k)
     \/ \E st \in Outcomes : History!Settle(Run, st)
     \/ History!LateWarning(Run)
  /\ Publish
  /\ UNCHANGED <<client, connection, position, bounds>>
-----------------------------------------------------------------------------
(***************************************************************************)
(* The connection.  _close takes the send lock in the section that found no *)
(* room, so nothing still in the outbound queue is ever sent.               *)
(***************************************************************************)
Detached == attachment' = "none" /\ position' = 0 /\ live' = <<>>

Close == /\ link' = "closing"
         /\ wire' = Append(wire, Other("close"))
         /\ outbound' = <<>>
         /\ Detached

Lost == /\ link' = "down"
        /\ wire' = <<>>
        /\ outbound' = <<>>
        /\ Detached

Room(ms) == Len(outbound) + Len(ms) <= OutCap

Enqueue(ms) == outbound' = outbound \o ms /\ UNCHANGED <<link, wire>>

EventsFrom(n, m) == [i \in 1..(m - n) |-> Event(n + i)]

(* The request the client sends after the handshake: start until it knows   *)
(* the run id, attach from its cursor afterwards.                           *)
Asked(after) ==
  /\ link = "asking"
  /\ \/ /\ accepted
        /\ UNCHANGED <<status, wire, outbound>>
        /\ link' = "open" /\ attachment' = "new" /\ position' = after
     \/ /\ ~accepted
        /\ status' = [status EXCEPT ![Run] = IF @ = "none" THEN "queued" ELSE @]
        /\ \/ /\ Room(<<Other("accepted")>>)
              /\ outbound' = Append(outbound, Other("accepted"))
              /\ link' = "open" /\ attachment' = "new" /\ position' = 0
              /\ UNCHANGED wire
           \/ ~Room(<<Other("accepted")>>) /\ Close
  /\ UNCHANGED <<journal, client, live, bounds>>

Request         == Asked(cursor)

(* The first section of the attachment: subscribe, replay the whole backlog *)
(* and return if the run is over, else stay for what comes next.            *)
Replay ==
  LET backlog == EventsFrom(position, High) IN
  /\ attachment = "new"
  /\ \/ /\ Room(backlog)
        /\ Enqueue(backlog)
        /\ position' = position + Len(backlog)
        /\ attachment' = IF Settled THEN "none" ELSE "live"
        /\ UNCHANGED live
     \/ ~Room(backlog) /\ Close
  /\ UNCHANGED <<history, client, bounds>>

(* The live loop: everything the queue holds beyond the cursor, up to the   *)
(* terminal event, where attach returns.                                    *)
Stale == {i \in DOMAIN live : live[i] <= position}   \* the queue ascends
Fresh == SubSeq(live, Cardinality(Stale) + 1, Len(live))
Ends  == {i \in 1..Len(Fresh) : Final(Fresh[i])}

Deliver ==
  LET upTo == IF Ends = {} THEN Len(Fresh) ELSE CHOOSE i \in Ends : TRUE
      news == [i \in 1..upTo |-> Event(Fresh[i])]
  IN
  /\ attachment = "live" /\ live # <<>>
  /\ \/ /\ Room(news)
        /\ Enqueue(news)
        /\ position' = IF upTo = 0 THEN position ELSE Fresh[upTo]
        /\ live' = <<>>
        /\ attachment' = IF Ends = {} THEN "live" ELSE "none"
     \/ ~Room(news) /\ Close
  /\ UNCHANGED <<history, client, bounds>>

(* SubscriberBackpressureError. *)
Overflowed ==
  /\ attachment = "overflowed"
  /\ Close
  /\ UNCHANGED <<history, client, bounds>>

(* Answers to the other requests of the client share the outbound queue.    *)
Reply ==
  /\ link \in {"asking", "open"} /\ replies < MaxReplies
  /\ replies' = replies + 1
  /\ \/ /\ Room(<<Other("reply")>>)
        /\ Enqueue(<<Other("reply")>>)
        /\ UNCHANGED follower
     \/ ~Room(<<Other("reply")>>) /\ Close
  /\ UNCHANGED <<history, client, drops>>

Write ==
  /\ link \in {"asking", "open"}
  /\ outbound # <<>> /\ Len(wire) < WireCap
  /\ wire' = Append(wire, Head(outbound))
  /\ outbound' = Tail(outbound)
  /\ UNCHANGED <<history, client, link, follower, bounds>>
-----------------------------------------------------------------------------
(* The client opens a socket and completes the handshake. *)
Connect ==
  /\ link = "down"
  /\ link' = "asking"
  /\ UNCHANGED <<history, client, wire, outbound, follower, bounds>>

(* A network failure, a missed heartbeat, or the server process dying. *)
Drop ==
  /\ link # "down" /\ drops < MaxDrops
  /\ drops' = drops + 1
  /\ Lost
  /\ UNCHANGED <<history, client, replies>>

(* A close frame, and an event beyond the next one, end the connection; an  *)
(* event already applied is ignored.                                        *)
Receive ==
  LET m == Head(wire) IN
  /\ wire # <<>>
  /\ IF m.kind = "close" \/ m.sequence > cursor + 1
     THEN /\ Lost
          /\ UNCHANGED client
     ELSE /\ wire' = Tail(wire)
          /\ cursor' = IF m.sequence = cursor + 1 THEN m.sequence ELSE cursor
          /\ accepted' = (accepted \/ m.kind = "accepted")
          /\ UNCHANGED <<link, outbound, follower>>
  /\ UNCHANGED <<history, bounds>>
-----------------------------------------------------------------------------
Serve == Request \/ Replay \/ Deliver \/ Overflowed \/ Write

Next == \/ Begin \/ Append1
        \/ Serve \/ Reply
        \/ Connect \/ Drop \/ Receive

Spec == Init /\ [][Next]_vars

(* The tasks of the event loop run when they can, the transport delivers,   *)
(* and the client reconnects for as long as it takes (a backoff of at most  *)
(* ten seconds).  The run need not do anything.                             *)
FairSpec == Spec /\ WF_vars(Serve) /\ WF_vars(Connect) /\ WF_vars(Receive)
-----------------------------------------------------------------------------
Underway == wire \o outbound
Sent     == {i \in DOMAIN Underway : Underway[i].kind = "event"}

(***************************************************************************)
(* "attach replays then streams live without gaps or duplicates": what is   *)
(* on its way to the client continues its cursor one by one, the attachment *)
(* stands right behind it, and a live subscription holds all that was       *)
(* recorded since, however replay, publication and overflow interleave.     *)
(***************************************************************************)
NoGapNoDuplicate ==
  \E last \in cursor..High :
    /\ {Underway[i].sequence : i \in Sent} = (cursor + 1)..last
    /\ \A i, j \in Sent : i < j => Underway[i].sequence < Underway[j].sequence
    /\ attachment \in {"new", "live"} => position = last
    /\ attachment = "live" =>
         live = [i \in 1..(High - last) |-> last + i]

(***************************************************************************)
(* Once the run is over the client sees its end, with everything before it, *)
(* whatever was lost on the way ("a client that misses live fan-out         *)
(* recovers with replay").                                                  *)
(***************************************************************************)
CatchesUp == Settled ~> \E n \in 1..cursor : Final(n)

=============================================================================
